------------------------- MODULE CommandLineProofs --------------------------
(***************************************************************************)
(* The command line, for any set of words and any number of arguments:     *)
(* what the parser has read so far is always what the words before curArgc *)
(* say, so that what it accepts in the end is what the usage lines allow.  *)
(***************************************************************************)
EXTENDS CommandLine, FiniteSetTheorems, SequenceTheorems, TLAPS

-----------------------------------------------------------------------------
(* The inductive invariant. *)

Requests == [firstArg : Words \cup {""}, outputFile : Words \cup {""},
             analyzeTemplates : BOOLEAN, generateTimeTrace : BOOLEAN,
             noAdmin : BOOLEAN, noCpuSampling : BOOLEAN,
             verbosityLevel : {"INVALID", "LIGHT", "MEDIUM", "VERBOSE"}]

\* A command line is never empty, and what follows the command are words.
ArgumentsInv ==
  /\ argv \in Seq(Commands \cup Words) /\ Len(argv) >= 1
  /\ \A i \in 2 .. Len(argv) : argv[i] \in Words

ParserInv ==
  /\ pc \in {"command", "first", "option", "output", "start", "done"}
  /\ outcome = "" <=> pc # "done"
  /\ request \in Requests
  /\ pc = "command" => curArgc = 2 /\ request = NoRequest

\* The place of the word after the session name or input file.
AfterFirst == IF argv[2] = "/templates" THEN 4 ELSE 3

\* ParseStopOrAnalyze: what was read is what the words say.
StopOrAnalyzeInv ==
  /\ pc \in {"first", "option", "output"} =>
       argv[1] \in {"/stop", "/analyze"} /\ Len(argv) >= 3
  /\ pc \in {"option", "output"} =>
       /\ AfterFirst <= Len(argv)
       /\ request.analyzeTemplates <=> argv[2] = "/templates"
       /\ request.firstArg = argv[AfterFirst - 1]
  /\ pc = "first" => ~ request.generateTimeTrace /\ ~ request.analyzeTemplates
  /\ pc = "option" => curArgc = AfterFirst /\ ~ request.generateTimeTrace
  /\ pc = "output" =>
       /\ request.generateTimeTrace <=> argv[AfterFirst] = "/timetrace"
       /\ curArgc = IF request.generateTimeTrace THEN AfterFirst + 1 ELSE AfterFirst
       /\ request.generateTimeTrace => Len(argv) >= 4

\* The places of the options of S before the n-th word.
Given(S, n) == {i \in 2 .. n - 1 : argv[i] \in S}

AtMostOne(S, n) == \A i, j \in Given(S, n) : i = j

\* The level that the options before the n-th word ask for.
LevelGiven(n) ==
  IF Given({"/level1"}, n) # {} THEN "LIGHT"
  ELSE IF Given({"/level2"}, n) # {} THEN "MEDIUM"
  ELSE IF Given({"/level3"}, n) # {} THEN "VERBOSE"
  ELSE "INVALID"

\* All words before the n-th are options that do not exclude each other.
OptionsBefore(n) ==
  /\ n \in 2 .. argc
  /\ \A i \in 2 .. n - 1 : argv[i] \in StartOptions
  /\ AtMostOne({"/noadmin"}, n)
  /\ AtMostOne({"/nocpusampling"}, n)
  /\ AtMostOne(LevelOptions, n)

\* CheckStartSubCommands: what was read is what the options say.
StartInv ==
  pc = "start" =>
    /\ argv[1] = "/start"
    /\ OptionsBefore(curArgc)
    /\ request.noAdmin <=> Given({"/noadmin"}, curArgc) # {}
    /\ request.noCpuSampling <=> Given({"/nocpusampling"}, curArgc) # {}
    /\ request.verbosityLevel = LevelGiven(curArgc)

\* The one command line whose output file is looked for where there is none.
TimetraceWithoutOutput ==
  /\ argv[1] \in {"/stop", "/analyze"}
  /\ Len(argv) = 4 /\ argv[2] = "/templates" /\ argv[4] = "/timetrace"

\* A string is made of an argument that is not there for no other command
\* line than this one: the checks of argc before cover all others.
UndefinedOnlyThere == outcome = "undefined" => TimetraceWithoutOutput

IInv ==
  /\ ArgumentsInv /\ ParserInv /\ StopOrAnalyzeInv /\ StartInv
  /\ UsageRespected /\ StartUsageRespected /\ EventsCollected /\ UndefinedOnlyThere

-----------------------------------------------------------------------------
(* Usage lines. *)

\* A sequence starts with another that it agrees with from the start.
LEMMA StartsWithValue ==
  ASSUME NEW S, NEW s \in Seq(S), NEW t \in Seq(S)
  PROVE  StartsWith(s, t) <=> Len(t) <= Len(s) /\ \A i \in 1 .. Len(t) : s[i] = t[i]
<1>1. CASE Len(t) <= Len(s)
  <2>1. /\ SubSeq(s, 1, Len(t)) \in Seq(S)
        /\ Len(SubSeq(s, 1, Len(t))) = Len(t)
        /\ \A i \in 1 .. Len(t) : SubSeq(s, 1, Len(t))[i] = s[i]
    BY <1>1
  <2> QED BY <1>1, <2>1 DEF StartsWith
<1> QED BY <1>1 DEF StartsWith

\* Arguments are the words after the command.
LEMMA ArgumentsValue ==
  ASSUME ArgumentsInv
  PROVE  /\ Arguments \in Seq(Words)
         /\ Len(Arguments) = Len(argv) - 1
         /\ \A i \in 1 .. Len(argv) - 1 : Arguments[i] = argv[i + 1]
<1>1. /\ Arguments \in Seq(Commands \cup Words) /\ Len(Arguments) = Len(argv) - 1
      /\ \A i \in 1 .. Len(argv) - 1 : Arguments[i] = argv[i + 1]
  BY DEF ArgumentsInv, Arguments
<1>2. \A i \in 1 .. Len(Arguments) : Arguments[i] \in Words
  BY <1>1 DEF ArgumentsInv
<1> QED BY <1>1, <1>2

\* The words of a usage line, written out.
LEMMA UsageWords ==
  ASSUME NEW u \in UsageLines
  PROVE  /\ u[2] \in Words
         /\ u[1] = <<>> \/ u[1] = <<"/templates">>
         /\ \/ \E f \in EtlFiles : u[3] = <<f>>
            \/ \E f \in JsonFiles : u[3] = <<"/timetrace", f>>
         /\ u[2] = "/templates" => u[1] # <<>>
BY DEF UsageLines

\* p, q and r are found in s, one after the other.
Found(s, p, q, r) ==
  /\ Len(p) + Len(q) + Len(r) <= Len(s)
  /\ \A i \in 1 .. Len(p) : s[i] = p[i]
  /\ \A i \in 1 .. Len(q) : s[Len(p) + i] = q[i]
  /\ \A i \in 1 .. Len(r) : s[Len(p) + Len(q) + i] = r[i]

LEMMA StartsWithThree ==
  ASSUME NEW S, NEW s \in Seq(S), NEW p \in Seq(S), NEW q \in Seq(S), NEW r \in Seq(S)
  PROVE  StartsWith(s, p \o q \o r) <=> Found(s, p, q, r)
<1> DEFINE pq == p \o q
           t == p \o q \o r
<1>1. /\ pq \in Seq(S) /\ Len(pq) = Len(p) + Len(q)
      /\ \A i \in 1 .. Len(pq) : pq[i] = IF i <= Len(p) THEN p[i] ELSE q[i - Len(p)]
  BY ConcatProperties
<1>2. /\ t \in Seq(S) /\ Len(t) = Len(pq) + Len(r)
      /\ \A i \in 1 .. Len(t) : t[i] = IF i <= Len(pq) THEN pq[i] ELSE r[i - Len(pq)]
  BY <1>1, ConcatProperties
<1>3. Len(p) \in Nat /\ Len(q) \in Nat /\ Len(r) \in Nat
  OBVIOUS
<1> HIDE DEF pq, t
<1>4. StartsWith(s, t) <=> Len(t) <= Len(s) /\ \A i \in 1 .. Len(t) : s[i] = t[i]
  BY <1>2, StartsWithValue
<1> DEFINE Agree == /\ \A i \in 1 .. Len(p) : s[i] = p[i]
                    /\ \A i \in 1 .. Len(q) : s[Len(p) + i] = q[i]
                    /\ \A i \in 1 .. Len(r) : s[Len(p) + Len(q) + i] = r[i]
<1>5. ASSUME NEW i \in 1 .. Len(p)
      PROVE  i \in 1 .. Len(t) /\ t[i] = p[i]
  <2>1. i \in 1 .. Len(pq) /\ i \in 1 .. Len(t) /\ i <= Len(p) /\ i <= Len(pq)
    BY <1>1, <1>2, <1>3
  <2>2. t[i] = pq[i]
    BY <1>2, <2>1
  <2>3. pq[i] = p[i]
    BY <1>1, <2>1
  <2> QED BY <2>1, <2>2, <2>3
<1>6. ASSUME NEW i \in 1 .. Len(q)
      PROVE  Len(p) + i \in 1 .. Len(t) /\ t[Len(p) + i] = q[i]
  <2> DEFINE k == Len(p) + i
  <2>1. /\ k \in 1 .. Len(pq) /\ k \in 1 .. Len(t) /\ ~ k <= Len(p) /\ k <= Len(pq)
        /\ k - Len(p) = i
    BY <1>1, <1>2, <1>3
  <2> HIDE DEF k
  <2>2. t[k] = pq[k]
    BY <1>2, <2>1
  <2>3. pq[k] = q[i]
    BY <1>1, <2>1
  <2> QED BY <2>1, <2>2, <2>3 DEF k
<1>7. ASSUME NEW i \in 1 .. Len(r)
      PROVE  Len(p) + Len(q) + i \in 1 .. Len(t) /\ t[Len(p) + Len(q) + i] = r[i]
  <2> DEFINE k == Len(p) + Len(q) + i
  <2>1. k \in 1 .. Len(t) /\ ~ k <= Len(pq) /\ k - Len(pq) = i
    BY <1>1, <1>2, <1>3
  <2> HIDE DEF k
  <2>2. t[k] = r[i]
    BY <1>2, <2>1
  <2> QED BY <2>1, <2>2 DEF k
<1>8. ASSUME Agree, NEW k \in 1 .. Len(t)
      PROVE  s[k] = t[k]
  <2>1. Len(t) = Len(p) + Len(q) + Len(r)
    BY <1>1, <1>2
  <2>2. CASE k <= Len(p)
    <3>1. k \in 1 .. Len(p)
      BY <1>3, <2>2
    <3> QED BY <1>5, <1>8, <3>1
  <2>3. CASE k > Len(p) /\ k <= Len(p) + Len(q)
    <3>1. k - Len(p) \in 1 .. Len(q) /\ Len(p) + (k - Len(p)) = k
      BY <1>3, <2>3
    <3> QED BY <1>6, <1>8, <3>1
  <2>4. CASE k > Len(p) + Len(q)
    <3>1. /\ k - (Len(p) + Len(q)) \in 1 .. Len(r)
          /\ Len(p) + Len(q) + (k - (Len(p) + Len(q))) = k
      BY <1>3, <2>1, <2>4
    <3> QED BY <1>7, <1>8, <3>1
  <2> QED BY <1>3, <2>2, <2>3, <2>4
<1>9. ASSUME \A k \in 1 .. Len(t) : s[k] = t[k]
      PROVE  Agree
  BY <1>5, <1>6, <1>7, <1>9
<1>10. StartsWith(s, t) <=> Len(p) + Len(q) + Len(r) <= Len(s) /\ Agree
  <2> HIDE DEF Agree
  <2> QED BY <1>1, <1>2, <1>4, <1>8, <1>9
<1> QED BY <1>10 DEF t, Agree, Found

\* What an argument list that a usage line allows looks like.
LEMMA LineOnCommand ==
  ASSUME ArgumentsInv, NEW u \in UsageLines
  PROVE  StartsWith(Arguments, u[1] \o <<u[2]>> \o u[3]) <=>
           /\ u[1] # <<>> <=> argv[2] = "/templates"
           /\ AfterFirst <= Len(argv)
           /\ u[2] = argv[AfterFirst - 1]
           /\ \/ u[3] = <<argv[AfterFirst]>> /\ argv[AfterFirst] \in EtlFiles
              \/ /\ AfterFirst + 1 <= Len(argv)
                 /\ argv[AfterFirst] = "/timetrace" /\ argv[AfterFirst + 1] \in JsonFiles
                 /\ u[3] = <<"/timetrace", argv[AfterFirst + 1]>>
<1> DEFINE w == u[2]
           n == Len(argv)
<1>1. /\ Arguments \in Seq(Words) /\ Len(Arguments) = n - 1 /\ n \in Nat /\ n >= 1
      /\ \A i \in 1 .. n - 1 : Arguments[i] = argv[i + 1]
  BY ArgumentsValue DEF ArgumentsInv
<1>2. /\ w \in Words
      /\ u[1] = <<>> \/ u[1] = <<"/templates">>
      /\ \/ \E f \in EtlFiles : u[3] = <<f>>
         \/ \E f \in JsonFiles : u[3] = <<"/timetrace", f>>
      /\ w = "/templates" => u[1] # <<>>
  BY UsageWords
<1>3. /\ "/templates" \in Words /\ "/timetrace" \in Words
      /\ "/timetrace" \notin EtlFiles
      /\ EtlFiles \subseteq Words /\ JsonFiles \subseteq Words
  BY WordsAssumption DEF Words
<1> HIDE DEF w, n
<1>4. /\ u[1] \in Seq(Words) /\ u[3] \in Seq(Words) /\ <<w>> \in Seq(Words)
      /\ Len(<<w>>) = 1 /\ <<w>>[1] = w
  <2>1. <<>> \in Seq(Words) /\ <<"/templates">> \in Seq(Words) /\ <<w>> \in Seq(Words)
    BY <1>2, <1>3
  <2>2. /\ \A f \in EtlFiles : <<f>> \in Seq(Words)
        /\ \A f \in JsonFiles : <<"/timetrace", f>> \in Seq(Words)
    BY <1>3
  <2> QED BY <1>2, <2>1, <2>2
<1>5. StartsWith(Arguments, u[1] \o <<w>> \o u[3]) <=>
        /\ Len(u[1]) + 1 + Len(u[3]) <= n - 1
        /\ \A i \in 1 .. Len(u[1]) : Arguments[i] = u[1][i]
        /\ Arguments[Len(u[1]) + 1] = w
        /\ \A i \in 1 .. Len(u[3]) : Arguments[Len(u[1]) + 1 + i] = u[3][i]
  <2>1. StartsWith(Arguments, u[1] \o <<w>> \o u[3]) <=>
        /\ Len(u[1]) + Len(<<w>>) + Len(u[3]) <= Len(Arguments)
        /\ \A i \in 1 .. Len(u[1]) : Arguments[i] = u[1][i]
        /\ \A i \in 1 .. Len(<<w>>) : Arguments[Len(u[1]) + i] = <<w>>[i]
        /\ \A i \in 1 .. Len(u[3]) : Arguments[Len(u[1]) + Len(<<w>>) + i] = u[3][i]
    <3> DEFINE mid == <<w>>
               args == Arguments
               p == u[1]
               r == u[3]
    <3>1. args \in Seq(Words) /\ p \in Seq(Words) /\ mid \in Seq(Words) /\ r \in Seq(Words)
      BY <1>1, <1>4
    <3> HIDE DEF mid, args, p, r
    <3>2. StartsWith(args, p \o mid \o r) <=>
            Found(args, p, mid, r)
      BY <3>1, StartsWithThree
    <3> QED BY <3>2, Zenon DEF mid, args, p, r, Found
  <2>2. (\A i \in 1 .. Len(<<w>>) : Arguments[Len(u[1]) + i] = <<w>>[i])
          <=> Arguments[Len(u[1]) + 1] = w
    BY <1>4
  <2> QED BY <1>1, <1>4, <2>1, <2>2
<1>6. \A f, g : <<f>> = <<g>> <=> f = g
  OBVIOUS
<1>7. \A f, g, h : <<f>> # <<g, h>>
  OBVIOUS
<1>8. \A f, g : <<"/timetrace", f>> = <<"/timetrace", g>> <=> f = g
  OBVIOUS
<1> DEFINE Starts == StartsWith(Arguments, u[1] \o <<w>> \o u[3])
<1>9. ASSUME NEW f, u[3] = <<f>>
      PROVE  /\ Len(u[3]) = 1
             /\ \A k \in Nat : (\A i \in 1 .. Len(u[3]) : Arguments[k + i] = u[3][i])
                                  <=> Arguments[k + 1] = f
  BY <1>9
<1>10. ASSUME NEW f, u[3] = <<"/timetrace", f>>
       PROVE  /\ Len(u[3]) = 2
              /\ \A k \in Nat : (\A i \in 1 .. Len(u[3]) : Arguments[k + i] = u[3][i])
                                  <=> /\ Arguments[k + 1] = "/timetrace"
                                      /\ Arguments[k + 2] = f
  <2>1. Len(u[3]) = 2 /\ u[3][1] = "/timetrace" /\ u[3][2] = f
    BY <1>10
  <2> HIDE <1>10
  <2> QED BY <2>1
<1> DEFINE Option(t) == \A i \in 1 .. Len(t) : Arguments[i] = t[i]
<1>11. /\ Len(<<>>) = 0
       /\ Len(<<"/templates">>) = 1 /\ <<"/templates">> # <<>>
       /\ Option(<<"/templates">>) <=> Arguments[1] = "/templates"
  <2>1. Len(<<"/templates">>) = 1 /\ <<"/templates">>[1] = "/templates"
    OBVIOUS
  <2> QED BY <2>1
<1>12. CASE u[1] = <<>>
  <2>1. AfterFirst = 3 \/ argv[2] = "/templates"
    BY DEF AfterFirst
  <2>2. Starts <=>
          /\ 1 + Len(u[3]) <= n - 1
          /\ Arguments[1] = w
          /\ \A i \in 1 .. Len(u[3]) : Arguments[1 + i] = u[3][i]
    <3>1. Len(u[1]) = 0 /\ Option(u[1])
      BY <1>11, <1>12
    <3> HIDE <1>12
    <3> QED BY <1>5, <3>1
  <2>3. ASSUME NEW f \in EtlFiles, u[3] = <<f>>
        PROVE  Starts <=> /\ n >= 3 /\ argv[2] = w /\ argv[3] = f
    <3>1. /\ Len(u[3]) = 1
          /\ (\A i \in 1 .. Len(u[3]) : Arguments[1 + i] = u[3][i])
               <=> Arguments[1 + 1] = f
      BY <1>9, <2>3
    <3> HIDE <2>3
    <3> HIDE DEF Starts
    <3> QED BY <1>1, <2>2, <3>1
  <2>4. ASSUME NEW f \in JsonFiles, u[3] = <<"/timetrace", f>>
        PROVE  Starts <=> /\ n >= 4 /\ argv[2] = w
                          /\ argv[3] = "/timetrace" /\ argv[4] = f
    <3>1. /\ Len(u[3]) = 2
          /\ (\A i \in 1 .. Len(u[3]) : Arguments[1 + i] = u[3][i])
               <=> Arguments[1 + 1] = "/timetrace" /\ Arguments[1 + 2] = f
      BY <1>10, <2>4
    <3> HIDE <2>4
    <3> HIDE DEF Starts
    <3> QED BY <1>1, <2>2, <3>1
  <2> HIDE DEF Starts
  <2>5. CASE \E f \in EtlFiles : u[3] = <<f>>
    BY <1>1, <1>2, <1>3, <1>6, <1>7, <1>12, <2>1, <2>3, <2>5 DEF n, w, Starts
  <2>6. CASE \E f \in JsonFiles : u[3] = <<"/timetrace", f>>
    BY <1>1, <1>2, <1>3, <1>7, <1>8, <1>12, <2>1, <2>4, <2>6 DEF n, w, Starts
  <2> QED BY <1>2, <2>5, <2>6
<1>13. CASE u[1] = <<"/templates">>
  <2>1. argv[2] = "/templates" => AfterFirst = 4
    BY DEF AfterFirst
  <2>2. Starts <=>
          /\ 2 + Len(u[3]) <= n - 1
          /\ Arguments[1] = "/templates"
          /\ Arguments[2] = w
          /\ \A i \in 1 .. Len(u[3]) : Arguments[2 + i] = u[3][i]
    <3>1. Len(u[1]) = 1 /\ (Option(u[1]) <=> Arguments[1] = "/templates")
      BY <1>11, <1>13
    <3> HIDE <1>13
    <3> QED BY <1>5, <3>1
  <2>3. ASSUME NEW f \in EtlFiles, u[3] = <<f>>
        PROVE  Starts <=> /\ n >= 4 /\ argv[2] = "/templates" /\ argv[3] = w /\ argv[4] = f
    <3>1. /\ Len(u[3]) = 1
          /\ (\A i \in 1 .. Len(u[3]) : Arguments[2 + i] = u[3][i])
               <=> Arguments[2 + 1] = f
      BY <1>9, <2>3
    <3> HIDE <2>3
    <3> HIDE DEF Starts
    <3> QED BY <1>1, <2>2, <3>1
  <2>4. ASSUME NEW f \in JsonFiles, u[3] = <<"/timetrace", f>>
        PROVE  Starts <=> /\ n >= 5 /\ argv[2] = "/templates" /\ argv[3] = w
                          /\ argv[4] = "/timetrace" /\ argv[5] = f
    <3>1. /\ Len(u[3]) = 2
          /\ (\A i \in 1 .. Len(u[3]) : Arguments[2 + i] = u[3][i])
               <=> Arguments[2 + 1] = "/timetrace" /\ Arguments[2 + 2] = f
      BY <1>10, <2>4
    <3> HIDE <2>4
    <3> HIDE DEF Starts
    <3> QED BY <1>1, <2>2, <3>1
  <2> HIDE DEF Starts
  <2>5. CASE \E f \in EtlFiles : u[3] = <<f>>
    BY <1>1, <1>2, <1>3, <1>6, <1>7, <1>11, <1>13, <2>1, <2>3, <2>5 DEF n, w, Starts
  <2>6. CASE \E f \in JsonFiles : u[3] = <<"/timetrace", f>>
    BY <1>1, <1>2, <1>3, <1>7, <1>8, <1>11, <1>13, <2>1, <2>4, <2>6 DEF n, w, Starts
  <2> QED BY <1>2, <2>5, <2>6
<1> QED BY <1>2, <1>12, <1>13

-----------------------------------------------------------------------------
(* /stop and /analyze. *)

\* The lines meant are told apart by the words at two places.
LEMMA NothingMeant ==
  ASSUME ArgumentsInv,
         \/ AfterFirst > Len(argv)
         \/ argv[1] = "/analyze" /\ argv[AfterFirst - 1] \notin EtlFiles \ Missing
         \/ /\ argv[AfterFirst] \notin EtlFiles
            /\ \/ argv[AfterFirst] # "/timetrace"
               \/ AfterFirst + 1 > Len(argv)
               \/ argv[AfterFirst + 1] \notin JsonFiles
  PROVE  Meant = {}
<1> SUFFICES ASSUME NEW u \in Meant
             PROVE  FALSE
  OBVIOUS
<1>1. u \in UsageLines
  BY DEF Meant
<1>2. /\ StartsWith(Arguments, u[1] \o <<u[2]>> \o u[3])
      /\ argv[1] = "/analyze" => u[2] \in EtlFiles \ Missing
  BY DEF Meant
<1>3. /\ AfterFirst <= Len(argv)
      /\ u[2] = argv[AfterFirst - 1]
      /\ \/ argv[AfterFirst] \in EtlFiles
         \/ /\ AfterFirst + 1 <= Len(argv)
            /\ argv[AfterFirst] = "/timetrace" /\ argv[AfterFirst + 1] \in JsonFiles
  BY <1>1, <1>2, LineOnCommand
<1>4. AfterFirst \in Nat /\ Len(argv) \in Nat
  BY DEF AfterFirst, ArgumentsInv
<1> QED BY <1>2, <1>3, <1>4

\* Arguments in the places that a usage line gives them are an example of it.
LEMMA LineMeant ==
  ASSUME ArgumentsInv, NEW out,
         AfterFirst <= Len(argv),
         argv[1] = "/analyze" => argv[AfterFirst - 1] \in EtlFiles \ Missing,
         \/ out = <<argv[AfterFirst]>> /\ argv[AfterFirst] \in EtlFiles
         \/ /\ AfterFirst + 1 <= Len(argv)
            /\ argv[AfterFirst] = "/timetrace" /\ argv[AfterFirst + 1] \in JsonFiles
            /\ out = <<"/timetrace", argv[AfterFirst + 1]>>
  PROVE  \E u \in Meant : /\ u[1] # <<>> <=> argv[2] = "/templates"
                          /\ u[2] = argv[AfterFirst - 1]
                          /\ u[3] = out
<1> DEFINE option == IF argv[2] = "/templates" THEN <<"/templates">> ELSE <<>>
           first == argv[AfterFirst - 1]
           u == <<option, first, out>>
<1>1. /\ option \in {<<>>, <<"/templates">>}
      /\ option # <<>> <=> argv[2] = "/templates"
  <2>1. <<"/templates">> # <<>>
    OBVIOUS
  <2> QED BY <2>1
<1>2. first \in Words /\ (first = "/templates" => option # <<>>)
  <2>1. AfterFirst - 1 \in 2 .. Len(argv) /\ (argv[2] # "/templates" => AfterFirst - 1 = 2)
    BY DEF AfterFirst, ArgumentsInv
  <2> QED BY <1>1, <2>1 DEF ArgumentsInv
<1>3. out \in {<<f>> : f \in EtlFiles} \cup {<<"/timetrace", f>> : f \in JsonFiles}
  OBVIOUS
<1> HIDE DEF option, first
<1>4. u[1] = option /\ u[2] = first /\ u[3] = out
  OBVIOUS
<1>5. u \in UsageLines
  BY <1>1, <1>2, <1>3, <1>4 DEF UsageLines
<1> HIDE DEF u
<1>6. StartsWith(Arguments, u[1] \o <<u[2]>> \o u[3])
  BY <1>1, <1>4, <1>5, LineOnCommand DEF first
<1>7. u \in Meant
  BY <1>4, <1>5, <1>6 DEF Meant, first
<1> QED BY <1>1, <1>4, <1>7 DEF first

\* The properties say something of a command line only once it was read.
LEMMA StillReading ==
  ASSUME outcome = ""
  PROVE  UsageRespected /\ StartUsageRespected /\ EventsCollected /\ UndefinedOnlyThere
BY DEF UsageRespected, StartUsageRespected, EventsCollected, UndefinedOnlyThere

\* How a step that reads on, and how one that ends, disturbs the invariant.
LEMMA ArgumentsKept ==
  ASSUME ArgumentsInv, argv' = argv
  PROVE  /\ ArgumentsInv' /\ AfterFirst' = AfterFirst /\ argc' = argc
         /\ Arguments' = Arguments /\ Meant' = Meant
         /\ \A n : NamesSession(n)' = NamesSession(n)
BY DEF ArgumentsInv, AfterFirst, argc, Arguments, Meant, NamesSession, TimesGiven

-----------------------------------------------------------------------------
(* /start. *)

\* A set without two different elements has at most one.
LEMMA AtMostOneElement ==
  ASSUME NEW S, IsFiniteSet(S)
  PROVE  Cardinality(S) <= 1 <=> \A x, y \in S : x = y
<1>1. CASE S = {}
  <2>1. Cardinality(S) = 0
    BY <1>1, FS_EmptySet
  <2> QED BY <1>1, <2>1
<1>2. CASE S # {}
  <2>1. PICK x \in S : TRUE
    BY <1>2
  <2>2. Cardinality(S) \in Nat
    BY FS_CardinalityType
  <2>3. /\ Cardinality(S \ {x}) = Cardinality(S) - 1
        /\ IsFiniteSet(S \ {x})
    BY <2>1, FS_RemoveElement
  <2>4. Cardinality(S \ {x}) = 0 <=> S \ {x} = {}
    BY <2>3, FS_EmptySet
  <2>5. Cardinality(S \ {x}) \in Nat
    BY <2>3, FS_CardinalityType
  <2>6. Cardinality(S) <= 1 <=> S \ {x} = {}
    BY <2>2, <2>3, <2>4, <2>5
  <2> QED BY <2>1, <2>6
<1> QED BY <1>1, <1>2

\* One word more.
LEMMA GivenNext ==
  ASSUME NEW n \in Nat, n >= 2, NEW S
  PROVE  Given(S, n + 1) = IF argv[n] \in S THEN Given(S, n) \cup {n} ELSE Given(S, n)
<1>1. 2 .. (n + 1) - 1 = (2 .. n - 1) \cup {n}
  OBVIOUS
<1> QED BY <1>1 DEF Given

\* How often an option is given, as the numbers of its places in argv.
LEMMA TimesGivenValue ==
  ASSUME ArgumentsInv, NEW n \in DOMAIN Arguments, NEW S
  PROVE  TimesGiven(S, n) <= 1 <=> AtMostOne(S, n + 1)
<1> DEFINE G == {i \in 1 .. n - 1 : Arguments[i] \in S}
<1>1. n \in 1 .. Len(argv) - 1 /\ Len(argv) \in Nat
  BY ArgumentsValue DEF ArgumentsInv
<1>2. \A i \in 1 .. Len(argv) - 1 : Arguments[i] = argv[i + 1]
  BY ArgumentsValue
<1>3. IsFiniteSet(G)
  <2>1. IsFiniteSet(1 .. n - 1)
    BY <1>1, FS_Interval
  <2> QED BY <2>1, FS_Subset
<1>4. \A i \in G : i + 1 \in Given(S, n + 1)
  BY <1>1, <1>2 DEF Given
<1>5. \A k \in Given(S, n + 1) : k - 1 \in G
  <2> SUFFICES ASSUME NEW k \in 2 .. (n + 1) - 1, argv[k] \in S
               PROVE  k - 1 \in 1 .. n - 1 /\ Arguments[k - 1] \in S
    BY DEF Given
  <2>1. k - 1 \in 1 .. n - 1 /\ k - 1 \in 1 .. Len(argv) - 1 /\ (k - 1) + 1 = k
    BY <1>1
  <2> QED BY <1>2, <2>1
<1>6. G \subseteq Nat /\ Given(S, n + 1) \subseteq Nat
  BY <1>1 DEF Given
<1>7. (\A x, y \in G : x = y) <=> AtMostOne(S, n + 1)
  <2> HIDE DEF G
  <2>1. ASSUME \A x, y \in G : x = y, NEW i \in Given(S, n + 1), NEW j \in Given(S, n + 1)
        PROVE  i = j
    <3>1. i - 1 = j - 1 /\ i \in Nat /\ j \in Nat
      BY <1>5, <1>6, <2>1
    <3> QED BY <3>1
  <2>2. ASSUME AtMostOne(S, n + 1), NEW x \in G, NEW y \in G
        PROVE  x = y
    <3>1. x + 1 = y + 1 /\ x \in Nat /\ y \in Nat
      BY <1>4, <1>6, <2>2 DEF AtMostOne
    <3> QED BY <3>1
  <2> QED BY <2>1, <2>2 DEF AtMostOne
<1>8. TimesGiven(S, n) = Cardinality(G)
  BY DEF TimesGiven
<1> HIDE DEF G
<1>9. Cardinality(G) <= 1 <=> \A x, y \in G : x = y
  BY <1>3, AtMostOneElement
<1> QED BY <1>7, <1>8, <1>9

\* The word after n - 1 options that do not exclude each other is the name.
LEMMA NameFound ==
  ASSUME ArgumentsInv, NEW n \in Nat, OptionsBefore(n), n < argc, argv[n] \notin StartOptions
  PROVE  n - 1 \in DOMAIN Arguments /\ Arguments[n - 1] = argv[n] /\ NamesSession(n - 1)
<1>1. /\ n - 1 \in 1 .. Len(argv) - 1 /\ (n - 1) + 1 = n
      /\ DOMAIN Arguments = 1 .. Len(argv) - 1
      /\ \A i \in 1 .. Len(argv) - 1 : Arguments[i] = argv[i + 1]
  BY ArgumentsValue DEF OptionsBefore, argc, ArgumentsInv
<1>2. \A i \in 1 .. (n - 1) - 1 : Arguments[i] \in StartOptions
  <2> TAKE i \in 1 .. (n - 1) - 1
  <2>1. i \in 1 .. Len(argv) - 1 /\ i + 1 \in 2 .. n - 1
    BY <1>1
  <2> QED BY <1>1, <2>1 DEF OptionsBefore
<1>3. \A S \in {{"/noadmin"}, {"/nocpusampling"}, LevelOptions} : TimesGiven(S, n - 1) <= 1
  <2>1. \A S : TimesGiven(S, n - 1) <= 1 <=> AtMostOne(S, n)
    BY <1>1, TimesGivenValue
  <2> QED BY <2>1 DEF OptionsBefore
<1> QED BY <1>1, <1>2, <1>3 DEF NamesSession

\* No argument names the session if the first n - 1 do not and the next is an
\* option that must not be given again.
LEMMA NoNameFound ==
  ASSUME ArgumentsInv, NEW n \in 2 .. argc, \A i \in 2 .. n - 1 : argv[i] \in StartOptions,
         \/ n = argc
         \/ /\ argv[n] \in StartOptions
            /\ \E S \in {{"/noadmin"}, {"/nocpusampling"}, LevelOptions} :
                 argv[n] \in S /\ Given(S, n) # {}
  PROVE  \A k \in DOMAIN Arguments : ~ NamesSession(k)
<1> SUFFICES ASSUME NEW k \in DOMAIN Arguments, NamesSession(k)
             PROVE  FALSE
  OBVIOUS
<1>1. /\ DOMAIN Arguments = 1 .. Len(argv) - 1 /\ Len(argv) \in Nat /\ argc = Len(argv) + 1
      /\ \A i \in 1 .. Len(argv) - 1 : Arguments[i] = argv[i + 1]
  BY ArgumentsValue DEF argc, ArgumentsInv
<1>2. k + 1 \in 2 .. Len(argv) /\ argv[k + 1] \notin StartOptions
  BY <1>1 DEF NamesSession
<1>3. k + 1 >= n
  <2>1. k + 1 \notin 2 .. n - 1
    BY <1>2
  <2> QED BY <1>1, <1>2, <2>1
<1>4. PICK S \in {{"/noadmin"}, {"/nocpusampling"}, LevelOptions} :
        argv[n] \in StartOptions /\ argv[n] \in S /\ Given(S, n) # {}
  BY <1>1, <1>2, <1>3
<1>5. k + 1 > n
  BY <1>1, <1>2, <1>3, <1>4
<1>6. PICK i \in Given(S, n) : TRUE
  BY <1>4
<1>7. i \in Given(S, k + 1) /\ n \in Given(S, k + 1) /\ i # n
  BY <1>1, <1>2, <1>4, <1>5, <1>6 DEF Given
<1>8. TimesGiven(S, k) <= 1 <=> AtMostOne(S, k + 1)
  BY TimesGivenValue
<1> QED BY <1>4, <1>7, <1>8 DEF NamesSession, AtMostOne

\* The options given, as arguments and as places in argv.
LEMMA GivenArguments ==
  ASSUME ArgumentsInv, NEW n \in 2 .. argc, NEW o
  PROVE  o \in {Arguments[i] : i \in 1 .. n - 2} <=> Given({o}, n) # {}
<1>1. /\ Len(argv) \in Nat /\ argc = Len(argv) + 1
      /\ \A i \in 1 .. Len(argv) - 1 : Arguments[i] = argv[i + 1]
  BY ArgumentsValue DEF argc, ArgumentsInv
<1>2. ASSUME NEW i \in 1 .. n - 2, o = Arguments[i]
      PROVE  Given({o}, n) # {}
  <2>1. i \in 1 .. Len(argv) - 1 /\ i + 1 \in 2 .. n - 1
    BY <1>1
  <2>2. i + 1 \in Given({o}, n)
    BY <1>1, <1>2, <2>1 DEF Given
  <2> QED BY <2>2
<1>3. ASSUME NEW k \in Given({o}, n)
      PROVE  o \in {Arguments[i] : i \in 1 .. n - 2}
  <2>1. k \in 2 .. n - 1 /\ argv[k] = o
    BY DEF Given
  <2>2. k - 1 \in 1 .. n - 2 /\ k - 1 \in 1 .. Len(argv) - 1 /\ (k - 1) + 1 = k
    BY <1>1, <2>1
  <2>3. Arguments[k - 1] = o
    BY <1>1, <2>1, <2>2
  <2> QED BY <2>2, <2>3
<1> QED BY <1>2, <1>3

\* At most one level is given, so the level read is the one given.
LEMMA LevelRead ==
  ASSUME NEW n \in Nat, n >= 2, OptionsBefore(n)
  PROVE  /\ LevelGiven(n) = "LIGHT" <=> Given({"/level1"}, n) # {}
         /\ LevelGiven(n) = "MEDIUM" <=> Given({"/level2"}, n) # {}
         /\ LevelGiven(n) = "VERBOSE" <=> Given({"/level3"}, n) # {}
         /\ LevelGiven(n) = "INVALID" <=> Given(LevelOptions, n) = {}
         /\ LevelGiven(n) \in {"INVALID", "LIGHT", "MEDIUM", "VERBOSE"}
<1>1. Given(LevelOptions, n)
        = Given({"/level1"}, n) \cup Given({"/level2"}, n) \cup Given({"/level3"}, n)
  BY DEF Given, LevelOptions
<1>2. \A i, j \in Given(LevelOptions, n) : i = j
  BY DEF OptionsBefore, AtMostOne
<1>3. /\ Given({"/level1"}, n) \cap Given({"/level2"}, n) = {}
      /\ Given({"/level1"}, n) \cap Given({"/level3"}, n) = {}
      /\ Given({"/level2"}, n) \cap Given({"/level3"}, n) = {}
  BY DEF Given
<1>4. /\ Given({"/level1"}, n) # {} =>
           Given({"/level2"}, n) = {} /\ Given({"/level3"}, n) = {}
      /\ Given({"/level2"}, n) # {} => Given({"/level3"}, n) = {}
  BY <1>1, <1>2, <1>3
<1> QED BY <1>1, <1>4 DEF LevelGiven

-----------------------------------------------------------------------------
(* The invariant. *)

LEMMA InitInv ==
  ASSUME Init
  PROVE  IInv
<1>1. PICK c \in Commands, n \in 0 .. MaxArgs : \E s \in [1 .. n -> Words] : argv = <<c>> \o s
  BY DEF Init
<1>2. PICK s \in [1 .. n -> Words] : argv = <<c>> \o s
  BY <1>1
<1>3. s \in Seq(Words) /\ n \in Nat
  BY <1>2, WordsAssumption
<1>4. ArgumentsInv
  <2>1. <<c>> \in Seq(Commands \cup Words) /\ s \in Seq(Commands \cup Words)
        /\ Len(<<c>>) = 1
    BY <1>3
  <2> DEFINE first == <<c>>
  <2> HIDE DEF first
  <2>2. /\ argv \in Seq(Commands \cup Words) /\ Len(argv) = Len(first) + Len(s)
        /\ \A i \in 1 .. Len(argv) : argv[i] = IF i <= Len(first) THEN first[i]
                                               ELSE s[i - Len(first)]
    <3>1. first \in Seq(Commands \cup Words) /\ argv = first \o s
      BY <1>2, <2>1 DEF first
    <3> QED BY <2>1, <3>1, ConcatProperties
  <2>3. Len(first) = 1
    BY <2>1 DEF first
  <2>4. \A i \in 2 .. Len(argv) : argv[i] \in Words
    <3> TAKE i \in 2 .. Len(argv)
    <3>1. i \in 1 .. Len(argv) /\ i - 1 \in 1 .. Len(s)
      BY <1>3, <2>2, <2>3
    <3>2. argv[i] = s[i - 1]
      BY <2>2, <2>3, <3>1
    <3> QED BY <1>3, <3>1, <3>2
  <2> QED BY <1>3, <2>2, <2>3, <2>4 DEF ArgumentsInv
<1>5. ParserInv /\ StopOrAnalyzeInv /\ StartInv
  BY DEF Init, ParserInv, StopOrAnalyzeInv, StartInv, NoRequest, Requests
<1> QED BY <1>4, <1>5, StillReading DEF Init, IInv

\* What is left to show of a step that reads on.
LEMMA ReadOn ==
  ASSUME IInv, NEW next \in {"first", "option", "output", "start"}, NEW i, NEW r \in Requests,
         pc # "done", GoOn(next, i, r), (StopOrAnalyzeInv /\ StartInv)'
  PROVE  IInv'
<1>1. ArgumentsInv /\ ParserInv /\ argv' = argv /\ outcome' = outcome /\ pc' = next
      /\ request' = r
  BY DEF IInv, GoOn
<1>2. ParserInv' /\ ArgumentsInv'
  <2>1. ArgumentsInv'
    BY <1>1, ArgumentsKept
  <2>2. outcome = "" /\ outcome' = ""
    BY <1>1 DEF IInv, ParserInv, GoOn
  <2> QED BY <1>1, <2>1, <2>2 DEF ParserInv
<1>3. outcome' = ""
  BY <1>1, <1>2 DEF ParserInv
<1>4. (UsageRespected /\ StartUsageRespected /\ EventsCollected /\ UndefinedOnlyThere)'
  BY <1>3 DEF UsageRespected, StartUsageRespected, EventsCollected, UndefinedOnlyThere
<1> QED BY <1>2, <1>4 DEF IInv

\* What is left to show of a step that ends.
LEMMA Ended ==
  ASSUME IInv, pc # "done", NEW result, result # "", NEW r \in Requests, Finish(result, r),
         (UsageRespected /\ StartUsageRespected /\ EventsCollected /\ UndefinedOnlyThere)'
  PROVE  IInv'
<1>1. ArgumentsInv /\ ParserInv /\ argv' = argv /\ outcome' = result /\ pc' = "done"
      /\ request' = r
  BY DEF IInv, Finish
<1>2. ArgumentsInv'
  BY <1>1, ArgumentsKept
<1>3. ParserInv' /\ StopOrAnalyzeInv' /\ StartInv'
  BY <1>1 DEF ParserInv, StopOrAnalyzeInv, StartInv
<1> QED BY <1>2, <1>3 DEF IInv

\* What is left to show of one that ends with a command or a hint.
LEMMA EndedWith ==
  ASSUME IInv, pc # "done", NEW result, result \notin {"", "undefined"}, NEW r \in Requests,
         Finish(result, r),
         result = "DoStart" => argv[1] = "/start" /\ EventsCollected',
         argv[1] \in {"/stop", "/analyze"} => UsageRespected',
         argv[1] = "/start" => StartUsageRespected'
  PROVE  IInv'
<1>1. ArgumentsInv /\ argv' = argv /\ outcome' = result
  BY DEF IInv, Finish
<1>2. UsageRespected' /\ StartUsageRespected' /\ EventsCollected' /\ UndefinedOnlyThere'
  BY <1>1 DEF UsageRespected, StartUsageRespected, EventsCollected, UndefinedOnlyThere
<1> QED BY <1>2, Ended

\* Every other command than the three is read without looking further.
LEMMA EndedElsewhere ==
  ASSUME IInv, pc # "done", NEW result, result \notin {"", "undefined", "DoStart"},
         NEW r \in Requests, Finish(result, r),
         argv[1] \notin {"/start", "/stop", "/analyze"}
  PROVE  IInv'
BY EndedWith

\* A hint for /stop or /analyze.
LEMMA EndedWithHint ==
  ASSUME IInv, pc # "done", Fail, argv[1] \in {"/stop", "/analyze"}, Meant = {}
  PROVE  IInv'
<1>1. ArgumentsInv /\ argv' = argv /\ outcome' = "E_FAIL"
  BY DEF IInv, Fail, Finish
<1> request \in Requests
  BY DEF IInv, ParserInv
<1>2. Meant' = Meant
  BY <1>1, ArgumentsKept
<1>3. UsageRespected'
  BY <1>1, <1>2 DEF UsageRespected
<1> QED BY <1>1, <1>3, EndedWith DEF Fail

\* The request of /stopnoanalyze.
TwoFiles == [request EXCEPT !.firstArg = argv[2], !.outputFile = argv[3]]

LEMMA DispatchCases ==
  ASSUME Dispatch
  PROVE  \/ argv[1] = "/start" /\ argc < 3 /\ Fail
         \/ argv[1] = "/start" /\ ~ (argc < 3) /\ GoOn("start", 2, request)
         \/ argv[1] \in {"/stop", "/analyze"} /\ argc < 4 /\ Fail
         \/ argv[1] \in {"/stop", "/analyze"} /\ ~ (argc < 4) /\ GoOn("first", 2, request)
         \/ argv[1] = "/stopnoanalyze" /\ Fail
         \/ argv[1] = "/stopnoanalyze" /\ ~ (argc < 4) /\ Finish("DoStopNoAnalyze", TwoFiles)
         \/ argv[1] = "/grantusercontrol" /\ Finish("DoGrantUserSessionControl", request)
         \/ argv[1] \notin {"/start", "/stop", "/analyze"} /\ Fail
BY Zenon DEF Dispatch, TwoFiles

LEMMA DispatchInv ==
  ASSUME IInv, Dispatch
  PROVE  IInv'
<1>1. /\ ArgumentsInv /\ pc = "command" /\ request = NoRequest /\ curArgc = 2
      /\ Len(argv) \in Nat /\ Len(argv) >= 1 /\ argc = Len(argv) + 1
  <2>1. pc = "command"
    BY DEF Dispatch
  <2>2. ArgumentsInv /\ ParserInv
    BY DEF IInv
  <2>3. request = NoRequest /\ curArgc = 2
    BY <2>1, <2>2 DEF ParserInv
  <2>4. Len(argv) \in Nat /\ Len(argv) >= 1
    BY <2>2 DEF ArgumentsInv
  <2> QED BY <2>1, <2>2, <2>3, <2>4 DEF argc
<1> request \in Requests
  BY DEF IInv, ParserInv
<1>2. CASE argv[1] = "/start" /\ argc < 3 /\ Fail
  <2>2. argv' = argv /\ outcome' = "E_FAIL"
    BY <1>2 DEF Fail, Finish
  <2>3. \A n \in DOMAIN Arguments : ~ NamesSession(n)
    <3>1. DOMAIN Arguments = {}
      BY <1>1, <1>2, ArgumentsValue
    <3> QED BY <3>1
  <2>4. StartUsageRespected'
    BY <1>1, <2>2, <2>3, ArgumentsKept DEF StartUsageRespected
  <2> QED BY <1>1, <1>2, <2>4, EndedWith DEF Fail
<1>3. CASE argv[1] = "/start" /\ ~ (argc < 3) /\ GoOn("start", 2, request)
  <2>2. /\ pc' = "start" /\ curArgc' = 2 /\ argv' = argv
        /\ request' = NoRequest /\ argc' = argc
    BY <1>1, <1>3 DEF GoOn, argc
  <2>3. \A S : Given(S, 2)' = {}
    BY <2>2 DEF Given
  <2>4. StartInv'
    <3>1. \A S : AtMostOne(S, 2)'
      BY <2>3 DEF AtMostOne
    <3>2. OptionsBefore(2)'
      BY <1>1, <1>3, <2>2, <3>1 DEF OptionsBefore
    <3>3. LevelGiven(2)' = "INVALID"
      BY <2>3 DEF LevelGiven
    <3> QED BY <1>3, <2>2, <2>3, <3>2, <3>3 DEF StartInv, NoRequest
  <2>5. StopOrAnalyzeInv'
    BY <2>2 DEF StopOrAnalyzeInv
  <2> QED BY <1>1, <1>3, <2>4, <2>5, ReadOn
<1>4. CASE argv[1] \in {"/stop", "/analyze"} /\ argc < 4 /\ Fail
  <2>2. Meant = {}
    BY <1>1, <1>4, NothingMeant DEF AfterFirst
  <2> QED BY <1>1, <1>4, <2>2, EndedWithHint
<1>5. CASE argv[1] \in {"/stop", "/analyze"} /\ ~ (argc < 4) /\ GoOn("first", 2, request)
  <2>2. /\ pc' = "first" /\ argv' = argv
        /\ ~ request'.generateTimeTrace /\ ~ request'.analyzeTemplates
    BY <1>1, <1>5 DEF GoOn, NoRequest
  <2>3. StopOrAnalyzeInv' /\ StartInv'
    BY <1>1, <1>5, <2>2 DEF StopOrAnalyzeInv, StartInv
  <2> QED BY <1>1, <1>5, <2>3, ReadOn
<1>6. CASE argv[1] = "/stopnoanalyze" /\ ~ (argc < 4) /\ Finish("DoStopNoAnalyze", TwoFiles)
  <2>1. argv[2] \in Words /\ argv[3] \in Words
    BY <1>1, <1>6 DEF ArgumentsInv
  <2>2. TwoFiles \in Requests
    BY <2>1 DEF TwoFiles, Requests
  <2> QED BY <1>1, <1>6, <2>2, EndedElsewhere
<1>7. CASE argv[1] \notin {"/start", "/stop", "/analyze"} /\ Fail
  BY <1>1, <1>7, EndedElsewhere DEF Fail
<1>8. CASE argv[1] = "/grantusercontrol" /\ Finish("DoGrantUserSessionControl", request)
  BY <1>1, <1>8, EndedElsewhere
<1>9. CASE argv[1] = "/stopnoanalyze" /\ Fail
  BY <1>7, <1>9
<1> QED BY <1>2, <1>3, <1>4, <1>5, <1>6, <1>7, <1>8, <1>9, DispatchCases

\* The parts of the invariant, and what they say of any state.
LEMMA InvParts ==
  ASSUME IInv
  PROVE  /\ ArgumentsInv /\ StopOrAnalyzeInv /\ StartInv /\ request \in Requests
         /\ Len(argv) \in Nat /\ Len(argv) >= 1 /\ argc = Len(argv) + 1
<1>1. ArgumentsInv /\ ParserInv /\ StopOrAnalyzeInv /\ StartInv
  BY DEF IInv
<1>2. Len(argv) \in Nat /\ Len(argv) >= 1
  BY <1>1 DEF ArgumentsInv
<1>3. request \in Requests
  BY <1>1 DEF ParserInv
<1> QED BY <1>1, <1>2, <1>3 DEF argc

LEMMA FirstArgumentInv ==
  ASSUME IInv, ReadFirstArgument
  PROVE  IInv'
<1>0. pc = "first"
  BY DEF ReadFirstArgument
<1>1. /\ pc = "first" /\ ArgumentsInv /\ request \in Requests
      /\ argv[1] \in {"/stop", "/analyze"} /\ Len(argv) >= 3
      /\ ~ request.generateTimeTrace /\ ~ request.analyzeTemplates
      /\ Len(argv) \in Nat /\ argc = Len(argv) + 1
  BY <1>0, InvParts DEF StopOrAnalyzeInv
<1>2. argv[2] \in Words /\ argv[3] \in Words
  BY <1>1 DEF ArgumentsInv
<1>3. CASE argv[2] = "/templates" /\ argc < 5
  <2>1. Fail
    BY <1>3 DEF ReadFirstArgument
  <2>2. Meant = {}
    BY <1>1, <1>3, NothingMeant DEF AfterFirst
  <2> QED BY <1>1, <2>1, <2>2, EndedWithHint
<1>4. CASE argv[2] = "/templates" /\ ~ (argc < 5)
  <2> DEFINE r == [request EXCEPT !.analyzeTemplates = TRUE, !.firstArg = argv[3]]
  <2>1. GoOn("option", 4, r)
    BY <1>4 DEF ReadFirstArgument
  <2>2. /\ r \in Requests /\ r.analyzeTemplates /\ r.firstArg = argv[3]
        /\ r.generateTimeTrace = request.generateTimeTrace
    BY <1>1, <1>2 DEF Requests
  <2> HIDE DEF r
  <2>3. /\ pc' = "option" /\ curArgc' = 4 /\ request' = r /\ argv' = argv
        /\ AfterFirst = 4 /\ AfterFirst' = 4
    BY <1>4, <2>1 DEF GoOn, AfterFirst
  <2>4. StopOrAnalyzeInv' /\ StartInv'
    BY <1>1, <1>4, <2>2, <2>3 DEF StopOrAnalyzeInv, StartInv
  <2> QED BY <1>1, <2>1, <2>2, <2>4, ReadOn
<1>5. CASE argv[2] # "/templates"
  <2> DEFINE r == [request EXCEPT !.firstArg = argv[2]]
  <2>1. GoOn("option", 3, r)
    BY <1>5 DEF ReadFirstArgument
  <2>2. /\ r \in Requests /\ r.analyzeTemplates = request.analyzeTemplates
        /\ r.firstArg = argv[2] /\ r.generateTimeTrace = request.generateTimeTrace
    BY <1>1, <1>2 DEF Requests
  <2> HIDE DEF r
  <2>3. /\ pc' = "option" /\ curArgc' = 3 /\ request' = r /\ argv' = argv
        /\ AfterFirst = 3 /\ AfterFirst' = 3
    BY <1>5, <2>1 DEF GoOn, AfterFirst
  <2>4. StopOrAnalyzeInv' /\ StartInv'
    BY <1>1, <1>5, <2>2, <2>3 DEF StopOrAnalyzeInv, StartInv
  <2> QED BY <1>1, <2>1, <2>2, <2>4, ReadOn
<1> QED BY <1>3, <1>4, <1>5

LEMMA OutputOptionInv ==
  ASSUME IInv, ReadOutputOption
  PROVE  IInv'
<1>0. pc = "option"
  BY DEF ReadOutputOption
<1>1. /\ pc = "option" /\ ArgumentsInv /\ request \in Requests
      /\ argv[1] \in {"/stop", "/analyze"} /\ Len(argv) >= 3
      /\ ~ request.generateTimeTrace /\ curArgc = AfterFirst /\ AfterFirst <= Len(argv)
      /\ request.analyzeTemplates <=> argv[2] = "/templates"
      /\ request.firstArg = argv[AfterFirst - 1]
      /\ Len(argv) \in Nat /\ argc = Len(argv) + 1 /\ AfterFirst \in {3, 4}
  BY <1>0, InvParts DEF StopOrAnalyzeInv, AfterFirst
<1>2. CASE argv[AfterFirst] = "/timetrace" /\ argc < 5
  <2>1. Fail
    BY <1>1, <1>2 DEF ReadOutputOption
  <2>2. argv[AfterFirst] \notin EtlFiles /\ AfterFirst + 1 > Len(argv)
    BY <1>1, <1>2, WordsAssumption
  <2>3. Meant = {}
    BY <1>1, <2>2, NothingMeant
  <2> QED BY <1>1, <2>1, <2>3, EndedWithHint
<1>3. CASE argv[AfterFirst] = "/timetrace" /\ ~ (argc < 5)
  <2> DEFINE r == [request EXCEPT !.generateTimeTrace = TRUE]
  <2>1. GoOn("output", curArgc + 1, r)
    BY <1>1, <1>3 DEF ReadOutputOption
  <2>2. /\ r \in Requests /\ r.analyzeTemplates = request.analyzeTemplates
        /\ r.firstArg = request.firstArg /\ r.generateTimeTrace
    BY <1>1 DEF Requests
  <2> HIDE DEF r
  <2>3. /\ pc' = "output" /\ curArgc' = curArgc + 1 /\ request' = r /\ argv' = argv
        /\ AfterFirst' = AfterFirst
    BY <2>1 DEF GoOn, AfterFirst
  <2>4. StopOrAnalyzeInv' /\ StartInv'
    BY <1>1, <1>3, <2>2, <2>3 DEF StopOrAnalyzeInv, StartInv
  <2> QED BY <1>1, <2>1, <2>2, <2>4, ReadOn
<1>4. CASE argv[AfterFirst] # "/timetrace"
  <2>1. GoOn("output", curArgc, request)
    BY <1>1, <1>4 DEF ReadOutputOption
  <2>2. /\ pc' = "output" /\ curArgc' = curArgc /\ request' = request /\ argv' = argv
        /\ AfterFirst' = AfterFirst
    BY <2>1 DEF GoOn, AfterFirst
  <2>3. StopOrAnalyzeInv' /\ StartInv'
    BY <1>1, <1>4, <2>2 DEF StopOrAnalyzeInv, StartInv
  <2> QED BY <1>1, <2>1, <2>3, ReadOn
<1> QED BY <1>2, <1>3, <1>4

LEMMA OutputFileInv ==
  ASSUME IInv, ReadOutputFile
  PROVE  IInv'
<1>0. pc = "output"
  BY DEF ReadOutputFile
<1>1. /\ pc = "output" /\ ArgumentsInv /\ request \in Requests
      /\ argv[1] \in {"/stop", "/analyze"} /\ Len(argv) >= 3 /\ AfterFirst <= Len(argv)
      /\ request.analyzeTemplates <=> argv[2] = "/templates"
      /\ request.firstArg = argv[AfterFirst - 1]
      /\ request.generateTimeTrace <=> argv[AfterFirst] = "/timetrace"
      /\ curArgc = IF request.generateTimeTrace THEN AfterFirst + 1 ELSE AfterFirst
      /\ request.generateTimeTrace => Len(argv) >= 4
      /\ Len(argv) \in Nat /\ argc = Len(argv) + 1
  BY <1>0, InvParts DEF StopOrAnalyzeInv
<1>2. AfterFirst = IF argv[2] = "/templates" THEN 4 ELSE 3
  BY DEF AfterFirst
<1>3. /\ "/timetrace" \notin EtlFiles /\ EtlFiles \cap JsonFiles = {}
      /\ argv[1] \in {"/stop", "/analyze"} => argv[1] # "/start"
  BY WordsAssumption
<1>4. CASE curArgc >= argc
  <2>1. Finish("undefined", request)
    BY <1>4 DEF ReadOutputFile
  <2>2. TimetraceWithoutOutput
    <3>1. request.generateTimeTrace
      BY <1>1, <1>2, <1>4
    <3>2. AfterFirst = 3 \/ AfterFirst = 4
      BY <1>2
    <3>3. PICK k \in Nat : k = Len(argv)
      BY <1>1
    <3>4. curArgc = AfterFirst + 1 /\ curArgc >= k + 1 /\ AfterFirst <= k /\ k >= 4
      BY <1>1, <1>4, <3>1, <3>3
    <3>5. AfterFirst = 4 /\ k = 4
      BY <3>2, <3>4
    <3> QED BY <1>1, <1>2, <3>1, <3>3, <3>5 DEF TimetraceWithoutOutput
  <2>3. argv' = argv /\ outcome' = "undefined"
    BY <2>1 DEF Finish
  <2>4. (UsageRespected /\ StartUsageRespected /\ EventsCollected /\ UndefinedOnlyThere)'
    BY <2>2, <2>3 DEF UsageRespected, StartUsageRespected, EventsCollected,
                      UndefinedOnlyThere, TimetraceWithoutOutput
  <2> QED BY <1>1, <2>1, <2>4, Ended
<1>5. CASE ~ (curArgc >= argc)
  <2> DEFINE r == [request EXCEPT !.outputFile = argv[curArgc]]
             Answer == IF argv[1] = "/stop" THEN "DoStop" ELSE "DoAnalyze"
             extension == IF request.generateTimeTrace THEN ".json" ELSE ".etl"
             Wrong == \/ request.analyzeTemplates /\ request.generateTimeTrace /\ argc < 6
                      \/ ~ ValidateFile(argv[curArgc], FALSE, extension)
                      \/ argv[1] = "/analyze" /\ ~ ValidateFile(request.firstArg, TRUE, ".etl")
  <2>1. curArgc \in 2 .. Len(argv) /\ argv[curArgc] \in Words
    BY <1>1, <1>2, <1>5 DEF ArgumentsInv
  <2>2. /\ r \in Requests /\ r.analyzeTemplates = request.analyzeTemplates
        /\ r.firstArg = request.firstArg /\ r.generateTimeTrace = request.generateTimeTrace
        /\ r.outputFile = argv[curArgc]
    BY <1>1, <2>1 DEF Requests
  <2>3. IF Wrong THEN Fail ELSE Finish(Answer, r)
    BY <1>5, <2>2, Zenon DEF ReadOutputFile
  <2>4. ~ (request.analyzeTemplates /\ request.generateTimeTrace /\ argc < 6)
    BY <1>1, <1>2, <1>5
  <2>5. /\ ValidateFile(argv[curArgc], FALSE, extension) <=>
             argv[curArgc] \in IF request.generateTimeTrace THEN JsonFiles ELSE EtlFiles
        /\ ValidateFile(request.firstArg, TRUE, ".etl") <=>
             request.firstArg \in EtlFiles \ Missing
    BY DEF ValidateFile
  <2>6. CASE Wrong
    <3>1. Meant = {}
      <4>1. CASE argv[1] = "/analyze" /\ request.firstArg \notin EtlFiles \ Missing
        BY <1>1, <4>1, NothingMeant
      <4>2. CASE request.generateTimeTrace /\ argv[curArgc] \notin JsonFiles
        BY <1>1, <1>3, <4>2, NothingMeant
      <4>3. CASE ~ request.generateTimeTrace /\ argv[curArgc] \notin EtlFiles
        BY <1>1, <4>3, NothingMeant
      <4> QED BY <2>4, <2>5, <2>6, <4>1, <4>2, <4>3
    <3> QED BY <1>1, <2>3, <2>6, <3>1, EndedWithHint
  <2>7. CASE ~ Wrong
    <3> DEFINE out == IF request.generateTimeTrace
                        THEN <<"/timetrace", argv[AfterFirst + 1]>> ELSE <<argv[AfterFirst]>>
    <3>1. Finish(Answer, r)
      BY <2>3, <2>7
    <3> HIDE DEF r
    <3>2. argv' = argv /\ request' = r /\ outcome' = Answer
      BY <3>1 DEF Finish
    <3>3. /\ argv[1] = "/analyze" => argv[AfterFirst - 1] \in EtlFiles \ Missing
          /\ argv[curArgc] \in IF request.generateTimeTrace THEN JsonFiles ELSE EtlFiles
      BY <1>1, <2>5, <2>7
    <3>4. \E u \in Meant : /\ u[1] # <<>> <=> argv[2] = "/templates"
                           /\ u[2] = argv[AfterFirst - 1]
                           /\ u[3] = out
      <4>1. \/ out = <<argv[AfterFirst]>> /\ argv[AfterFirst] \in EtlFiles
            \/ /\ AfterFirst + 1 <= Len(argv)
               /\ argv[AfterFirst] = "/timetrace" /\ argv[AfterFirst + 1] \in JsonFiles
               /\ out = <<"/timetrace", argv[AfterFirst + 1]>>
        BY <1>1, <1>2, <1>5, <3>3
      <4> HIDE DEF out
      <4> QED BY <1>1, <3>3, <4>1, LineMeant
    <3>5. /\ Len(out) = 2 <=> request.generateTimeTrace
          /\ out[Len(out)] = argv[curArgc]
      <4>1. CASE request.generateTimeTrace
        BY <1>1, <4>1
      <4>2. CASE ~ request.generateTimeTrace
        BY <1>1, <4>2
      <4> QED BY <4>1, <4>2
    <3> HIDE DEF out, Wrong
    <3>6. UsageRespected'
      <4>1. Meant' = Meant
        BY <1>1, <3>2, ArgumentsKept
      <4>2. outcome' # "E_FAIL"
        BY <3>2
      <4>3. \E u \in Meant : /\ r.analyzeTemplates <=> u[1] # <<>>
                             /\ r.firstArg = u[2]
                             /\ r.generateTimeTrace <=> Len(u[3]) = 2
                             /\ r.outputFile = u[3][Len(u[3])]
        BY <1>1, <2>2, <3>4, <3>5
      <4> QED BY <3>2, <4>1, <4>2, <4>3 DEF UsageRespected
    <3>7. Answer \notin {"", "undefined", "DoStart"} /\ argv[1] # "/start"
      BY <1>1
    <3> HIDE DEF Answer
    <3> QED BY <1>1, <2>2, <3>1, <3>6, <3>7, EndedWith
  <2> QED BY <2>6, <2>7
<1> QED BY <1>4, <1>5

LEMMA StartOptionInv ==
  ASSUME IInv, ReadStartOption
  PROVE  IInv'
<1>0. PICK n : n = curArgc
  OBVIOUS
<1> DEFINE o == argv[n]
           r == WithOption(o)
<1>1. /\ pc = "start" /\ n < argc /\ o \in StartOptions
      /\ IF Refused(o) THEN Fail ELSE GoOn("start", n + 1, r)
  BY <1>0 DEF ReadStartOption
<1>2. /\ ArgumentsInv /\ request \in Requests /\ argv[1] = "/start" /\ OptionsBefore(n)
      /\ request.noAdmin <=> Given({"/noadmin"}, n) # {}
      /\ request.noCpuSampling <=> Given({"/nocpusampling"}, n) # {}
      /\ request.verbosityLevel = LevelGiven(n)
  BY <1>0, <1>1, InvParts DEF StartInv
<1>3. n \in 2 .. argc /\ Len(argv) \in Nat /\ argc = Len(argv) + 1 /\ n \in Nat /\ n >= 2
  BY <1>2, InvParts DEF OptionsBefore
<1>4. Refused(o) <=>
        \E S \in {{"/noadmin"}, {"/nocpusampling"}, LevelOptions} : o \in S /\ Given(S, n) # {}
  <2>1. request.verbosityLevel = "INVALID" <=> Given(LevelOptions, n) = {}
    BY <1>2, <1>3, LevelRead
  <2> QED BY <1>2, <2>1 DEF Refused
<1> HIDE DEF r
<1>5. CASE Refused(o)
  <2>1. Fail
    BY <1>1, <1>5
  <2>2. argv' = argv /\ outcome' = "E_FAIL"
    BY <2>1 DEF Fail, Finish
  <2>3. \A k \in DOMAIN Arguments : ~ NamesSession(k)
    BY <1>1, <1>2, <1>3, <1>4, <1>5, NoNameFound DEF OptionsBefore
  <2>4. StartUsageRespected'
    BY <1>2, <2>2, <2>3, ArgumentsKept DEF StartUsageRespected
  <2> QED BY <1>1, <1>2, <2>1, <2>4, EndedWith DEF Fail
<1>6. CASE ~ Refused(o)
  <2>1. GoOn("start", n + 1, r)
    BY <1>1, <1>6
  <2>2. pc' = "start" /\ curArgc' = n + 1 /\ request' = r /\ argv' = argv /\ argc' = argc
    BY <2>1 DEF GoOn, argc
  <2>3. \A S : Given(S, n + 1) = IF o \in S THEN Given(S, n) \cup {n} ELSE Given(S, n)
    BY <1>3, GivenNext
  <2>4. \A S : Given(S, n + 1)' = Given(S, n + 1)
    BY <2>2 DEF Given
  <2>5. \A S : Given(S, n) = {} \/ o \notin S => (AtMostOne(S, n) => AtMostOne(S, n + 1))
    BY <2>3 DEF AtMostOne
  <2>6. OptionsBefore(n + 1)
    <3>1. \A i \in 2 .. (n + 1) - 1 : argv[i] \in StartOptions
      BY <1>1, <1>2, <1>3 DEF OptionsBefore
    <3>2. \A S \in {{"/noadmin"}, {"/nocpusampling"}, LevelOptions} :
            AtMostOne(S, n) /\ (Given(S, n) = {} \/ o \notin S)
      BY <1>2, <1>4, <1>6 DEF OptionsBefore
    <3>3. n + 1 \in 2 .. argc
      BY <1>1, <1>3
    <3> QED BY <2>5, <3>1, <3>2, <3>3 DEF OptionsBefore
  <2>7. OptionsBefore(n + 1)' /\ LevelGiven(n + 1)' = LevelGiven(n + 1)
    BY <2>2, <2>4, <2>6 DEF OptionsBefore, AtMostOne, LevelGiven
  <2>8. /\ r \in Requests
        /\ r.noAdmin <=> Given({"/noadmin"}, n + 1) # {}
        /\ r.noCpuSampling <=> Given({"/nocpusampling"}, n + 1) # {}
        /\ r.verbosityLevel = LevelGiven(n + 1)
    <3>1. o \in LevelOptions => /\ Given({"/level1"}, n) = {}
                                /\ Given({"/level2"}, n) = {}
                                /\ Given({"/level3"}, n) = {}
      BY <1>4, <1>6 DEF Given, LevelOptions
    <3>2. CASE o = "/noadmin"
      <4>1. /\ r \in Requests /\ r.noAdmin /\ r.noCpuSampling = request.noCpuSampling
            /\ r.verbosityLevel = request.verbosityLevel
        BY <1>2, <3>2 DEF r, WithOption, Requests
      <4>2. LevelGiven(n + 1) = LevelGiven(n)
        BY <2>3, <3>2 DEF LevelGiven
      <4> QED BY <1>2, <2>3, <3>2, <4>1, <4>2
    <3>3. CASE o = "/nocpusampling"
      <4>1. /\ r \in Requests /\ r.noAdmin = request.noAdmin /\ r.noCpuSampling
            /\ r.verbosityLevel = request.verbosityLevel
        BY <1>2, <3>3 DEF r, WithOption, Requests
      <4>2. LevelGiven(n + 1) = LevelGiven(n)
        BY <2>3, <3>3 DEF LevelGiven
      <4> QED BY <1>2, <2>3, <3>3, <4>1, <4>2
    <3>4. CASE o \in LevelOptions
      <4>1. /\ r \in Requests /\ r.noAdmin = request.noAdmin
            /\ r.noCpuSampling = request.noCpuSampling
            /\ r.verbosityLevel = IF o = "/level1" THEN "LIGHT"
                                  ELSE IF o = "/level2" THEN "MEDIUM" ELSE "VERBOSE"
        BY <1>2, <3>4 DEF r, WithOption, Requests, LevelOptions
      <4>2. LevelGiven(n + 1) = IF o = "/level1" THEN "LIGHT"
                                ELSE IF o = "/level2" THEN "MEDIUM" ELSE "VERBOSE"
        BY <2>3, <3>1, <3>4 DEF LevelGiven, LevelOptions
      <4>3. o # "/noadmin" /\ o # "/nocpusampling"
        BY <3>4 DEF LevelOptions
      <4> QED BY <1>2, <2>3, <4>1, <4>2, <4>3
    <3> QED BY <1>1, <3>2, <3>3, <3>4 DEF StartOptions
  <2>9. StartInv'
    BY <1>2, <2>2, <2>4, <2>7, <2>8 DEF StartInv
  <2>10. StopOrAnalyzeInv'
    BY <2>2 DEF StopOrAnalyzeInv
  <2> QED BY <1>1, <2>1, <2>8, <2>9, <2>10, ReadOn
<1> QED BY <1>5, <1>6

LEMMA SessionNameInv ==
  ASSUME IInv, ReadSessionName
  PROVE  IInv'
<1> DEFINE n == curArgc
           level == IF request.verbosityLevel = "INVALID" THEN "MEDIUM"
                    ELSE request.verbosityLevel
           r == [request EXCEPT !.firstArg = argv[curArgc],
                   !.verbosityLevel = IF @ = "INVALID" THEN "MEDIUM" ELSE @]
<1>1. pc = "start" /\ ~ (n < argc /\ argv[n] \in StartOptions)
  BY DEF ReadSessionName
<1>2. /\ ArgumentsInv /\ request \in Requests /\ argv[1] = "/start" /\ OptionsBefore(n)
      /\ request.noAdmin <=> Given({"/noadmin"}, n) # {}
      /\ request.noCpuSampling <=> Given({"/nocpusampling"}, n) # {}
      /\ request.verbosityLevel = LevelGiven(n)
  BY <1>1, InvParts DEF StartInv
<1>3. n \in 2 .. argc /\ Len(argv) \in Nat /\ argc = Len(argv) + 1 /\ n \in Nat /\ n >= 2
  BY <1>2, InvParts DEF OptionsBefore
<1>4. CASE n >= argc
  <2>1. Fail
    BY <1>4 DEF ReadSessionName
  <2>2. argv' = argv /\ outcome' = "E_FAIL"
    BY <2>1 DEF Fail, Finish
  <2>3. \A k \in DOMAIN Arguments : ~ NamesSession(k)
    <3>1. n = argc
      BY <1>3, <1>4
    <3> QED BY <1>2, <1>3, <3>1, NoNameFound DEF OptionsBefore
  <2>4. StartUsageRespected'
    BY <1>2, <2>2, <2>3, ArgumentsKept DEF StartUsageRespected
  <2> QED BY <1>1, <1>2, <2>1, <2>4, EndedWith DEF Fail
<1>5. CASE ~ (n >= argc)
  <2>1. Finish("DoStart", r)
    BY <1>5 DEF ReadSessionName
  <2>2. n < argc /\ argv[n] \notin StartOptions /\ argv[n] \in Words
    BY <1>1, <1>2, <1>3, <1>5 DEF ArgumentsInv
  <2>3. /\ r \in Requests /\ r.firstArg = argv[n] /\ r.verbosityLevel = level
        /\ r.noAdmin = request.noAdmin /\ r.noCpuSampling = request.noCpuSampling
    BY <1>2, <2>2 DEF Requests
  <2> HIDE DEF r
  <2>4. argv' = argv /\ curArgc' = n /\ request' = r /\ outcome' = "DoStart"
        /\ Arguments' = Arguments
    BY <2>1 DEF Finish, Arguments
  <2>5. StartUsageRespected'
    <3>1. n - 1 \in DOMAIN Arguments /\ Arguments[n - 1] = argv[n] /\ NamesSession(n - 1)
      BY <1>2, <1>3, <2>2, NameFound
    <3>2. NamesSession(n - 1)' = NamesSession(n - 1)
      BY <1>2, <2>4, ArgumentsKept
    <3> QED BY <2>3, <2>4, <3>1, <3>2 DEF StartUsageRespected
  <2>6. EventsCollected'
    <3> DEFINE given == {Arguments[i] : i \in 1 .. n - 2}
    <3>1. \A w : w \in given <=> Given({w}, n) # {}
      BY <1>2, <1>3, GivenArguments
    <3> HIDE DEF given
    <3>2. /\ level = "VERBOSE" <=> "/level3" \in given
          /\ level = "LIGHT" <=> "/level1" \in given
          /\ level \in {"VERBOSE", "LIGHT", "MEDIUM"}
      BY <1>2, <1>3, <3>1, LevelRead
    <3>3. /\ request.noAdmin <=> "/noadmin" \in given
          /\ request.noCpuSampling <=> "/nocpusampling" \in given
      BY <1>2, <3>1
    <3> HIDE DEF level
    <3>4. MsvcEventFlags(r.verbosityLevel) =
            LET all == {"BASIC", "FILES", "FUNCTIONS", "TEMPLATE_INSTANTIATIONS"} IN
            IF "/level3" \in given THEN all
            ELSE IF "/level1" \in given
              THEN all \ {"TEMPLATE_INSTANTIATIONS", "FUNCTIONS", "FILES"}
            ELSE all \ {"TEMPLATE_INSTANTIATIONS"}
      BY <2>3, <3>2 DEF MsvcEventFlags
    <3>5. SystemEventFlags(~ r.noAdmin, ~ r.noCpuSampling) =
            IF given \cap {"/noadmin", "/nocpusampling"} = {} THEN {"CPU_SAMPLES"} ELSE {}
      BY <2>3, <3>3 DEF SystemEventFlags
    <3>6. given = {Arguments'[i] : i \in 1 .. curArgc' - 2}
      BY <2>4 DEF given
    <3> QED BY <2>4, <3>4, <3>5, <3>6 DEF EventsCollected
  <2> QED BY <1>1, <1>2, <2>1, <2>3, <2>5, <2>6, EndedWith
<1> QED BY <1>4, <1>5

LEMMA StepInv ==
  ASSUME IInv, [Next]_vars
  PROVE  IInv'
<1>1. CASE UNCHANGED vars
  <2>1. argv' = argv /\ pc' = pc /\ curArgc' = curArgc /\ request' = request
        /\ outcome' = outcome
    BY <1>1 DEF vars
  <2>2. IInv
    OBVIOUS
  <2>3. /\ ArgumentsInv' /\ AfterFirst' = AfterFirst /\ argc' = argc
        /\ Arguments' = Arguments /\ Meant' = Meant
        /\ \A n : NamesSession(n)' = NamesSession(n)
    BY <2>1, ArgumentsKept DEF IInv
  <2>4. ParserInv' /\ StopOrAnalyzeInv'
    BY <2>1, <2>2, <2>3 DEF IInv, ParserInv, StopOrAnalyzeInv
  <2>5. StartInv'
    BY <2>1, <2>2, <2>3
       DEF IInv, StartInv, OptionsBefore, AtMostOne, LevelGiven, Given, argc
  <2>6. UsageRespected' /\ StartUsageRespected'
    BY <2>1, <2>2, <2>3 DEF IInv, UsageRespected, StartUsageRespected
  <2>7. EventsCollected' /\ UndefinedOnlyThere'
    BY <2>1, <2>2, <2>3 DEF IInv, EventsCollected, UndefinedOnlyThere, TimetraceWithoutOutput
  <2> QED BY <2>3, <2>4, <2>5, <2>6, <2>7 DEF IInv
<1> QED BY <1>1, DispatchInv, FirstArgumentInv, OutputOptionInv, OutputFileInv,
           StartOptionInv, SessionNameInv DEF Next

-----------------------------------------------------------------------------
(* Theorems. *)

\* What was read is at any moment what the words before curArgc say.
THEOREM ReadingInvariance == Spec => []IInv
<1>1. Init => IInv
  BY InitInv
<1>2. IInv /\ [Next]_vars => IInv'
  BY StepInv
<1> QED BY <1>1, <1>2, PTL DEF Spec

\* /stop and /analyze accept what their usage lines allow, every word ending
\* up where its usage line has it, and nothing else.
THEOREM UsageStaysRespected == Spec => []UsageRespected
<1>1. IInv => UsageRespected
  BY DEF IInv
<1> QED BY <1>1, ReadingInvariance, PTL

\* /start accepts its options in any order, each once and one level only,
\* before the session name, and nothing else.
THEOREM StartUsageStaysRespected == Spec => []StartUsageRespected
<1>1. IInv => StartUsageRespected
  BY DEF IInv
<1> QED BY <1>1, ReadingInvariance, PTL

\* A session collects the events its options ask for.
THEOREM RightEventsCollected == Spec => []EventsCollected
<1>1. IInv => EventsCollected
  BY DEF IInv
<1> QED BY <1>1, ReadingInvariance, PTL

\* The finding of the run missing_argument is the only one of its kind: the
\* program looks for an argument that is not there after
\* "/templates <first> /timetrace" and for no other command line.
THEOREM MissingOutputOnly == Spec => []UndefinedOnlyThere
<1>1. IInv => UndefinedOnlyThere
  BY DEF IInv
<1> QED BY <1>1, ReadingInvariance, PTL

=============================================================================
