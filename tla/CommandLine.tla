---------------------------- MODULE CommandLine -----------------------------
(***************************************************************************)
(* wmain: how vcperf reads its command line and what it then asks of the   *)
(* Build Insights SDK.  argv[i] is the C++ argv[i], the program's own name *)
(* (argv[0]) left out.  CheckCommand's two spellings of an option ("/" or  *)
(* "-", in any case) are one word here; of a file name only its extension  *)
(* and its existence count.                                                *)
(***************************************************************************)
EXTENDS Integers, Sequences, FiniteSets

CONSTANTS
  Commands,     \* first arguments
  Options,      \* words that are an option of some command
  EtlFiles,     \* words with the extension .etl
  JsonFiles,    \* words with the extension .json
  Missing,      \* files that do not exist
  Names,        \* other words
  MaxArgs       \* bound: the arguments after the command

Words == Options \cup EtlFiles \cup JsonFiles \cup Names

LevelOptions == {"/level1", "/level2", "/level3"}
StartOptions == {"/noadmin", "/nocpusampling"} \cup LevelOptions

ASSUME WordsAssumption ==
  /\ StartOptions \cup {"/templates", "/timetrace"} \subseteq Options
  /\ Options \cap (EtlFiles \cup JsonFiles \cup Names) = {}
  /\ EtlFiles \cap JsonFiles = {} /\ Missing \subseteq EtlFiles
  /\ MaxArgs \in Nat

VARIABLES
  argv,      \* the arguments
  pc,        \* the part of the command line that is read next
  curArgc,   \* index of the next argument
  request,   \* what was read so far
  outcome    \* "" while parsing; "E_FAIL"; "undefined"; or the command called

vars == <<argv, pc, curArgc, request, outcome>>

argc == Len(argv) + 1

NoRequest == [firstArg |-> "", outputFile |-> "",
              analyzeTemplates |-> FALSE, generateTimeTrace |-> FALSE,
              noAdmin |-> FALSE, noCpuSampling |-> FALSE, verbosityLevel |-> "INVALID"]

Init ==
  /\ \E c \in Commands, n \in 0 .. MaxArgs : \E s \in [1 .. n -> Words] : argv = <<c>> \o s
  /\ pc = "command"
  /\ curArgc = 2
  /\ request = NoRequest
  /\ outcome = ""

\* The parser goes on, at argument i, with what it has read in r.
GoOn(next, i, r) ==
  /\ pc' = next /\ curArgc' = i /\ request' = r
  /\ UNCHANGED <<argv, outcome>>

Finish(result, r) ==
  /\ pc' = "done" /\ outcome' = result /\ request' = r
  /\ UNCHANGED <<argv, curArgc>>

Fail == Finish("E_FAIL", request)

\* Fault: the output of a time trace is checked like any other.
ValidateFileEtlOnly(file, isInput, extension) ==
  file \in EtlFiles /\ (isInput => file \notin Missing)

ValidateFile(file, isInput, extension) ==
  /\ file \in IF extension = ".etl" THEN EtlFiles ELSE JsonFiles
  /\ isInput => file \notin Missing

-----------------------------------------------------------------------------
Dispatch ==
  /\ pc = "command"
  /\ \/ /\ argv[1] = "/start"
        /\ IF argc < 3 THEN Fail ELSE GoOn("start", 2, request)
     \/ /\ argv[1] \in {"/stop", "/analyze"}
        /\ IF argc < 4 THEN Fail ELSE GoOn("first", 2, request)
     \/ /\ argv[1] = "/stopnoanalyze"
        /\ IF argc < 4 \/ ~ ValidateFile(argv[3], FALSE, ".etl") THEN Fail
           ELSE Finish("DoStopNoAnalyze",
                       [request EXCEPT !.firstArg = argv[2], !.outputFile = argv[3]])
     \/ /\ argv[1] = "/grantusercontrol"
        /\ Finish("DoGrantUserSessionControl", request)
     \/ /\ argv[1] \notin {"/start", "/stop", "/analyze", "/stopnoanalyze", "/grantusercontrol"}
        /\ Fail

(* ParseStopOrAnalyze. *)

\* The session name or input file, after the option that may come before it.
ReadFirstArgument ==
  /\ pc = "first"
  /\ IF argv[2] = "/templates"
       THEN IF argc < 5 THEN Fail
            ELSE GoOn("option", 4, [request EXCEPT !.analyzeTemplates = TRUE,
                                                   !.firstArg = argv[3]])
       ELSE GoOn("option", 3, [request EXCEPT !.firstArg = argv[2]])

\* The option that may come before the output file.
ReadOutputOption ==
  /\ pc = "option"
  /\ IF argv[curArgc] = "/timetrace"
       THEN IF argc < 5 THEN Fail
            ELSE GoOn("output", curArgc + 1, [request EXCEPT !.generateTimeTrace = TRUE])
       ELSE GoOn("output", curArgc, request)

\* The output file.  argv[argc] is a null pointer: a string is made of it
\* before the test of argc that would have caught it.
ReadOutputFile ==
  /\ pc = "output"
  /\ IF curArgc >= argc THEN Finish("undefined", request)
     ELSE LET r == [request EXCEPT !.outputFile = argv[curArgc]]
              extension == IF r.generateTimeTrace THEN ".json" ELSE ".etl"
          IN  IF \/ r.analyzeTemplates /\ r.generateTimeTrace /\ argc < 6
                 \/ ~ ValidateFile(r.outputFile, FALSE, extension)
                 \/ argv[1] = "/analyze" /\ ~ ValidateFile(r.firstArg, TRUE, ".etl")
                THEN Fail
                ELSE Finish(IF argv[1] = "/stop" THEN "DoStop" ELSE "DoAnalyze", r)

(* The options of /start. *)

\* Fault: only an equal level is refused the second time.
RefusedSameLevel(o) ==
  \/ o = "/noadmin" /\ request.noAdmin
  \/ o = "/nocpusampling" /\ request.noCpuSampling
  \/ o = "/level1" /\ request.verbosityLevel = "LIGHT"
  \/ o = "/level2" /\ request.verbosityLevel = "MEDIUM"
  \/ o = "/level3" /\ request.verbosityLevel = "VERBOSE"

\* An option that must not be given (again).
Refused(o) ==
  \/ o = "/noadmin" /\ request.noAdmin
  \/ o = "/nocpusampling" /\ request.noCpuSampling
  \/ o \in LevelOptions /\ request.verbosityLevel # "INVALID"

WithOption(o) ==
  CASE o = "/noadmin"       -> [request EXCEPT !.noAdmin = TRUE]
    [] o = "/nocpusampling" -> [request EXCEPT !.noCpuSampling = TRUE]
    [] o = "/level1"        -> [request EXCEPT !.verbosityLevel = "LIGHT"]
    [] o = "/level2"        -> [request EXCEPT !.verbosityLevel = "MEDIUM"]
    [] o = "/level3"        -> [request EXCEPT !.verbosityLevel = "VERBOSE"]

ReadStartOption ==
  /\ pc = "start"
  /\ curArgc < argc /\ argv[curArgc] \in StartOptions
  /\ IF Refused(argv[curArgc]) THEN Fail
     ELSE GoOn("start", curArgc + 1, WithOption(argv[curArgc]))

ReadSessionName ==
  /\ pc = "start"
  /\ ~ (curArgc < argc /\ argv[curArgc] \in StartOptions)
  /\ IF curArgc >= argc THEN Fail
     ELSE Finish("DoStart",
            [request EXCEPT !.firstArg = argv[curArgc],
               !.verbosityLevel = IF @ = "INVALID" THEN "MEDIUM" ELSE @])

Next == \/ Dispatch
        \/ ReadFirstArgument \/ ReadOutputOption \/ ReadOutputFile
        \/ ReadStartOption \/ ReadSessionName

Spec == Init /\ [][Next]_vars

-----------------------------------------------------------------------------
(* What the commands ask of the SDK. *)

\* Fault: every case of the switch ends with a break.
MsvcEventFlagsWithBreaks(level) ==
  CASE level = "VERBOSE" -> {"TEMPLATE_INSTANTIATIONS"}
    [] level = "MEDIUM"  -> {"FILES", "FUNCTIONS"}
    [] OTHER             -> {"BASIC"}

\* DoStart's switch, whose cases fall through.
MsvcEventFlags(level) ==
  (IF level = "VERBOSE" THEN {"TEMPLATE_INSTANTIATIONS"} ELSE {})
    \cup (IF level \in {"VERBOSE", "MEDIUM"} THEN {"FILES", "FUNCTIONS"} ELSE {})
    \cup {"BASIC"}

SystemEventFlags(admin, cpuSampling) ==
  IF admin /\ cpuSampling THEN {"CPU_SAMPLES"} ELSE {}

-----------------------------------------------------------------------------
(* Properties. *)

Arguments == Tail(argv)

StartsWith(s, t) == Len(t) <= Len(s) /\ SubSeq(s, 1, Len(t)) = t

\* The usage of /stop and /analyze:
\*   [/templates] first outputFile.etl
\*   [/templates] first /timetrace outputFile.json
UsageLines ==
  {u \in {<<>>, <<"/templates">>} \X Words
          \X ({<<f>> : f \in EtlFiles} \cup {<<"/timetrace", f>> : f \in JsonFiles}) :
     u[2] = "/templates" => u[1] # <<>>}

\* The usage lines that the arguments are an example of.  A file to analyze
\* must also be an existing .etl file.
Meant == {u \in UsageLines : /\ StartsWith(Arguments, u[1] \o <<u[2]>> \o u[3])
                             /\ argv[1] = "/analyze" => u[2] \in EtlFiles \ Missing}

\* What the usage lines allow is what /stop and /analyze accept, each word
\* ending up where the usage line has it; anything else gets the hint.
UsageRespected ==
  argv[1] \in {"/stop", "/analyze"} =>
    /\ outcome = "E_FAIL" => Meant = {}
    /\ outcome \in {"DoStop", "DoAnalyze"} =>
         \E u \in Meant :
           /\ request.analyzeTemplates <=> u[1] # <<>>
           /\ request.firstArg = u[2]
           /\ request.generateTimeTrace <=> Len(u[3]) = 2
           /\ request.outputFile = u[3][Len(u[3])]

\* How often an option of S comes before the n-th argument.
TimesGiven(S, n) == Cardinality({i \in 1 .. n - 1 : Arguments[i] \in S})

\* The n-th argument names the session: the ones before it are options, each
\* given at most once and no two levels together.
NamesSession(n) ==
  /\ Arguments[n] \notin StartOptions
  /\ \A i \in 1 .. n - 1 : Arguments[i] \in StartOptions
  /\ \A S \in {{"/noadmin"}, {"/nocpusampling"}, LevelOptions} : TimesGiven(S, n) <= 1

\* The options of /start come in any order before the session name, each at
\* most once and no two levels together; the name is the first other word.
StartUsageRespected ==
  argv[1] = "/start" =>
    /\ outcome = "E_FAIL" => \A n \in DOMAIN Arguments : ~ NamesSession(n)
    /\ outcome = "DoStart" => \E n \in DOMAIN Arguments : /\ NamesSession(n)
                                                          /\ request.firstArg = Arguments[n]

\* The events a session collects are the ones README.md promises for its
\* options: level 3 all, level 2 (the default) all but template instantiations,
\* level 1 neither these nor functions and files; no CPU samples without
\* administrator rights.
EventsCollected ==
  outcome = "DoStart" =>
    LET given == {Arguments[i] : i \in 1 .. curArgc - 2}
        all == {"BASIC", "FILES", "FUNCTIONS", "TEMPLATE_INSTANTIATIONS"}
    IN  /\ MsvcEventFlags(request.verbosityLevel) =
             IF "/level3" \in given THEN all
             ELSE IF "/level1" \in given
               THEN all \ {"TEMPLATE_INSTANTIATIONS", "FUNCTIONS", "FILES"}
             ELSE all \ {"TEMPLATE_INSTANTIATIONS"}
        /\ SystemEventFlags(~ request.noAdmin, ~ request.noCpuSampling) =
             IF given \cap {"/noadmin", "/nocpusampling"} = {} THEN {"CPU_SAMPLES"} ELSE {}

\* Every command line is either executed or answered with a hint: the parser
\* never makes a string of an argument that is not there.
ArgumentsExist == outcome # "undefined"

=============================================================================
