---------------------------- MODULE CommandLine ----------------------------
(***************************************************************************)
(* From cowbuilder's own command line to pbuilder's (parameter.c,           *)
(* parameter.h and the operations of cowbuilder.c).                        *)
(*                                                                         *)
(* parse_parameter loads three standard configuration files, reads the      *)
(* options, hands some of them on to pbuilder, and calls the operation,     *)
(* which adds words of its own and executes pbuilder.  The words go into    *)
(* an array of MaxLine places, one PBUILDER_ADD_PARAM at a time.            *)
(*                                                                         *)
(* The user's options, what a configuration file yields and the rest of the *)
(* command line are chosen freely.  asked is the sequence of arguments that *)
(* PBUILDER_ADD_PARAM is called with, added how many calls are done: the    *)
(* next option is read when all of them are.                               *)
(***************************************************************************)
EXTENDS Integers, Sequences

CONSTANTS
    MaxLine,      \* MAXPBUILDERCOMMANDLINE
    MaxFiles,     \* MAX_CUSTOM_FILES
    MaxOptions,   \* bound: options the user gives
    MaxArgs,      \* bound: arguments after the options
    PairOptions,  \* options passed on with their argument
    WordOptions,  \* options passed on that have none
    Settings,     \* options that set a field the operations look at
    Configured,   \* sets of fields a configuration file may set
    Files,        \* names given to --inputfile and --outputfile
    Null

Abort == 134   \* what a shell says of a failed assertion
Operations == {"build", "create", "update", "login", "execute", "help", "dumpconfig"}
\* What each operation of cowbuilder.c puts on pbuilder's line itself; a value
\* stands for itself only.
OwnWords == {"--buildplace", "--buildresult", "--debbuildopts", "--binary-arch",
             "--no-targz", "--internal-chrootexec", "--mirror", "--architecture",
             "--distribution", "--extrapackages", "--configfile", "--inputfile",
             "cowdancer", "value", "argument"}
Words == PairOptions \cup WordOptions \cup Files \cup OwnWords
         \cup Operations \cup {"pbuilder"}

Fields == Settings \cup {"buildplace", "basepath"}

ASSUME LineAssumption == MaxLine \in Nat /\ MaxLine >= 3
ASSUME BoundAssumption == {MaxFiles, MaxOptions, MaxArgs} \subseteq Nat /\ MaxFiles # 0
\* --distribution is kept, not passed on (parameter.c:435-438), and there is no
\* option --no-targz.
ASSUME DistributionAssumption ==
    {"--distribution", "--no-targz"} \cap (PairOptions \cup WordOptions \cup Files) = {}
ASSUME NullAssumption == Null \notin Words \cup {"--override-config"}
ASSUME FieldAssumption == /\ Settings \subseteq Words
                          /\ Configured \subseteq SUBSET Fields

VARIABLES
    pc,         \* what parse_parameter, or the operation it called, does next
    line,       \* pbuildercommandline
    offset,     \* offset
    asked,      \* the arguments of PBUILDER_ADD_PARAM so far
    added,      \* how many of them have been handled
    config_ok,  \* config_ok
    fields,     \* pc.operation, and which other fields of pc are set
    inputfile,  \* pc.inputfile
    status,     \* what the process exits with
    options,    \* how many options have been read
    past        \* history: results of load_config_file, names given to --inputfile,
                \* whether --outputfile was given, whether a word was dropped

vars == <<pc, line, offset, asked, added, config_ok, fields, inputfile, status,
          options, past>>

TypeOK ==
    /\ pc \in {"usr", "etc", "home", "options", "update", "compose", "exec", "exit"}
    /\ line \in [0..(MaxLine - 1) -> Words \cup {Null}]
    /\ offset \in 2..(MaxLine - 1)
    /\ asked \in Seq(Words \cup {Null})
    /\ added \in 0..Len(asked)
    /\ config_ok \in {-1, 0, 1}
    /\ fields \in [operation : Operations \cup {Null}, set : SUBSET Fields]
    /\ inputfile \in [0..MaxFiles -> Files \cup {Null}]
    /\ status \in {0, 1, 2, 3, 4, 5, 6, Abort}
    /\ options \in 0..MaxOptions
    /\ past \in [loads : SUBSET {-1, 0, 1, 2}, inputs : Seq(Files),
                output : BOOLEAN, dropped : BOOLEAN]

Init ==
    /\ pc = "usr"
    /\ line = [i \in 0..(MaxLine - 1) |-> IF i = 0 THEN "pbuilder" ELSE Null]
    /\ offset = 2
    /\ asked = <<>>
    /\ added = 0
    /\ config_ok = -1
    /\ fields = [operation |-> Null, set |-> {}]
    /\ inputfile = [i \in 0..MaxFiles |-> Null]
    /\ status = 0
    /\ options = 0
    /\ past = [loads |-> {}, inputs |-> <<>>, output |-> FALSE, dropped |-> FALSE]

----------------------------------------------------------------------------
(* Seeded faults: what the definitions below would be with a plausible bug. *)

\* the last place is given away too
RoomForAll == offset < MaxLine
\* NULL goes over the last word
CutsLastWord == offset - 1
\* the last file that is looked for decides
LastLoadDecides(r) == config_ok' = r
\* found is assigned in every round of the loop
FindsInLastPlace(w) == line[offset - 1] = w
\* the array is searched from its second place
SkipsFirst(a) == CHOOSE i \in 1..MaxFiles : /\ a[i] = Null
                                            /\ \A j \in 1..(i - 1) : a[j] # Null

----------------------------------------------------------------------------
\* exit, or a return from parse_parameter
Exit(s) == pc' = "exit" /\ status' = s

(* PBUILDER_ADD_PARAM(asked[added + 1]) *)
HasRoom == offset < MaxLine - 1
PlaceOfNull == offset

AddWord ==
    /\ added < Len(asked)
    /\ HasRoom
    /\ line' = [line EXCEPT ![offset] = asked[added + 1]]
    /\ offset' = offset + 1
    /\ added' = added + 1
    /\ UNCHANGED <<pc, asked, config_ok, fields, inputfile, status, options, past>>

DropWord ==
    /\ added < Len(asked)
    /\ ~HasRoom
    /\ line' = [line EXCEPT ![PlaceOfNull] = Null]
    /\ added' = added + 1
    /\ past' = [past EXCEPT !.dropped = TRUE]
    /\ UNCHANGED <<pc, offset, asked, config_ok, fields, inputfile, status, options>>

Ready == added = Len(asked)
AddParams(ws) == asked' = asked \o ws

----------------------------------------------------------------------------
(* load_config_file: bash's exit code, -1 when popen fails.  The file may   *)
(* set BUILDPLACE and other fields of pc.                                  *)
Decide(r) == config_ok' = IF config_ok # 0 THEN r ELSE config_ok
\* /usr/share/pbuilder/pbuilderrc, /etc/pbuilderrc, ~/.pbuilderrc
AfterFile == [usr |-> "etc", etc |-> "home", home |-> "options"]
BrokenStatus == [usr |-> 2, etc |-> 3, home |-> 4]

Loaded(r, sets) ==
    /\ past' = [past EXCEPT !.loads = @ \cup {r}]
    /\ fields' = [fields EXCEPT !.set = @ \cup sets]

LoadStandard(r, sets) ==
    /\ pc \in DOMAIN AfterFile
    /\ Loaded(r, IF r = 0 THEN sets ELSE {})
    /\ IF r > 1
       THEN Exit(BrokenStatus[pc]) /\ UNCHANGED config_ok
       ELSE /\ Decide(r)
            /\ pc' = AfterFile[pc]
            /\ UNCHANGED status
    /\ UNCHANGED <<line, offset, asked, added, inputfile, options>>

----------------------------------------------------------------------------
(* One round of getopt_long. *)
NextOption ==
    /\ pc = "options" /\ Ready
    /\ options < MaxOptions
    /\ options' = options + 1
    /\ UNCHANGED <<line, offset, added>>

SetOperation(o) ==
    /\ NextOption
    /\ fields' = [fields EXCEPT !.operation = o]
    /\ UNCHANGED <<pc, asked, config_ok, inputfile, status, past>>

\* --basepath: mkdir, for create, and canonicalize_file_name may fail.
BasePath(fails) ==
    /\ NextOption
    /\ IF fields.operation = Null \/ fails
       THEN Exit(1) /\ UNCHANGED fields
       ELSE /\ fields' = [fields EXCEPT !.set = @ \cup {"basepath"}]
            /\ UNCHANGED <<pc, status>>
    /\ UNCHANGED <<asked, config_ok, inputfile, past>>

BuildPlace ==
    /\ NextOption
    /\ fields' = [fields EXCEPT !.set = @ \cup {"buildplace"}]
    /\ UNCHANGED <<pc, asked, config_ok, inputfile, status, past>>

ConfigFile(r, sets) ==
    /\ NextOption
    /\ Loaded(r, IF r = 0 THEN sets ELSE {})
    /\ IF r > 1
       THEN Exit(5) /\ UNCHANGED <<asked, config_ok>>
       ELSE /\ Decide(r)
            /\ AddParams(<<"--configfile", "value">>)
            /\ UNCHANGED <<pc, status>>
    /\ UNCHANGED inputfile

\* Those that are kept in pc as well are in Settings.
PassPair(o) ==
    /\ NextOption
    /\ AddParams(<<o, "value">>)
    /\ fields' = [fields EXCEPT !.set = @ \cup ({o} \cap Settings)]
    /\ UNCHANGED <<pc, config_ok, inputfile, status, past>>

PassWord(o) ==
    /\ NextOption
    /\ AddParams(<<o>>)
    /\ fields' = [fields EXCEPT !.set = @ \cup ({o} \cap Settings)]
    /\ UNCHANGED <<pc, config_ok, inputfile, status, past>>

\* mirror, buildresult, architecture: kept in pc only
KeepSetting(o) ==
    /\ NextOption
    /\ fields' = [fields EXCEPT !.set = @ \cup {o}]
    /\ UNCHANGED <<pc, asked, config_ok, inputfile, status, past>>

size_of_ntarray(a) == CHOOSE i \in 0..MaxFiles : /\ a[i] = Null
                                                 /\ \A j \in 0..(i - 1) : a[j] # Null

\* size_of_ntarray asserts that the array is not full, so that the process
\* aborts before the test for too many files could be true.
InputFile(f) ==
    LET files == [inputfile EXCEPT ![size_of_ntarray(inputfile)] = f]
    IN  /\ NextOption
        /\ inputfile' = files
        /\ past' = [past EXCEPT !.inputs = Append(@, f)]
        /\ IF size_of_ntarray(files) >= MaxFiles
           THEN Exit(Abort) /\ UNCHANGED asked
           ELSE /\ AddParams(<<"--inputfile", f>>)
                /\ UNCHANGED <<pc, status>>
        /\ UNCHANGED <<config_ok, fields>>

\* pc.inputfile[size_of_ntarray(pc.outputfile)], and pc.outputfile is empty
OutputFile(f) ==
    /\ NextOption
    /\ inputfile' = [inputfile EXCEPT ![0] = f]
    /\ past' = [past EXCEPT !.output = TRUE]
    /\ UNCHANGED <<pc, asked, config_ok, fields, status>>

Unhandled ==
    /\ NextOption
    /\ Exit(1)
    /\ UNCHANGED <<asked, config_ok, fields, inputfile, past>>
----------------------------------------------------------------------------
(* The end of parse_parameter: n arguments are left on the command line.    *)
Composes(o) == o \in {"build", "create", "update", "login", "execute"}
WrongArguments(o, n) == \/ o \in {"build", "execute"} /\ n = 0
                        \/ o \in {"create", "update"} /\ n > 0

\* `name value', or nothing when the field is not set
Given(o) == IF o \in fields.set THEN <<o, "value">> ELSE <<>>
Flag(o) == IF o \in fields.set THEN <<o>> ELSE <<>>
InChroot == <<"--no-targz", "--internal-chrootexec", "value">>

\* The words of cpbuilder_build, create, login and execute, the first two of
\* cpbuilder_update.
BuildWords == Given("--buildresult") \o Given("--debbuildopts")
              \o Flag("--binary-arch") \o InChroot \o <<"argument">>
CreateWords == Given("--mirror") \o Given("--architecture")
               \o <<"--distribution", "value", "--no-targz", "--extrapackages", "cowdancer">>
ExecuteWords(n) == InChroot \o [i \in 1..n |-> "argument"]
WordsOf(o, n) == <<"--buildplace", "value">> \o
    IF o = "build" THEN BuildWords
    ELSE IF o = "create" THEN CreateWords
    ELSE IF o = "login" THEN InChroot
    ELSE IF o = "execute" THEN ExecuteWords(n)
    ELSE <<>>

Dispatch(n) ==
    LET o == fields.operation
    IN  /\ pc = "options" /\ Ready
        /\ IF config_ok # 0 THEN Exit(6) /\ UNCHANGED <<line, asked>>
           ELSE IF "buildplace" \notin fields.set \/ o = Null \/ WrongArguments(o, n)
           THEN Exit(1) /\ UNCHANGED <<line, asked>>
           ELSE IF ~Composes(o) THEN Exit(0) /\ UNCHANGED <<line, asked>>
           ELSE /\ line' = [line EXCEPT ![1] = o]
                /\ IF o = "update"
                   THEN AddParams(WordsOf(o, n)) /\ pc' = "update"
                   ELSE AddParams(WordsOf(o, n) \o <<Null>>) /\ pc' = "compose"
                /\ UNCHANGED status
        /\ UNCHANGED <<offset, added, config_ok, fields, inputfile, options, past>>

find_matching_param(w) == \E i \in 0..(offset - 1) : line[i] = w

\* The rest of cpbuilder_update's line.
OverrideWords == IF find_matching_param("--override-config")
                 THEN Given("--mirror") \o <<"--distribution", "value">> ELSE <<>>
UpdateWords ==
    /\ pc = "update" /\ Ready
    /\ AddParams((OverrideWords \o InChroot) \o <<Null>>)
    /\ pc' = "compose"
    /\ UNCHANGED <<line, offset, added, config_ok, fields, inputfile, status,
                   options, past>>

\* forkexecvp(pbuildercommandline)
Execute ==
    /\ pc = "compose" /\ Ready
    /\ pc' = "exec"
    /\ UNCHANGED <<line, offset, asked, added, config_ok, fields, inputfile, status,
                   options, past>>

Next ==
    \/ AddWord \/ DropWord
    \/ \E r \in {-1, 0, 1, 2}, sets \in Configured :
          LoadStandard(r, sets) \/ ConfigFile(r, sets)
    \/ \E o \in Operations : SetOperation(o)
    \/ \E fails \in BOOLEAN : BasePath(fails)
    \/ BuildPlace
    \/ \E o \in PairOptions : PassPair(o)
    \/ \E o \in WordOptions : PassWord(o)
    \/ \E o \in Settings \ (PairOptions \cup WordOptions) : KeepSetting(o)
    \/ \E f \in Files : InputFile(f) \/ OutputFile(f)
    \/ Unhandled
    \/ \E n \in 0..MaxArgs : Dispatch(n)
    \/ UpdateWords
    \/ Execute

Spec == Init /\ [][Next]_vars

----------------------------------------------------------------------------
\* What execvp and find_matching_param rely on: the array holds no NULL
\* before the end of the line, and one inside the array after it, however
\* many words were asked for (parameter.h:96-106).
LineTerminated ==
    /\ pc = "update" => \A i \in 0..(offset - 1) : line[i] # Null
    /\ pc = "exec" => \E n \in 2..(MaxLine - 1) :
                        line[n] = Null /\ \A i \in 0..(n - 1) : line[i] # Null

\* pbuilder is given the words that were asked for, in their order and each
\* once: all of them, or, when a message said that the line is full, as many
\* of the first ones as there are places.
LineFaithful ==
    /\ \A i \in 2..(MaxLine - 1) :
         line[i] = IF i < offset THEN asked[i - 1] ELSE Null
    /\ offset = IF past.dropped THEN MaxLine - 1 ELSE added + 2

OnLine(w) == \E i \in 2..(offset - 1) : line[i] = w

\* The line that update executes names a distribution only if --override-config
\* is on it too, which the user gave long before; and if that is there the
\* distribution is, at least on a line that has a word after it (cowbuilder.c:619).
OverrideHeeded ==
    pc = "exec" /\ fields.operation = "update" =>
        /\ OnLine("--distribution") => OnLine("--override-config")
        /\ OnLine("--override-config") /\ OnLine("--no-targz") => OnLine("--distribution")

\* Every file that --inputfile names is in pc.inputfile, in order and ended by
\* a NULL, up to the one that makes size_of_ntarray abort; an --outputfile
\* takes the place of the first.
InputsKept ==
    ~past.output =>
        \A i \in 0..MaxFiles :
            inputfile[i] = IF i < Len(past.inputs) THEN past.inputs[i + 1] ELSE Null

\* An operation is called if some configuration file was loaded and none was
\* broken; that none was loaded is said only when it is so (parameter.c:337).
ConfigurationFound ==
    /\ pc \in {"update", "compose", "exec"} => 0 \in past.loads /\ 2 \notin past.loads
    /\ pc = "exit" /\ status = 6 => 0 \notin past.loads
=============================================================================
