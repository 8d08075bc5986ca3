-------------------------------- MODULE Cli --------------------------------
(* The lingcage command line (bin/lingcage.rs): flags of the program are     *)
(* taken off, the verb is found, its arguments are parsed and it runs.  An   *)
(* argument is a record: what is left of '=' and, if there is one, what is   *)
(* right of it.  What `run` does between start and teardown is Sandbox.      *)
EXTENDS Integers, Sequences, SequencesExt

CONSTANTS
    LINES,        \* command lines, a set of sequences of arguments
    ROOTS         \* lengths of the path of a store root

VARIABLES
    line,         \* the command line
    cliStage,     \* global, verb, parse, log, monitor, checks, open, act, exited
    cliAt,        \* the next argument to look at
    global,       \* Global: verbose, log_file, event_monitor
    rest,         \* what take_global left
    verb,         \* the verb found
    parsed,       \* Parsed: values, positional
    dashed,       \* positional_only
    root,         \* length of the store root, once check looks at it
    effects,      \* what was created or changed
    passed,       \* checks of verify and check that passed
    error,        \* the CliError reported
    status        \* the exit code

cliVars == <<line, cliStage, cliAt, global, rest, verb, parsed, dashed, root, effects, passed, error, status>>

NONE == "none"
SUN_PATH == 108

Word(text) == [name |-> text, value |-> NONE]
Dashes == Word("--")
IsHelp(arg) == arg \in {Word("--help"), Word("-h")}

\* Arguments strip_prefix("--") finds a flag in.
FLAGS == {"--kernel", "--initrd", "--memory", "--vcpus", "--name", "--ready-timeout", "--store",
          "--format", "--template", "--timeout", "--verbose", "--log-file", "--event-monitor", "--help"}

VerbOf(words, flags, required) == [words |-> words, flags |-> flags, required |-> required]
VERBS ==
    [build |-> VerbOf(<<"template", "build">>,
                      {"--kernel", "--initrd", "--memory", "--vcpus", "--name", "--ready-timeout", "--store", "--format"},
                      {"--kernel"}),
     list |-> VerbOf(<<"template", "list">>, {"--store", "--format"}, {}),
     inspect |-> VerbOf(<<"template", "inspect">>, {"--store", "--format"}, {}),
     verify |-> VerbOf(<<"template", "verify">>, {"--store"}, {}),
     rm |-> VerbOf(<<"template", "rm">>, {"--store"}, {}),
     run |-> VerbOf(<<"run">>, {"--template", "--timeout", "--ready-timeout", "--store"}, {"--template"}),
     check |-> VerbOf(<<"check">>, {"--kernel", "--store"}, {})]

Init ==
    /\ line \in LINES /\ cliStage = "global" /\ cliAt = 1
    /\ global = [verbose |-> 0, log_file |-> NONE, event_monitor |-> NONE]
    /\ rest = <<>> /\ verb = NONE /\ parsed = [values |-> <<>>, positional |-> <<>>] /\ dashed = FALSE
    /\ root = 0 /\ effects = {} /\ passed = {} /\ error = NONE /\ status = 0

CodeOf(err) ==
    CASE err = NONE -> 0
      [] err = "usage" -> 1
      [] err = "not-found" -> 127
      [] err \in {"permission", "format"} -> 126
      [] OTHER -> 2
Exit(err) == cliStage' = "exited" /\ error' = err /\ status' = CodeOf(err)
Usage == Exit("usage") /\ UNCHANGED <<cliAt, global, rest, verb, parsed, dashed, effects, passed>>
Done(err) == Exit(err) /\ UNCHANGED <<cliAt, global, rest, verb, parsed, dashed>>
Go(next) == cliStage' = next /\ UNCHANGED <<error, status>>

\* take_global, one round of its loop.
Take(name, text) ==
    global' = IF name = "--log-file" THEN [global EXCEPT !.log_file = text] ELSE [global EXCEPT !.event_monitor = text]
Valued == {"--log-file", "--event-monitor"}
StopsAt(arg) == arg = Dashes
TakeGlobal ==
    /\ cliStage = "global" /\ cliAt <= Len(line)
    /\ UNCHANGED <<line, root>>
    /\ LET arg == line[cliAt] IN
       \/ /\ StopsAt(arg)
          /\ rest' = rest \o SubSeq(line, cliAt, Len(line)) /\ cliAt' = Len(line) + 1
          /\ UNCHANGED <<cliStage, global, verb, parsed, dashed, effects, passed, error, status>>
       \/ /\ arg \in {Word("-v"), Word("--verbose")}
          /\ cliAt' = cliAt + 1 /\ global' = [global EXCEPT !.verbose = @ + 1]
          /\ UNCHANGED <<cliStage, rest, verb, parsed, dashed, effects, passed, error, status>>
       \/ /\ arg.name \in Valued /\ arg.value = NONE /\ cliAt = Len(line)
          /\ Usage
       \/ /\ arg.name \in Valued
          /\ IF arg.value # NONE THEN Take(arg.name, arg.value) /\ cliAt' = cliAt + 1
                                 ELSE cliAt < Len(line) /\ Take(arg.name, line[cliAt + 1].name) /\ cliAt' = cliAt + 2
          /\ UNCHANGED <<cliStage, rest, verb, parsed, dashed, effects, passed, error, status>>
       \/ /\ ~StopsAt(arg) /\ arg \notin {Word("-v"), Word("--verbose")} /\ arg.name \notin Valued
          /\ cliAt' = cliAt + 1 /\ rest' = Append(rest, arg)
          /\ UNCHANGED <<cliStage, global, verb, parsed, dashed, effects, passed, error, status>>

\* cli, from take_global to parse: help is looked for ahead of `--` only.
Begins(name) ==
    LET words == VERBS[name].words
    IN  Len(rest) >= Len(words) /\ \A i \in 1..Len(words) : rest[i] = Word(words[i])
AsksHelp(args) ==
    \E i \in 1..Len(args) : IsHelp(args[i]) /\ \A j \in 1..i : args[j] # Dashes
Dispatch ==
    /\ cliStage = "global" /\ cliAt > Len(line)
    /\ UNCHANGED <<line, root>>
    /\ IF rest = <<>> THEN Done(NONE) /\ UNCHANGED <<effects, passed>>
       ELSE IF IsHelp(rest[1]) THEN Done(NONE) /\ UNCHANGED <<effects, passed>>
       ELSE IF \E name \in DOMAIN VERBS : Begins(name)
       THEN LET name == CHOOSE name \in DOMAIN VERBS : Begins(name)
                args == SubSeq(rest, Len(VERBS[name].words) + 1, Len(rest))
            IN  IF AsksHelp(args)
                THEN Done(NONE) /\ UNCHANGED <<effects, passed>>
                ELSE /\ Go("parse") /\ verb' = name /\ rest' = args /\ cliAt' = 1
                     /\ UNCHANGED <<global, parsed, dashed, effects, passed>>
       ELSE Usage

\* parse, one round of its loop and what follows it.
Value(name) ==      \* the last one given
    LET given == SelectSeq(parsed.values, LAMBDA v : v[1] = name)
    IN  IF given = <<>> THEN Word(NONE) ELSE Last(given)[2]
Positional(arg) == parsed' = [parsed EXCEPT !.positional = Append(@, arg)] /\ cliAt' = cliAt + 1
Keep(name, text) == parsed' = [parsed EXCEPT !.values = Append(@, <<name, text>>)]
Parse ==
    /\ cliStage = "parse" /\ cliAt <= Len(rest)
    /\ UNCHANGED <<line, root>>
    /\ LET arg == rest[cliAt] IN
       \/ /\ dashed \/ (arg.name \notin FLAGS /\ arg # Dashes)
          /\ Positional(arg)
          /\ UNCHANGED <<cliStage, global, rest, verb, dashed, effects, passed, error, status>>
       \/ /\ ~dashed /\ arg = Dashes
          /\ dashed' = TRUE /\ cliAt' = cliAt + 1
          /\ UNCHANGED <<cliStage, global, rest, verb, parsed, effects, passed, error, status>>
       \/ /\ ~dashed /\ arg # Dashes /\ arg.name \in FLAGS
          /\ IF arg.name \notin VERBS[verb].flags \/ (arg.value = NONE /\ cliAt = Len(rest))
             THEN Usage
             ELSE /\ IF arg.value # NONE THEN Keep(arg.name, Word(arg.value)) /\ cliAt' = cliAt + 1
                                         ELSE Keep(arg.name, rest[cliAt + 1]) /\ cliAt' = cliAt + 2
                  /\ UNCHANGED <<cliStage, global, rest, verb, dashed, effects, passed, error, status>>
Parsed ==
    /\ cliStage = "parse" /\ cliAt > Len(rest)
    /\ UNCHANGED <<line, root>>
    /\ IF \E name \in VERBS[verb].required : Value(name) = Word(NONE)
       THEN Usage
       ELSE Go("log") /\ UNCHANGED <<cliAt, global, rest, verb, parsed, dashed, effects, passed>>

\* log_to and monitor: the files are created before the verb looks at its arguments.
LogTo ==
    /\ cliStage = "log"
    /\ UNCHANGED <<line, root, passed>>
    /\ \/ /\ Go("monitor") /\ UNCHANGED <<cliAt, global, rest, verb, parsed, dashed>>
          /\ effects' = IF global.log_file = NONE THEN effects ELSE effects \union {"log file"}
       \/ global.log_file # NONE /\ Done("io") /\ UNCHANGED effects
Monitor ==
    /\ cliStage = "monitor"
    /\ UNCHANGED <<line, root, passed>>
    /\ \/ /\ global.event_monitor \in {NONE, "path", "fd"}
          /\ Go("checks") /\ UNCHANGED <<cliAt, global, rest, verb, parsed, dashed>>
          /\ effects' = IF global.event_monitor = "path" THEN effects \union {"event file"} ELSE effects
       \/ global.event_monitor = "path" /\ Done("io") /\ UNCHANGED effects
       \/ global.event_monitor \notin {NONE, "path"} /\ Done("usage") /\ UNCHANGED effects

\* What each verb refuses of its arguments.
BadNumber(name) == Value(name) \notin {Word(NONE), Word("5")}     \* parse_scaled and parse
BadFormat == Value("--format") \notin {Word(NONE), Word("json")}
Count == Len(parsed.positional)
Refused ==
    \/ verb \in {"build", "list", "check"} /\ Count > 0
    \/ verb \in {"inspect", "verify", "rm"} /\ Count # 1
    \/ verb = "run" /\ Count = 0
    \/ verb \in {"build", "list", "inspect"} /\ BadFormat
    \/ verb = "build" /\ \E name \in {"--memory", "--vcpus", "--ready-timeout"} : BadNumber(name)
    \/ verb = "run" /\ \E name \in {"--timeout", "--ready-timeout"} : BadNumber(name)
ChecksLast == Go(IF verb = "check" THEN "act" ELSE "open")
ChecksArguments == IF Refused THEN Exit("usage") ELSE ChecksLast
Checks ==
    /\ cliStage = "checks"
    /\ ChecksArguments
    /\ UNCHANGED <<line, root, cliAt, global, rest, verb, parsed, dashed, effects, passed>>

\* open_store: TemplateStore::open creates the directories of the store.
OpenStore ==
    /\ cliStage = "open"
    /\ UNCHANGED <<line, root, passed>>
    /\ \/ /\ Go("act") /\ UNCHANGED <<cliAt, global, rest, verb, parsed, dashed>>
          /\ effects' = effects \union {"store"}
       \/ \E made \in {{}, {"store"}} : effects' = effects \union made /\ Done("store")

\* A verb that is one call of the store.
Ends(effect) ==
    \/ Done(NONE) /\ effects' = effects \union effect
    \/ Done("engine") /\ UNCHANGED effects
TemplateBuild == cliStage = "act" /\ verb = "build" /\ Ends({"template"}) /\ UNCHANGED <<line, root, passed>>
TemplateList == cliStage = "act" /\ verb = "list" /\ Ends({}) /\ UNCHANGED <<line, root, passed>>
TemplateInspect == cliStage = "act" /\ verb = "inspect" /\ Ends({}) /\ UNCHANGED <<line, root, passed>>
TemplateRm == cliStage = "act" /\ verb = "rm" /\ Ends({"removed"}) /\ UNCHANGED <<line, root, passed>>

\* template_verify: the digest is compared when the meta can be read, the registration is
\* tried whatever came of them.
Registration == {"stamp", "shape"}
TemplateVerify ==
    /\ cliStage = "act" /\ verb = "verify"
    /\ \E meta, digest, register \in BOOLEAN :
          LET good == (IF meta THEN {"meta"} ELSE {}) \union (IF meta /\ digest THEN {"digest"} ELSE {})
                      \union (IF register THEN Registration ELSE {})
              ok == meta /\ digest /\ register
          IN  /\ meta \/ ~digest
              /\ passed' = good
              /\ Exit(IF ok THEN NONE ELSE "failed")
    /\ UNCHANGED <<line, root, cliAt, global, rest, verb, parsed, dashed, effects>>

\* run_verb: the sandbox is started, runs the command, and its end is the program's.
RunCommand ==
    /\ cliStage = "act" /\ verb = "run"
    /\ \/ Done("engine") /\ UNCHANGED effects
       \/ \E reason \in {"not-found", "permission", "format", "other"} :
             Done(reason) /\ effects' = effects \union {"sandbox"}
       \/ \E exited \in {0, 1, 3} :
             /\ cliStage' = "exited" /\ error' = NONE /\ status' = exited
             /\ effects' = effects \union {"sandbox"}
             /\ UNCHANGED <<cliAt, global, rest, verb, parsed, dashed>>
    /\ UNCHANGED <<line, root, passed>>

\* check_verb, one check a step: the first that fails ends it.
Longest == root + 5 + 12 + 4 + 10 + 1     \* <root>/run/<id>/vs_<port> and the NUL
CHECKS == <<"kvm", "zcat", "cpio", "store", "sockets", "kernel">>
CheckVerb ==
    /\ cliStage = "act" /\ verb = "check"
    /\ UNCHANGED line
    /\ IF CHECKS[cliAt - Len(rest)] = "store" THEN root' \in ROOTS ELSE UNCHANGED root
    /\ LET name == CHECKS[cliAt - Len(rest)] IN
       \/ /\ name # "kernel" \/ Value("--kernel") # Word(NONE)
          /\ name = "sockets" => Longest <= SUN_PATH
          /\ passed' = passed \union {name}
          /\ effects' = IF name = "store" THEN effects \union {"root"} ELSE effects
          /\ IF name = "kernel" THEN Exit(NONE) /\ UNCHANGED cliAt ELSE Go("act") /\ cliAt' = cliAt + 1
          /\ UNCHANGED <<global, rest, verb, parsed, dashed>>
       \/ /\ name = "kernel" /\ Value("--kernel") = Word(NONE)
          /\ Done(NONE) /\ UNCHANGED <<effects, passed>>
       \/ /\ name = "sockets" => Longest > SUN_PATH
          /\ name # "kernel" \/ Value("--kernel") # Word(NONE)
          /\ UNCHANGED passed
          /\ \E left \in IF name = "store" THEN {{}, {"root"}, {"root", "probe"}} ELSE {{}} :
                effects' = effects \union left /\ Done("check")

Next ==
    \/ TakeGlobal \/ Dispatch \/ Parse \/ Parsed \/ LogTo \/ Monitor \/ Checks \/ OpenStore
    \/ TemplateBuild \/ TemplateList \/ TemplateInspect \/ TemplateRm \/ TemplateVerify
    \/ RunCommand \/ CheckVerb

-----------------------------------------------------------------------------
Running == cliStage \in {"log", "monitor", "checks", "open", "act"} \/ (cliStage = "exited" /\ effects # {})

\* What follows `--` is the command's alone: parse hands over every argument behind it as it
\* was given, in order, with none taken as a flag of the program or of the verb - unless that
\* `--` was itself taken as the value of a flag.
CommandUntouched ==
    Running =>
        \A i \in 1..Len(line) :
            line[i] = Dashes /\ (\A j \in 1..(i - 1) : line[j] # Dashes) =>
                \/ dashed /\ IsSuffix(SubSeq(line, i + 1, Len(line)), parsed.positional)
                \/ Dashes.name \in {global.log_file, global.event_monitor}
                \/ \E k \in 1..Len(parsed.values) : parsed.values[k][2] = Dashes

\* A command line refused as a usage error, or asking for help, touches no store and starts
\* nothing: run_verb and the template verbs look at all their arguments before open_store.
UsageTouchesNothing ==
    cliStage = "exited" /\ (error = "usage" \/ verb = NONE) => effects \subseteq {"log file", "event file"}

\* A store root `check` passes is one a sandbox can bind its sockets under: bind_stream names
\* them <run_root>/<id>/vs_<port> with a port of at most 10 digits, and bind takes a path
\* shorter than SUN_PATH.
SocketsFit ==
    "sockets" \in passed => \A digits \in 4..10 : root + 4 + 1 + 12 + 1 + 2 + 1 + digits < SUN_PATH

\* Exit code 0 of check and verify means everything looked at held, with no probe left behind.
PassMeansPassed ==
    cliStage = "exited" /\ status = 0 =>
        /\ "probe" \notin effects
        /\ verb = "verify" => passed = {"meta", "digest"} \union Registration
        /\ verb = "check" => {"kvm", "zcat", "cpio", "store", "sockets"} \subseteq passed
                             /\ (Value("--kernel") = Word(NONE) \/ "kernel" \in passed)

CliSound == CommandUntouched /\ UsageTouchesNothing /\ SocketsFit /\ PassMeansPassed
=============================================================================
