-------------------------- MODULE SusuCommandLine --------------------------
(***************************************************************************)
(* One process from its arguments to its exit status (main.go, cli.go):    *)
(* help before anything else, the environment, the command, its flags, the *)
(* call of the service, and the report of what the call committed.         *)
(*                                                                         *)
(* What a call commits is counted per group of the report; the service is  *)
(* free to commit anything and to fail as well, except that a path add is  *)
(* given must exist before it stores the first one.                        *)
(***************************************************************************)
EXTENDS Integers, Sequences, SequencesExt

CONSTANTS
    Words,      \* arguments a shell may pass
    Files,      \* those that name an existing file
    MaxArgs,    \* bound of the model: arguments
    MaxDone     \* bound of the model: paths of one group

Commands == {"init", "add", "rm", "ls", "list", "show", "apply", "completion"}
HelpFlags == {"-h", "--help"}
Shells == {"bash", "zsh"}
Groups == <<"added", "updated", "already managed">>

VARIABLES
    argv, home,      \* arguments; whether HOME and XDG variables are usable
    at,
    sensitive, operands,   \* what the flags of the command say
    call,            \* the service call made, or "none"
    result, failed,  \* paths committed per group; whether the call failed
    printed,         \* lines on standard output
    broken,          \* standard output failed
    status           \* exit status

vars == <<argv, home, at, sensitive, operands, call, result, failed, printed,
          broken, status>>
parsed == <<argv, home, sensitive, operands>>
service == <<call, result, failed>>

Nothing == [g \in Range(Groups) |-> 0]

Init ==
    /\ argv \in SeqOf(Words, MaxArgs) /\ home \in BOOLEAN
    /\ at = "Start"
    /\ sensitive = FALSE /\ operands = <<>>
    /\ call = "none" /\ result = Nothing /\ failed = FALSE
    /\ printed = <<>> /\ broken = FALSE
    /\ status = 0

Exit(code) == at' = "Exited" /\ status' = code

Fails == Exit(1) /\ UNCHANGED <<parsed, service, printed, broken>>
Succeeds == Exit(0) /\ UNCHANGED <<parsed, service, printed, broken>>

-----------------------------------------------------------------------------
(* PrintHelpIfRequested, before the environment is looked at.              *)
HelpRequested ==
    \/ Len(argv) = 1 /\ argv[1] \in HelpFlags \union {"help"}
    \/ Len(argv) = 2 /\ argv[1] \in Commands /\ argv[2] \in HelpFlags

Help == at = "Start" /\ HelpRequested /\ Succeeds

Environment ==
    /\ at = "Start" /\ ~HelpRequested
    /\ \/ ~home /\ Fails
       \/ home /\ at' = "Dispatch"
          /\ UNCHANGED <<parsed, service, printed, broken, status>>

(* Package flag: flags end at the first other argument, or after "--".     *)
IsFlag(word) == word \in HelpFlags \union {"--sensitive", "-x"}

(* Index of the first argument after the flags of a command.               *)
Rest == CHOOSE i \in 2..(Len(argv) + 1) :
            /\ \A j \in 2..(i - 1) : IsFlag(argv[j])
            /\ i <= Len(argv) => ~IsFlag(argv[i])

Flags == {argv[j] : j \in 2..(Rest - 1)}
Known == HelpFlags \union (IF argv[1] = "add" THEN {"--sensitive"} ELSE {})

(* The flag Parse stops at: a request for help, or one it does not know.   *)
StopsAt == SelectInSeq(argv, LAMBDA word :
              word \in HelpFlags \/ (IsFlag(word) /\ word \notin Known))

Operands ==
    SubSeq(argv, IF Rest <= Len(argv) /\ argv[Rest] = "--" THEN Rest + 1
                 ELSE Rest, Len(argv))

(* Fault: the number of operands is not checked.                           *)
ArityAny(command, n) == TRUE

Arity(command, n) ==
    CASE command \in {"init", "show", "completion"} -> n = 1
      [] command \in {"add", "rm"} -> n >= 1
      [] OTHER -> n = 0

Stops == StopsAt # 0 /\ StopsAt < Rest

Dispatch ==
    /\ at = "Dispatch"
    /\ \/ /\ argv = <<>>
          /\ at' = "Call"
          /\ UNCHANGED <<parsed, service, printed, broken, status>>
       \/ argv # <<>> /\ argv[1] \in HelpFlags \union {"help"} /\ Succeeds
       \/ /\ argv # <<>>
          /\ argv[1] \notin Commands \union HelpFlags \union {"help"} /\ Fails
       \/ /\ argv # <<>> /\ argv[1] \in Commands
          /\ \/ Stops /\ argv[StopsAt] \in HelpFlags /\ Succeeds
             \/ Stops /\ argv[StopsAt] \notin HelpFlags /\ Fails
             \/ /\ ~Stops
                /\ \/ ~Arity(argv[1], Len(Operands)) /\ Fails
                   \/ /\ Arity(argv[1], Len(Operands))
                      /\ operands' = Operands
                      /\ sensitive' = ("--sensitive" \in Flags)
                      /\ at' = "Call"
                      /\ UNCHANGED <<argv, home, service, printed, broken,
                                     status>>

-----------------------------------------------------------------------------
Command == IF argv = <<>> THEN "overview" ELSE argv[1]

(* Fault: a path that does not exist is passed over.                       *)
AllExistAny == TRUE

(* collectCandidates: every input is inspected before the first is stored. *)
AllExist == \A i \in DOMAIN operands : operands[i] \in Files

(* The groups a command reports: three for add, one for the others.        *)
GroupsOf(command) == IF command = "add" THEN Range(Groups) ELSE {"added"}

(* Init, List and Overview return nothing with an error.                   *)
Call ==
    /\ at = "Call" /\ Command # "completion"
    /\ call' = Command
    /\ result' \in [Range(Groups) -> 0..MaxDone]
    /\ \A g \in Range(Groups) : result'[g] > 0 => g \in GroupsOf(Command)
    /\ failed' \in BOOLEAN
    /\ Command = "add" /\ ~AllExist => result' = Nothing /\ failed'
    /\ failed' /\ Command \in {"init", "ls", "list", "overview"}
          => result' = Nothing
    /\ at' = "Report"
    /\ UNCHANGED <<parsed, printed, broken, status>>

(* runCompletion calls nothing.                                            *)
Completion ==
    /\ at = "Call" /\ Command = "completion"
    /\ \/ operands[1] \notin Shells /\ Fails
       \/ /\ operands[1] \in Shells
          /\ result' = [Nothing EXCEPT !["added"] = 1]
          /\ at' = "Report"
          /\ UNCHANGED <<parsed, call, failed, printed, broken, status>>

(* The lines of the report: one group after the other.                     *)
LinesOf(r, g) == [i \in 1..r[g] |-> g]
Lines(r) == LinesOf(r, "added") \o LinesOf(r, "updated")
               \o LinesOf(r, "already managed")

(* Fault: an error is returned before the report.                          *)
ReportSuccess ==
    /\ at = "Report"
    /\ IF failed THEN Fails
       ELSE /\ printed' = Lines(result) /\ Exit(0)
            /\ UNCHANGED <<parsed, service, broken>>

(* The report comes first, then the error of the call; a line that cannot  *)
(* be written ends the report, and its error is returned.                  *)
Report ==
    /\ at = "Report"
    /\ \/ /\ Len(printed) < Len(Lines(result))
          /\ printed' = SubSeq(Lines(result), 1, Len(printed) + 1)
          /\ UNCHANGED <<parsed, service, at, broken, status>>
       \/ /\ Len(printed) < Len(Lines(result))
          /\ broken' = TRUE /\ Exit(1)
          /\ UNCHANGED <<parsed, service, printed>>
       \/ /\ Len(printed) = Len(Lines(result))
          /\ Exit(IF failed THEN 1 ELSE 0)
          /\ UNCHANGED <<parsed, service, printed, broken>>

Next == Help \/ Environment \/ Dispatch \/ Call \/ Completion \/ Report

Spec == Init /\ [][Next]_vars

-----------------------------------------------------------------------------
(* Types of the variables.                                                 *)
TypeOK ==
    /\ argv \in Seq(Words) /\ home \in BOOLEAN
    /\ at \in {"Start", "Dispatch", "Call", "Report", "Exited"}
    /\ sensitive \in BOOLEAN /\ operands \in Seq(Words)
    /\ call \in Commands \union {"none", "overview"}
    /\ result \in [Range(Groups) -> 0..MaxDone]
    /\ failed \in BOOLEAN /\ broken \in BOOLEAN /\ status \in 0..1
    /\ printed \in Seq(Range(Groups))
    /\ at = "Call" /\ Command \in {"init", "show"} => Len(operands) = 1
    /\ at = "Call" /\ Command \in {"apply", "ls"} => operands = <<>>

(* Wherever --sensitive stands on the command line of add, nothing is      *)
(* stored in public: after the first path it is taken for a path, which    *)
(* must exist before anything is stored.                                   *)
SensitiveIsNeverPublic ==
    /\ Len(argv) > 1 /\ call = "add" /\ result["added"] > 0
    /\ \E i \in DOMAIN argv : argv[i] = "--sensitive"
    => sensitive

(* What a call committed is reported, in the order of the groups, also     *)
(* when the call failed (docs/reference.md:189); status 0 means that       *)
(* nothing failed and every line was written.                              *)
StatusTellsAll ==
    at = "Exited" /\ call # "none" =>
        /\ ~broken => printed = Lines(result)
        /\ status = 0 <=> ~failed /\ ~broken
============================================================================
