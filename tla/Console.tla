------------------------------ MODULE Console -------------------------------
(***************************************************************************)
(* The window of a master or of a client: the numbered menus of            *)
(* src/src/app/MenuConsole.cpp, which turn answers into command lines, the *)
(* raw command loops of src/src/app/ConsoleApp.cpp, and the words and the  *)
(* numbers of arguments in which the kernel takes such a line.             *)
(*                                                                         *)
(* One action is one line read (MenuConsole::readLine, std::getline), with *)
(* everything up to the next one; letter case is left out.  The window     *)
(* separates and trims at space, tab and the ends of lines, the kernel at  *)
(* vertical blanks (\v, \f) too.  So a line is the words the kernel reads, *)
(* and whether there are vertical blanks in its first piece, as the window *)
(* cuts it, or only behind that.                                           *)
(* What a command does is left to Kernel, how it gets there to             *)
(* CommandPipeline: here it is answered, taken for an exit, or lost.       *)
(***************************************************************************)
EXTENDS Integers, Sequences

Lists == INSTANCE SequencesExt

CONSTANTS Choices,    \* the words answered to a menu
          Fields,     \* the lines answered to a question
          RawLines,   \* the lines entered as raw commands
          Tags,       \* the words that are valid memory tags
          Numbers     \* the words that consist of digits, "0" among them

(* The words the lines consist of.                                         *)
Words == UNION {{line.words[i] : i \in DOMAIN line.words} : line \in Fields \cup RawLines}

(* With no words, a line is blank or a piece of vertical blanks.           *)
Lines == {line \in [words : Seq(Words), vertical : {"none", "first", "later"}] :
             line.words = <<>> => line.vertical # "later"}

(* A line without vertical blanks.                                         *)
Line(words) == [words |-> words, vertical |-> "none"]

Blank == Line(<<>>)

ASSUME ConsoleAssumption ==
    /\ Fields \cup RawLines \subseteq Lines
    /\ Numbers \subseteq Tags

VARIABLES role,      \* role_: "MASTER" or "CLIENT"
          place,     \* the prompt the window waits at
          dialog,    \* the menu and the number of the dialog it is in, if any
          answers,   \* what was answered in this dialog so far
          sent       \* the commands executed since the last line was read

consoleVars == <<role, place, dialog, answers, sent>>

-----------------------------------------------------------------------------
(* The menus: per entry the command, what is asked for its arguments, what *)
(* is executed after it to show the effect, and whether it is repeated.    *)

Entry(name, asks, shows, repeats) ==
    [name |-> name, asks |-> asks, shows |-> shows, repeats |-> repeats]

Plain(name) == Entry(name, <<>>, <<>>, FALSE)

Dialog(name, asks) == Entry(name, asks, <<>>, FALSE)

(* executeProcessCommandAndShowTable                                       *)
WithTable(name, asks) == Entry(name, asks, <<"list_pcb">>, FALSE)

handleUserMenu ==
    <<Dialog("register", <<"required", "required">>),
      Dialog("login", <<"required", "required">>),
      Plain("logout"), Plain("whoami")>>

handleProcessMenu ==
    <<Entry("create_pcb", <<"name", "required", "required", "required", "optional">>,
            <<"list_pcb">>, TRUE),
      Plain("list_pcb"), Dialog("show_pcb", <<"required">>), Plain("ptree"),
      WithTable("block_pcb", <<"required">>), WithTable("wakeup_pcb", <<"required">>),
      WithTable("suspend", <<"required">>), WithTable("resume", <<"required">>),
      WithTable("renice", <<"required", "required">>),
      WithTable("kill_pcb", <<"required">>), Plain("readyq")>>

handleMemoryMenu ==
    <<Entry("alloc", <<"tag", "size">>, <<"show_mem", "list_pcb">>, TRUE),
      Dialog("free_mem", <<"required">>), Plain("show_mem"), Plain("mem_stat"),
      Plain("compact"), Dialog("set_alloc_algo", <<"required">>),
      Dialog("pgfault", <<"optional">>), Dialog("swap_out", <<"required">>)>>

handleSchedulerMenu ==
    <<Plain("step"), Plain("start_sched"), Plain("stop_sched"), Plain("restart_sched")>>

handlePersistenceMenu == <<Plain("save"), Plain("load")>>

handleOverviewMenu == <<Plain("overview"), Plain("status")>>

handleVfsMenu ==
    <<Dialog("touch_file", <<"required">>),
      Dialog("write_file", <<"required", "content">>),
      Dialog("read_file", <<"required">>), Plain("ls_file"),
      Dialog("rm_file", <<"required">>)>>

Menus == <<"user", "process", "memory", "scheduler", "persistence", "overview", "vfs">>

Entries ==
    [user |-> handleUserMenu, process |-> handleProcessMenu,
     memory |-> handleMemoryMenu, scheduler |-> handleSchedulerMenu,
     persistence |-> handlePersistenceMenu, overview |-> handleOverviewMenu,
     vfs |-> handleVfsMenu]

Digits == <<"1", "2", "3", "4", "5", "6", "7", "8", "9", "10", "11">>

-----------------------------------------------------------------------------
(* Command lines, with the answers they are made from.                     *)

Command(name, fields) == [name |-> name, fields |-> fields, raw |-> FALSE]

(* A line entered raw is passed on as it is.                               *)
RawCommand(line) ==
    [name |-> IF line.words = <<>> THEN "" ELSE line.words[1],
     fields |-> <<line>>, raw |-> TRUE]

(* CommandDispatcher::parse: the words behind the name of a menu's command.*)
Arguments(c) == Lists!FlattenSeq([i \in DOMAIN c.fields |-> c.fields[i].words])

(* The numbers of arguments with which CommandDispatcher does not answer   *)
(* "Usage".                                                                *)
AcceptsDispatched(name, n) ==
    CASE name = "create_pcb" -> n \in {4, 5}
      [] name = "alloc" -> n \in {1, 2}
      [] name = "pgfault" -> n <= 1
      [] name \in {"register", "login", "renice"} -> n = 2
      [] name \in {"free_mem", "set_alloc_algo", "swap_out", "kill_pcb", "block_pcb",
                   "wakeup_pcb", "show_pcb", "suspend", "resume"} -> n = 1
      [] name \in {"show_mem", "mem_stat", "compact", "list_pcb", "ptree", "readyq"} -> n = 0
      [] name \in {"help", "exit", "quit", "clear", "status", "logout", "whoami"} -> TRUE
      [] OTHER -> FALSE

(* The commands that Kernel answers itself, and their numbers.             *)
AcceptsInKernel(name, n) ==
    \/ n = 0 /\ name \in {"step", "start_sched", "stop_sched", "restart_sched",
                          "save", "load", "overview", "ls_file"}
    \/ n = 1 /\ name \in {"touch_file", "read_file", "rm_file"}
    \/ n >= 2 /\ name = "write_file"

(* Mutant of Accepts: arguments too many are not noticed.                  *)
AcceptsMore(name, n) ==
    \E m \in 0 .. n : AcceptsInKernel(name, m) \/ AcceptsDispatched(name, m)

Accepts(name, n) == AcceptsInKernel(name, n) \/ AcceptsDispatched(name, n)

IsExit(c) == c.name \in {"exit", "quit"}

(* What the executor reports: the master's kernel ends on an exit; a       *)
(* client's call may fail at any time, and its exit flag is never set.     *)
executor(c) ==
    IF role = "MASTER" THEN {IF IsExit(c) THEN "shouldExit" ELSE "done"}
                       ELSE {"done", "fatalError"}

Outcomes(commands) ==
    {f \in [1 .. Len(commands) -> {"done", "shouldExit", "fatalError"}] :
        \A i \in 1 .. Len(commands) : f[i] \in executor(commands[i])}

(* All commands are executed, whatever the first ones report; then the     *)
(* window is closed or goes on at the given prompt.                        *)
Executes(commands, next) ==
    /\ sent' = commands
    /\ \E f \in Outcomes(commands) :
          place' = IF \E i \in DOMAIN f : f[i] # "done" THEN "ended" ELSE next

GoesOn(next) == sent' = <<>> /\ place' = next

-----------------------------------------------------------------------------
ConsoleInit ==
    /\ role \in {"MASTER", "CLIENT"}
    /\ place \in {"main", "raw"}    \* menus only in an interactive terminal
    /\ dialog = <<>>
    /\ answers = <<>>
    /\ sent = <<>>

MainMenu(word) ==
    /\ place = "main"
    /\ \/ \E i \in DOMAIN Menus : word = Digits[i] /\ GoesOn(Menus[i])
       \/ word = "8" /\ GoesOn("raw")
       \/ word = "0" /\ GoesOn("confirm")
       \/ word \notin {Digits[i] : i \in 1 .. 8} \cup {"0"} /\ GoesOn("main")
    /\ UNCHANGED <<role, dialog, answers>>

(* The end of the input counts as a yes.                                   *)
confirmExit(confirmed) ==
    /\ place = "confirm"
    /\ \/ ~confirmed /\ GoesOn("main")
       \/ /\ confirmed
          /\ sent' = IF role = "MASTER" THEN <<Command("exit", <<>>)>> ELSE <<>>
          /\ place' = "ended"
    /\ UNCHANGED <<role, dialog, answers>>

(* A submenu: back, one of its entries, or an invalid choice.              *)
Submenu(word) ==
    /\ place \in DOMAIN Entries
    /\ LET menu == Entries[place]
       IN  \/ /\ word = "0"
              /\ GoesOn("main") /\ UNCHANGED dialog
           \/ \E i \in DOMAIN menu :
                 /\ word = Digits[i]
                 /\ \/ /\ menu[i].asks = <<>>
                       /\ Executes(<<Command(menu[i].name, <<>>)>>, place)
                       /\ UNCHANGED dialog
                    \/ /\ menu[i].asks # <<>>
                       /\ dialog' = <<place, i>>
                       /\ GoesOn("asked")
           \/ /\ word \notin {Digits[i] : i \in DOMAIN menu} \cup {"0"}
              /\ GoesOn(place) /\ UNCHANGED dialog
    /\ UNCHANGED <<role, answers>>

-----------------------------------------------------------------------------
(* The questions of a dialog.                                              *)

CurrentEntry == Entries[dialog[1]][dialog[2]]

NextAsk == CurrentEntry.asks[Len(answers) + 1]

AnyOf(words, line) == \E word \in words : line = Line(<<word>>)

(* Mutant of Valid: an empty answer is taken for an answer.                *)
ValidOrEmpty(ask, line) ==
    CASE ask = "tag" -> AnyOf(Tags, line)
      [] ask = "size" -> AnyOf(Numbers \ {"0"}, line)
      [] OTHER -> TRUE

(* A piece of vertical blanks is an answer here, if not to the kernel.     *)
Valid(ask, line) ==
    CASE ask = "optional" -> TRUE
      [] ask = "tag" -> AnyOf(Tags, line)
      [] ask = "size" -> AnyOf(Numbers \ {"0"}, line)
      [] OTHER -> line # Blank

(* 0 instead of a name leaves a repeated dialog.                           *)
Leaves(ask, line) == ask \in {"name", "tag"} /\ line = Line(<<"0">>)

LeaveDialog == dialog' = <<>> /\ answers' = <<>>

AnswerLeaves(line) ==
    /\ place = "asked"
    /\ Leaves(NextAsk, line)
    /\ GoesOn(dialog[1])
    /\ LeaveDialog
    /\ UNCHANGED role

(* An invalid answer cancels the dialog; a repeated one begins again.      *)
AnswerInvalid(line) ==
    /\ place = "asked"
    /\ ~Valid(NextAsk, line)
    /\ IF CurrentEntry.repeats
       THEN GoesOn("asked") /\ answers' = <<>> /\ UNCHANGED dialog
       ELSE GoesOn(dialog[1]) /\ LeaveDialog
    /\ UNCHANGED role

AnswerOne(line) ==
    /\ place = "asked"
    /\ Valid(NextAsk, line) /\ ~Leaves(NextAsk, line)
    /\ Len(answers) + 1 < Len(CurrentEntry.asks)
    /\ answers' = Append(answers, line)
    /\ GoesOn("asked")
    /\ UNCHANGED <<role, dialog>>

(* The last answer: the command is put together and executed.              *)
AnswerLast(line) ==
    /\ place = "asked"
    /\ Valid(NextAsk, line) /\ ~Leaves(NextAsk, line)
    /\ Len(answers) + 1 = Len(CurrentEntry.asks)
    /\ LET command == Command(CurrentEntry.name, Append(answers, line))
           shows == [i \in DOMAIN CurrentEntry.shows |-> Command(CurrentEntry.shows[i], <<>>)]
       IN  Executes(<<command>> \o shows,
                    IF CurrentEntry.repeats THEN "again" ELSE dialog[1])
    /\ answers' = <<>>
    /\ dialog' = IF CurrentEntry.repeats THEN dialog ELSE <<>>
    /\ UNCHANGED role

Repeat(again) ==
    /\ place = "again"
    /\ IF again THEN GoesOn("asked") /\ UNCHANGED dialog
                ELSE GoesOn(dialog[1]) /\ dialog' = <<>>
    /\ UNCHANGED <<role, answers>>

-----------------------------------------------------------------------------
(* The raw command loops.                                                  *)

(* Mutant of isLocalExitCommand: quit is forgotten.                        *)
isLocalExit(line) == line.vertical # "first" /\ line.words[1] = "exit"

(* The window looks at the first piece as it cuts the line: with vertical  *)
(* blanks in it, that is neither word.                                     *)
isLocalExitCommand(line) ==
    line.vertical # "first" /\ line.words[1] \in {"exit", "quit"}

(* Mutant of RawLine: the kernel's exit does not end the loop.             *)
RawLineForEver(line) ==
    /\ place = "raw"
    /\ line # Blank
    /\ \/ /\ role = "CLIENT" /\ isLocalExitCommand(line)
          /\ GoesOn("ended")
       \/ /\ ~(role = "CLIENT" /\ isLocalExitCommand(line))
          /\ sent' = <<RawCommand(line)>>
          /\ place' \in {"raw"} \cup (IF role = "CLIENT" THEN {"ended"} ELSE {})
    /\ UNCHANGED <<role, dialog, answers>>

(* A blank line is skipped; a client keeps to itself the exit it sees.     *)
RawLine(line) ==
    /\ place = "raw"
    /\ \/ /\ line = Blank
          /\ GoesOn("raw")
       \/ /\ line # Blank
          /\ role = "CLIENT" /\ isLocalExitCommand(line)
          /\ GoesOn("ended")
       \/ /\ line # Blank
          /\ ~(role = "CLIENT" /\ isLocalExitCommand(line))
          /\ Executes(<<RawCommand(line)>>, "raw")
    /\ UNCHANGED <<role, dialog, answers>>

(* The input ends: the window does, without executing anything more.       *)
EndOfInput ==
    /\ place \notin {"confirm", "ended"}
    /\ GoesOn("ended")
    /\ UNCHANGED <<role, dialog, answers>>

-----------------------------------------------------------------------------
ConsoleNext ==
    \/ \E word \in Choices : MainMenu(word) \/ Submenu(word)
    \/ \E yes \in BOOLEAN : confirmExit(yes) \/ Repeat(yes)
    \/ \E line \in Fields :
          AnswerLeaves(line) \/ AnswerInvalid(line) \/ AnswerOne(line) \/ AnswerLast(line)
    \/ \E line \in RawLines : RawLine(line)
    \/ EndOfInput

ConsoleSpec == ConsoleInit /\ [][ConsoleNext]_consoleVars

-----------------------------------------------------------------------------
Sent == {sent[i] : i \in DOMAIN sent}

(* The kernel finds words in every answer that is not blank.               *)
HasWords(c) ==
    \A i \in DOMAIN c.fields : c.fields[i] # Blank => c.fields[i].words # <<>>

OneWordEach(c) ==
    HasWords(c) /\ \A i \in DOMAIN c.fields : Len(c.fields[i].words) <= 1

(* The exits that isLocalExitCommand does not see.                         *)
Unseen(c) == c.raw /\ c.fields[1].vertical = "first"

(* A client sends an exit, which ends the master's worker under everybody, *)
(* only raw and behind a vertical blank: no menu, dialog or confirmation   *)
(* sends one, nor does any other spelling of a raw line.                   *)
ClientExitsUnseen ==
    role = "CLIENT" => \A c \in Sent : IsExit(c) => Unseen(c)

(* After an exit the master's console submits nothing more: the worker     *)
(* ends, and the answer to anything behind the exit would not come.        *)
NothingAfterExit ==
    \A i \in DOMAIN sent : role = "MASTER" /\ IsExit(sent[i])
        => i = Len(sent) /\ place = "ended"

(* The menus and the kernel agree about every command: when each answer is *)
(* a single word, no command a menu puts together is refused for its name  *)
(* or its number of arguments, whatever optional answers were left out.    *)
MenuUnderstood ==
    \A c \in Sent : ~c.raw /\ OneWordEach(c)
        => Accepts(c.name, Len(Arguments(c)))

(* An answer of several words never shifts the others into the wrong       *)
(* argument unnoticed: the kernel refuses the line.  create_pcb, with its  *)
(* optional argument, and write_file, with its free text, are excepted:    *)
(* there it may happen.  So it may beside an answer of vertical blanks     *)
(* only, which the window counts and the kernel does not.                  *)
NoShiftedAnswer ==
    \A c \in Sent :
        /\ ~c.raw /\ HasWords(c) /\ c.name \notin {"create_pcb", "write_file"}
        /\ Accepts(c.name, Len(Arguments(c)))
        => OneWordEach(c)
=============================================================================
