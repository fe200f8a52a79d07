----------------------------- MODULE HoneyPotShell -----------------------------
(***************************************************************************)
(* One session of the emulated shell: HoneyPotBaseProtocol with its stack  *)
(* of shells and commands, HoneyPotShell, the pipes between commands, and  *)
(* the timers of commands that take time.                                  *)
(*                                                                         *)
(* A method that calls others, which call back into it, is a stack of      *)
(* frames, "todo": what is left to do, innermost first.  The reactor       *)
(* delivers its next event when nothing is left.  An exception unwinds the *)
(* frames to one that catches it; an event of the connection has "input"   *)
(* at the bottom, a timer "later", a Deferred "deferred".                  *)
(*                                                                         *)
(* A typed line is a sequence of elements: a command with its pipe ("add", *)
(* cmds = <<>> if there are only assignments), a (..) or $(..) that is run *)
(* while the line is read ("sub"), a syntax error at which reading stops   *)
(* ("stop") or that raises ("bad").  An invocation is [name, sub], where   *)
(* sub is the line or the command it is given to run.                      *)
(***************************************************************************)
EXTENDS Commands, Naturals, SequencesExt

CONSTANTS
  Invocations, \* commands with their arguments
  Lines,       \* what the attacker may type first
  LaterLines,  \* and after that, a bound on the variety of later lines
  ExecLines,   \* what an exec request may hold
  MaxInputs,   \* bound on lines and control keys
  MaxObjects   \* bound on shells and commands alive at once

VARIABLES
  conn,            \* "open"; "closing" after processEnded; "closed" after connectionLost
  interactive,     \* HoneyPotInteractiveProtocol, or HoneyPotExecProtocol
  objs,            \* the HoneyPotShell and HoneyPotCommand objects
  cmdstack,        \* their stack, bottom first
  pp,              \* the pipe protocol of the last command called
  todo,
  password_input,
  prompt,          \* a prompt was shown since the shell last got a line
  inputs,          \* history: what was typed, up to MaxInputs
  raised,          \* history: an exception ended more than the handler that raised it
  stray,           \* history: a shell was to be popped, and something else was
  shared           \* history: two commands that hide typing were alive at once

(* What sudo and busybox are given to run was looked up before. *)
NotFound == [name |-> "notfound", sub |-> <<>>]
Runnable == Invocations \ {NotFound}
LineElement == [do : {"add", "sub", "stop", "bad"}, cmds : Seq(Invocations)]

(* shlex.split of a line that was typed ahead: it knows pipes, but a semicolon and what follows *)
(* it are arguments, and a parenthesis is part of a name.                                       *)
Words(line) == SelectSeq(line, LAMBDA e : e.do # "add" \/ e.cmds # <<>>)
PipedTo(e) == IF Len(e.cmds) < 2 THEN <<>> ELSE IF e.do = "add" THEN Tail(e.cmds) ELSE <<NotFound>>
Queued(line) ==
  LET words == Words(line)
  IN IF words = <<>> THEN <<>>
     ELSE IF words[1].do # "add" THEN <<NotFound>>
     ELSE <<words[1].cmds[1]>> \o FlattenSeq([k \in DOMAIN words |-> PipedTo(words[k])])

ASSUME ShellAssumption ==
  /\ MaxInputs \in Nat /\ MaxObjects \in Nat \ {0}
  /\ \A c \in Invocations :
       /\ c \in [name : DOMAIN CommandTable \cup {"notfound"}, sub : Seq(Invocations) \cup Seq(LineElement)]
       /\ c.name = "notfound" <=> c = NotFound
       /\ c.name \in {"sudo", "busybox"} => c.sub \in Seq(Runnable)
       /\ c.name \in {"sh", "sh_c"} => c.sub \in Seq(LineElement)
  /\ Lines \cup LaterLines \cup ExecLines \subseteq Seq(LineElement)
  /\ \A line \in Lines \cup LaterLines \cup {<<>>} : Queued(line) \in Seq(Invocations)

vars == <<conn, interactive, objs, cmdstack, pp, todo, password_input, prompt, inputs, raised, stray, shared>>
hist == <<interactive, inputs>>

Ids == 1..MaxObjects
Object(cls, inter, at, sub) ==
  [cls |-> cls, inter |-> inter, at |-> at, sub |-> sub, pending |-> <<>>, timers |-> 0]
Shell(inter) == Object("shell", inter, "", <<>>)
Command(cmd, fed) == Object(cmd.name, FALSE, IF fed THEN "fed" ELSE "new", cmd.sub)
NoObject == Object("none", FALSE, "", <<>>)
NoPP == [owner |-> 0, next |-> <<>>, fed |-> FALSE]

Frame(f, id, x) == [f |-> f, id |-> id, x |-> x]
At(f) == todo # <<>> /\ Head(todo).f = f
Self == Head(todo).id
Rest == Tail(todo)
Then(frames) == todo' = frames \o Rest
Return == Then(<<>>)
Raise == Then(<<Frame("raise", 0, <<>>)>>)

IsShell(i) == objs[i].cls = "shell"
Alive(i) == i \in ToSet(cmdstack) \/ objs[i].timers > 0
Unused == {i \in Ids : ~Alive(i) /\ \A k \in DOMAIN todo : todo[k].id # i}
NewId == CHOOSE i \in Unused : TRUE

(* The classes that set protocol.password_input, of which there is one for all of them. *)
Hiding == {cls \in DOMAIN CommandTable : \E r \in Rules(cls) : "echoOff" \in ToSet(r.do)}

(* showPrompt: a shell that is not interactive shows none. *)
Prompts(i) == prompt \/ objs[i].inter
ProcessEnded == IF conn = "open" THEN "closing" ELSE conn

(* What a command's handlers do on an event, and the phase they leave it in. *)
Handlers(i, event) ==
  {r \in Rules(objs[i].cls) : r.on = event /\ r.at \in {"any", objs[i].at}}
Handled(i, r) == [objs EXCEPT ![i].at = IF r.to = "same" THEN @ ELSE r.to]
Script(i, ops) == IF ops = <<>> THEN <<>> ELSE <<Frame("do", i, ops)>>
-----------------------------------------------------------------------------
(* HoneyPotShell.lineReceived, one element of the line at a time. *)
Element == Head(Head(todo).x)
NextElement == Frame("lex", Self, Tail(Head(todo).x))
Reads(what) == At("lex") /\ Head(todo).x # <<>> /\ Element.do = what

LexCommand ==
  /\ Reads("add")
  /\ objs' = [objs EXCEPT ![Self].pending = Append(@, Element.cmds)]
  /\ Then(<<NextElement>>)
  /\ UNCHANGED <<conn, hist, cmdstack, pp, password_input, prompt, raised, stray, shared>>

(* _execute_single_command_with_redirect: a new shell reads the command and is popped. *)
LexSubshell ==
  /\ Reads("sub") /\ Unused # {}
  /\ objs' = [objs EXCEPT ![NewId] = Shell(FALSE)]
  /\ cmdstack' = Append(cmdstack, NewId)
  /\ Then(<<Frame("lex", NewId, <<[do |-> "add", cmds |-> Element.cmds]>>),
            Frame("pop", NewId, <<>>), NextElement>>)
  /\ UNCHANGED <<conn, hist, pp, password_input, prompt, raised, stray, shared>>

LexStops ==
  /\ Reads("stop")
  /\ Then(<<Frame("lex", Self, <<>>)>>)
  /\ UNCHANGED <<conn, hist, objs, cmdstack, pp, password_input, prompt, raised, stray, shared>>

LexFails ==
  /\ Reads("bad")
  /\ objs' = [objs EXCEPT ![Self].pending = <<>>]
  /\ prompt' = Prompts(Self)
  /\ Return
  /\ UNCHANGED <<conn, hist, cmdstack, pp, password_input, raised, stray, shared>>

LexEnds ==
  /\ At("lex") /\ Head(todo).x = <<>>
  /\ IF objs[Self].pending # <<>>
     THEN Then(<<Frame("run", Self, <<>>)>>) /\ UNCHANGED prompt
     ELSE Return /\ prompt' = Prompts(Self)
  /\ UNCHANGED <<conn, hist, objs, cmdstack, pp, password_input, raised, stray, shared>>

(* cmdstack.pop(), meant for the shell that has just read its line. *)
PopShell ==
  /\ At("pop") /\ cmdstack # <<>>
  /\ stray' = (stray \/ Last(cmdstack) # Self)
  /\ cmdstack' = Front(cmdstack)
  /\ Return
  /\ UNCHANGED <<conn, hist, objs, pp, password_input, prompt, raised, shared>>

PopNothing ==
  /\ At("pop") /\ cmdstack = <<>> /\ Raise
  /\ UNCHANGED <<conn, hist, objs, cmdstack, pp, password_input, prompt, raised, stray, shared>>
-----------------------------------------------------------------------------
(* HoneyPotShell.runCommand *)
Pending == objs[Self].pending
\* Mutant: nothing is shown when nothing is left to run.
RunOrNothing(more) ==
  IF more # <<>> THEN Then(<<Frame("run", Self, <<>>)>>) /\ UNCHANGED prompt
                 ELSE Return /\ UNCHANGED prompt
RunOrPrompt(more) ==
  IF more # <<>> THEN Then(<<Frame("run", Self, <<>>)>>) /\ UNCHANGED prompt
                 ELSE Return /\ prompt' = Prompts(Self)

(* Nothing is pending: prompt, end a session that has only this shell, or leave it to a pipe. *)
RunNothing ==
  /\ At("run") /\ Pending = <<>>
  /\ prompt' = IF pp.next = <<>> THEN Prompts(Self) ELSE prompt
  /\ conn' = IF pp.next = <<>> /\ ~objs[Self].inter /\ Len(cmdstack) = 1
             THEN ProcessEnded ELSE conn
  /\ Return
  /\ UNCHANGED <<hist, objs, cmdstack, pp, password_input, raised, stray, shared>>

RunAssignment ==
  /\ At("run") /\ Pending # <<>> /\ Head(Pending) = <<>>
  /\ objs' = [objs EXCEPT ![Self].pending = Tail(@)]
  /\ RunOrPrompt(Tail(Pending))
  /\ UNCHANGED <<conn, hist, cmdstack, pp, password_input, raised, stray, shared>>

(* One unknown command in a pipe and nothing of the pipe is run. *)
RunUnknown ==
  /\ At("run") /\ Pending # <<>> /\ NotFound \in ToSet(Head(Pending))
  /\ objs' = [objs EXCEPT ![Self].pending = Tail(@)]
  /\ conn' = IF ~interactive /\ Tail(Pending) = <<>> THEN ProcessEnded ELSE conn
  /\ RunOrPrompt(Tail(Pending))
  /\ UNCHANGED <<hist, cmdstack, pp, password_input, raised, stray, shared>>

RunPipe ==
  /\ At("run") /\ Pending # <<>> /\ Head(Pending) # <<>> /\ NotFound \notin ToSet(Head(Pending))
  /\ objs' = [objs EXCEPT ![Self].pending = Tail(@)]
  /\ Then(<<Frame("call", 0, Head(Pending))>>)
  /\ UNCHANGED <<conn, hist, cmdstack, pp, password_input, prompt, raised, stray, shared>>
-----------------------------------------------------------------------------
(* HoneyPotBaseProtocol.call_command.  The command copies the environment of the top of the stack. *)
Piped == [owner |-> NewId, next |-> Tail(Head(todo).x), fed |-> FALSE]

CallCommand ==
  /\ At("call") /\ cmdstack # <<>> /\ Unused # {}
  /\ LET new == Command(Head(Head(todo).x), pp.fed /\ Self = pp.owner)
     IN \E r \in Rules(new.cls) :
          /\ r.on = "start" /\ r.at \in {"any", new.at}
          /\ objs' = [objs EXCEPT ![NewId] = [new EXCEPT !.at = IF r.to = "same" THEN @ ELSE r.to]]
          /\ Then(Script(NewId, r.do) \o <<Frame("lost", 0, <<>>)>>)
          /\ shared' = (shared \/ (new.cls \in Hiding /\ \E i \in Ids : Alive(i) /\ objs[i].cls \in Hiding))
  /\ cmdstack' = Append(cmdstack, NewId)
  /\ pp' = Piped
  /\ UNCHANGED <<conn, hist, password_input, prompt, raised, stray>>

CallOnNothing ==
  /\ At("call") /\ cmdstack = <<>>
  /\ pp' = [owner |-> 0, next |-> Tail(Head(todo).x), fed |-> FALSE]
  /\ Raise
  /\ UNCHANGED <<conn, hist, objs, cmdstack, password_input, prompt, raised, stray, shared>>

(* StdOutStdErrEmulationProtocol.outConnectionLost, on whatever protocol.pp is by now. *)
OutConnectionLost ==
  /\ At("lost")
  /\ Then(IF pp.next = <<>> THEN <<>> ELSE <<Frame("call", pp.owner, pp.next)>>)
  /\ UNCHANGED <<conn, hist, objs, cmdstack, pp, password_input, prompt, raised, stray, shared>>
-----------------------------------------------------------------------------
(* The operations of the commands' handlers (see HoneyPotCommand). *)
Doing(op) == At("do") /\ Head(Head(todo).x) = op
After == Script(Self, Tail(Head(todo).x))
Finish == Then(After)

(* outReceived: what a command writes is the input of the next one of its pipe. *)
DoWrite ==
  /\ Doing("out") /\ Finish
  /\ pp' = IF conn # "closed" /\ pp.owner = Self /\ pp.next # <<>> THEN [pp EXCEPT !.fed = TRUE] ELSE pp
  /\ UNCHANGED <<conn, hist, objs, cmdstack, password_input, prompt, raised, stray, shared>>

\* Mutant: what is next on the stack is not resumed.
DoExitUnresumed ==
  /\ Doing("exit") /\ Self \in ToSet(cmdstack)
  /\ cmdstack' = RemoveFirst(cmdstack, Self)
  /\ Finish
  /\ UNCHANGED <<conn, hist, objs, pp, password_input, prompt, raised, stray, shared>>

(* HoneyPotCommand.exit: the new top of the stack is resumed, a shell runs what is pending. *)
DoExit ==
  /\ Doing("exit") /\ Self \in ToSet(cmdstack)
  /\ cmdstack' = RemoveFirst(cmdstack, Self)
  /\ Then(IF cmdstack' # <<>> /\ IsShell(Last(cmdstack'))
          THEN <<Frame("run", Last(cmdstack'), <<>>)>> \o After ELSE After)
  /\ UNCHANGED <<conn, hist, objs, pp, password_input, prompt, raised, stray, shared>>

DoExitAlone ==
  /\ Doing("exit") /\ cmdstack = <<>> /\ Finish
  /\ conn' = ProcessEnded
  /\ UNCHANGED <<hist, objs, cmdstack, pp, password_input, prompt, raised, stray, shared>>

(* list.remove of what is no longer there. *)
DoExitAgain ==
  /\ Doing("exit") /\ cmdstack # <<>> /\ Self \notin ToSet(cmdstack) /\ Raise
  /\ UNCHANGED <<conn, hist, objs, cmdstack, pp, password_input, prompt, raised, stray, shared>>

DoEnd ==
  /\ Doing("end") /\ conn # "closed" /\ Finish
  /\ conn' = ProcessEnded
  /\ UNCHANGED <<hist, objs, cmdstack, pp, password_input, prompt, raised, stray, shared>>

DoTerminal ==
  /\ Doing("term") /\ conn # "closed" /\ Finish
  /\ UNCHANGED <<conn, hist, objs, cmdstack, pp, password_input, prompt, raised, stray, shared>>

(* terminal and user are None once the connection is lost; "sh -c" looks at the first character *)
(* of the line it is given, also when it is given none.                                          *)
NoLine == objs[Self].cls = "sh_c" /\ objs[Self].sub = <<>>
DoFail ==
  /\ \/ Doing("raise")
     \/ Doing("run") /\ NoLine
     \/ \E op \in {"end", "term", "user"} : Doing(op) /\ conn = "closed"
  /\ Raise
  /\ UNCHANGED <<conn, hist, objs, cmdstack, pp, password_input, prompt, raised, stray, shared>>

DoUser ==
  /\ Doing("user") /\ conn # "closed" /\ Finish
  /\ UNCHANGED <<conn, hist, objs, cmdstack, pp, password_input, prompt, raised, stray, shared>>

DoTry ==
  /\ Doing("try")
  /\ Then(After \o <<Frame("try", 0, <<>>)>>)
  /\ UNCHANGED <<conn, hist, objs, cmdstack, pp, password_input, prompt, raised, stray, shared>>

DoEcho ==
  /\ \E op \in {"echoOff", "echoOn"} : Doing(op) /\ password_input' = (op = "echoOff")
  /\ Finish
  /\ UNCHANGED <<conn, hist, objs, cmdstack, pp, prompt, raised, stray, shared>>

DoTimer ==
  /\ \/ Doing("arm") /\ objs' = [objs EXCEPT ![Self].timers = @ + 1]
     \/ Doing("cancel") /\ objs' = [objs EXCEPT ![Self].timers = 0]
  /\ Finish
  /\ UNCHANGED <<conn, hist, cmdstack, pp, password_input, prompt, raised, stray, shared>>

(* HoneyPotCommand.lineReceived: shlex.split of the line, for the shell at the bottom. *)
Received == Last(todo).x
DoQueue ==
  /\ Doing("queue") /\ IsShell(cmdstack[1])
  /\ IF \E k \in DOMAIN Received : Received[k].do = "bad"
     THEN UNCHANGED objs /\ Raise
     ELSE objs' = [objs EXCEPT ![cmdstack[1]].pending = Append(@, Queued(Received))] /\ Finish
  /\ UNCHANGED <<conn, hist, cmdstack, pp, password_input, prompt, raised, stray, shared>>

\* Mutant: pop(0) for pop(-2).
DoPopBottom ==
  /\ Doing("pop") /\ Len(cmdstack) > 1 /\ Finish
  /\ cmdstack' = Tail(cmdstack)
  /\ conn' = IF Len(cmdstack) < 3 THEN ProcessEnded ELSE conn
  /\ UNCHANGED <<hist, objs, pp, password_input, prompt, raised, stray, shared>>

(* Command_exit: cmdstack.pop(-2), meant for the shell it was typed to. *)
DoPop ==
  /\ Doing("pop") /\ Len(cmdstack) > 1 /\ Finish
  /\ LET below == Len(cmdstack) - 1
     IN /\ stray' = (stray \/ ~IsShell(cmdstack[below]))
        /\ cmdstack' = RemoveAt(cmdstack, below)
        /\ conn' = IF below < 2 THEN ProcessEnded ELSE conn
  /\ UNCHANGED <<hist, objs, pp, password_input, prompt, raised, shared>>

(* Command_sh.execute_commands: a shell on top of the command reads the line and is popped. *)
DoRun ==
  /\ Doing("run") /\ ~NoLine /\ Unused # {}
  /\ objs' = [objs EXCEPT ![NewId] = Shell(FALSE)]
  /\ cmdstack' = Append(cmdstack, NewId)
  /\ Then(<<Frame("lex", NewId, objs[Self].sub), Frame("pop", NewId, <<>>)>> \o After)
  /\ UNCHANGED <<conn, hist, pp, password_input, prompt, raised, stray, shared>>

(* Command_sh.interactive_shell: the shell takes the command's place. *)
DoInteractive ==
  /\ Doing("interactive") /\ Unused # {} /\ Finish
  /\ objs' = [objs EXCEPT ![NewId] = Shell(TRUE)]
  /\ cmdstack' = RemoveFirst(Append(cmdstack, NewId), Self)
  /\ prompt' = TRUE
  /\ UNCHANGED <<conn, hist, pp, password_input, raised, stray, shared>>

(* insert_command, on the command's own pipe or whatever protocol.pp is by now. *)
DoInsert ==
  /\ Doing("insert") /\ Finish
  /\ pp' = [pp EXCEPT !.next = objs[Self].sub \o @, !.fed = (objs[Self].at = "fed")]
  /\ UNCHANGED <<conn, hist, objs, cmdstack, password_input, prompt, raised, stray, shared>>

DoChain ==
  /\ Doing("chain")
  /\ Then(<<Frame("lost", 0, <<>>)>> \o After)
  /\ UNCHANGED <<conn, hist, objs, cmdstack, pp, password_input, prompt, raised, stray, shared>>
-----------------------------------------------------------------------------
(* Exceptions: what runs next is the innermost frame that catches one. *)
Thrown(f) == At("raise") /\ Rest # <<>> /\ Head(Rest).f = f

Propagate ==
  /\ At("raise") /\ Rest # <<>> /\ Head(Rest).f \notin {"lex", "try", "deferred", "later", "input"}
  /\ todo' = <<Head(todo)>> \o Tail(Rest)
  /\ raised' = TRUE
  /\ UNCHANGED <<conn, hist, objs, cmdstack, pp, password_input, prompt, stray, shared>>

(* The loop over the tokens reports any exception as a syntax error, and forgets the line. *)
SyntaxError ==
  /\ Thrown("lex")
  /\ LET sh == Head(Rest).id
     IN /\ objs' = [objs EXCEPT ![sh].pending = <<>>]
        /\ prompt' = Prompts(sh)
  /\ todo' = Tail(Rest)
  /\ raised' = TRUE
  /\ UNCHANGED <<conn, hist, cmdstack, pp, password_input, stray, shared>>

Swallowed ==
  /\ Thrown("try")
  /\ todo' = Tail(Rest)
  /\ UNCHANGED <<conn, hist, objs, cmdstack, pp, password_input, prompt, raised, stray, shared>>

TryEnds ==
  /\ At("try") /\ Return
  /\ UNCHANGED <<conn, hist, objs, cmdstack, pp, password_input, prompt, raised, stray, shared>>

Errback ==
  /\ Thrown("deferred")
  /\ LET i == Head(Rest).id
     IN \E r \in Handlers(i, "error") :
          objs' = Handled(i, r) /\ todo' = Script(i, r.do) \o <<Frame("later", i, <<>>)>>
  /\ UNCHANGED <<conn, hist, cmdstack, pp, password_input, prompt, raised, stray, shared>>

(* Twisted logs the exception of a delayed call; of an input event it may also drop the connection. *)
Logged ==
  /\ Thrown("later") \/ Thrown("input")
  /\ todo' = Rest
  /\ raised' = TRUE
  /\ UNCHANGED <<conn, hist, objs, cmdstack, pp, password_input, prompt, stray, shared>>

\* Mutant: the stack is not emptied.
ConnectionLostKeepsStack ==
  /\ conn' = "closed"
  /\ UNCHANGED cmdstack
  /\ pp' = NoPP

ConnectionLost ==
  /\ conn' = "closed"
  /\ cmdstack' = <<>>
  /\ pp' = NoPP

Dropped ==
  /\ Thrown("input")
  /\ ConnectionLost
  /\ todo' = Rest
  /\ raised' = TRUE
  /\ UNCHANGED <<hist, objs, password_input, prompt, stray, shared>>
-----------------------------------------------------------------------------
(* Events of the connection, which the reactor delivers one at a time. *)
Idle == todo = <<>>
Typed == IF inputs = 0 THEN Lines ELSE LaterLines
Receives == Idle /\ interactive /\ conn # "closed" /\ inputs < MaxInputs /\ inputs' = inputs + 1
Top == Last(cmdstack)

(* HoneyPotBaseProtocol.lineReceived *)
LineToShell ==
  /\ Receives /\ cmdstack # <<>> /\ IsShell(Top)
  /\ \E line \in Typed : todo' = <<Frame("lex", Top, line), Frame("input", 0, <<>>)>>
  /\ prompt' = FALSE
  /\ UNCHANGED <<conn, interactive, objs, cmdstack, pp, password_input, raised, stray, shared>>

LineToCommand ==
  /\ Receives /\ cmdstack # <<>> /\ ~IsShell(Top)
  /\ \E line \in Typed, r \in Handlers(Top, "line") :
       /\ objs' = Handled(Top, r)
       /\ todo' = Script(Top, r.do) \o <<Frame("input", 0, line)>>
  /\ UNCHANGED <<conn, interactive, cmdstack, pp, password_input, prompt, raised, stray, shared>>

LineDiscarded ==
  /\ Receives /\ cmdstack = <<>>
  /\ conn' = ProcessEnded
  /\ UNCHANGED <<interactive, objs, cmdstack, pp, todo, password_input, prompt, raised, stray, shared>>

(* A control key goes to the top of the stack; frame "input" remembers whom CTRL-C was for. *)
Key(event) ==
  \E r \in Handlers(Top, event) :
    /\ objs' = Handled(Top, r)
    /\ todo' = Script(Top, r.do) \o <<Frame("input", IF event = "ctrlC" THEN Top ELSE 0, <<>>)>>

ControlKey ==
  /\ Receives /\ cmdstack # <<>> /\ ~IsShell(Top)
  /\ \E event \in {"ctrlC", "ctrlD"} : Key(event)
  /\ UNCHANGED <<conn, interactive, cmdstack, pp, password_input, prompt, raised, stray, shared>>

CtrlCToShell ==
  /\ Receives /\ cmdstack # <<>> /\ IsShell(Top)
  /\ prompt' = Prompts(Top)
  /\ UNCHANGED <<conn, interactive, objs, cmdstack, pp, todo, password_input, raised, stray, shared>>

CtrlDToShell ==
  /\ Receives /\ cmdstack # <<>> /\ IsShell(Top)
  /\ conn' = ProcessEnded
  /\ UNCHANGED <<interactive, objs, cmdstack, pp, todo, password_input, prompt, raised, stray, shared>>

(* eofReceived, timeoutConnection: both end the process, and no command hears of it. *)
EofOrTimeout ==
  /\ Idle /\ conn = "open"
  /\ conn' = "closing"
  /\ UNCHANGED <<hist, objs, cmdstack, pp, todo, password_input, prompt, raised, stray, shared>>

(* LoggingServerProtocol.connectionLost is called up to four times. *)
Disconnect ==
  /\ Idle /\ ConnectionLost
  /\ objs' = [i \in Ids |-> IF objs[i].timers > 0 THEN objs[i] ELSE NoObject]
  /\ UNCHANGED <<hist, todo, password_input, prompt, raised, stray, shared>>

(* A callLater or a Deferred of a command, on the stack or not, session or none. *)
Fires(i) ==
  /\ Idle /\ objs[i].timers > 0
  /\ \E r \in Handlers(i, "fire") :
       /\ objs' = [Handled(i, r) EXCEPT ![i].timers = @ - 1]
       /\ todo' = Script(i, r.do)
                  \o <<Frame(IF Handlers(i, "error") = {} THEN "later" ELSE "deferred", i, <<>>)>>
  /\ UNCHANGED <<conn, hist, cmdstack, pp, password_input, prompt, raised, stray, shared>>

(* Back in the reactor: objects that nothing refers to are gone. *)
ToReactor ==
  /\ Len(todo) = 1 /\ Head(todo).f \in {"input", "later", "deferred"}
  /\ Return
  /\ objs' = [i \in Ids |-> IF Alive(i) THEN objs[i] ELSE NoObject]
  /\ pp' = IF pp.owner # 0 /\ Alive(pp.owner) THEN pp ELSE [pp EXCEPT !.owner = 0, !.fed = FALSE]
  /\ UNCHANGED <<conn, hist, cmdstack, password_input, prompt, raised, stray, shared>>

(* connectionMade: an interactive session begins at the prompt, an exec request with its line. *)
Init ==
  /\ conn = "open"
  /\ interactive \in BOOLEAN
  /\ objs = [i \in Ids |-> IF i = 1 THEN Shell(interactive) ELSE NoObject]
  /\ cmdstack = <<1>>
  /\ pp = NoPP
  /\ \/ interactive /\ todo = <<>>
     \/ ~interactive /\ \E line \in ExecLines : todo = <<Frame("lex", 1, line), Frame("later", 0, <<>>)>>
  /\ password_input = FALSE
  /\ prompt = interactive
  /\ inputs = 0
  /\ raised = FALSE
  /\ stray = FALSE
  /\ shared = FALSE

Step ==
  \/ LexCommand \/ LexSubshell \/ LexStops \/ LexFails \/ LexEnds \/ PopShell \/ PopNothing
  \/ RunNothing \/ RunAssignment \/ RunUnknown \/ RunPipe
  \/ CallCommand \/ CallOnNothing \/ OutConnectionLost
  \/ DoWrite \/ DoExit \/ DoExitAlone \/ DoExitAgain \/ DoEnd \/ DoTerminal \/ DoFail \/ DoUser
  \/ DoTry \/ DoEcho \/ DoTimer \/ DoQueue \/ DoPop \/ DoRun \/ DoInteractive \/ DoInsert \/ DoChain
  \/ Propagate \/ SyntaxError \/ Swallowed \/ TryEnds \/ Errback \/ Logged \/ Dropped \/ ToReactor

Next ==
  \/ Step
  \/ LineToShell \/ LineToCommand \/ LineDiscarded \/ ControlKey \/ CtrlCToShell \/ CtrlDToShell
  \/ EofOrTimeout \/ Disconnect
  \/ \E i \in Ids : Fires(i)

Spec == Init /\ [][Next]_vars

(* A method runs to its end, and what is scheduled is called: the reactor calls what is due in   *)
(* each of its iterations, however many timers of dead commands keep it busy as well.            *)
FairSpec ==
  /\ Spec /\ WF_vars(Step)
  /\ \A i \in Ids : WF_vars(Fires(i))
  /\ SF_vars(\E i \in ToSet(cmdstack) : Fires(i))
-----------------------------------------------------------------------------
(* The stack holds objects that exist, each once; the pipe and the frames belong to some of them. *)
TypeOK ==
  /\ conn \in {"open", "closing", "closed"}
  /\ \A i \in Ids : objs[i].cls \in DOMAIN CommandTable \cup {"shell", "none"} /\ objs[i].timers \in Nat
  /\ cmdstack \in Seq(Ids) /\ IsInjective(cmdstack)
  /\ \A i \in ToSet(cmdstack) : objs[i].cls # "none"
  /\ pp.owner \in Ids \cup {0} /\ pp.fed \in BOOLEAN
  /\ \A k \in DOMAIN todo : todo[k].id \in Ids \cup {0}
  /\ {interactive, password_input, prompt, raised, stray, shared} \subseteq BOOLEAN
  /\ inputs \in 0..MaxInputs

(* HoneyPotCommand.lineReceived appends typed-ahead lines to cmdstack[0].cmdpending: whatever is *)
(* popped and removed in whatever order, the bottom of the stack has such a list.  "Sometimes    *)
(* client is disconnected and command exits after": no late timer puts anything on the stack of *)
(* a session that is over.                                                                       *)
BottomIsShell == Idle /\ cmdstack # <<>> => conn # "closed" /\ IsShell(cmdstack[1])

(* runOrPrompt and resume: between two events an interactive session either runs a command or    *)
(* shows the prompt of its innermost shell, which has run all it was given.                      *)
PromptOrBusy ==
  Idle /\ conn = "open" /\ interactive /\ cmdstack # <<>> /\ ~raised /\ ~stray /\ IsShell(Top)
    => objs[Top].inter /\ prompt /\ objs[Top].pending = <<>>

(* handle_CTRL_C exits: once it is over, whatever was popped and raised on the way, the command  *)
(* no longer reads the input.  nc only writes.                                                   *)
InterruptFrees ==
  Len(todo) = 1 /\ Head(todo).f = "input" /\ Head(todo).id # 0
    => Head(todo).id \notin ToSet(cmdstack) \/ objs[Head(todo).id].cls = "nc"

(* characterReceived echoes unless password_input: while a command that asks for a password is   *)
(* the one that reads the input, and is at that question, typing is not shown.  The flag is one  *)
(* for the session: in a session where a second command that sets it was called while a first    *)
(* one was alive ("passwd | passwd"), the first to finish shows what the other one asks for.     *)
(* adduser, which asks for two passwords as well, is left out: its phase "password" is also that *)
(* of the time after the first answer, in which nothing is asked and typing is shown.            *)
AsksPassword(i) ==
  \/ objs[i].cls = "passwd" /\ objs[i].at \in {"new", "again"}
  \/ objs[i].cls = "ssh" /\ objs[i].at = "wait"
PasswordsAreHidden ==
  Idle /\ conn = "open" /\ cmdstack # <<>> /\ ~shared /\ AsksPassword(Top) => password_input

(* Something on the stack waits for more than its own timers: for a line, for the network, or    *)
(* for CTRL-C.                                                                                    *)
Timed(i) == objs[i].cls \in {"sleep", "ping"} /\ objs[i].at # "endless"
RunsThrough(i) == \A r \in Rules(objs[i].cls) : r.on = "start" => r.do # <<>> /\ Last(r.do) = "exit"
Waiting == \E i \in ToSet(cmdstack) : ~IsShell(i) /\ ~Timed(i) /\ ~RunsThrough(i)

(* resume: commands that wait for nothing but their own timers are followed by the prompt, or by *)
(* a command that was piped to or typed ahead and does wait, or the session ends.                *)
PromptReturns ==
  (conn = "open" /\ interactive) ~> (Idle /\ prompt) \/ conn # "open" \/ raised \/ stray \/ Waiting

(* An exec request whose last part to run is a command, where its commands wait for nothing but  *)
(* their timers, ends its session without the 60 seconds of its timeout.  One that ends in an    *)
(* assignment ("ls; A=1"), and one that is empty or cannot be read, waits for that timeout.      *)
EndsInCommand ==
  At("run") /\ Self = 1 /\ objs[1].pending # <<>> /\ Last(objs[1].pending) # <<>>
ExecEnds ==
  ~interactive /\ EndsInCommand ~> conn # "open" \/ raised \/ stray \/ Waiting

(* resume: sessions go on to their prompt or their end, unless they wait for more than timers.    *)
SessionsGoOn == PromptReturns /\ ExecEnds
=============================================================================
