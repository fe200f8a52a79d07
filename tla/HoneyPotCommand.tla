--------------------------- MODULE HoneyPotCommand ---------------------------
(***************************************************************************)
(* The commands of the emulated shell, as tables of transitions.  A rule   *)
(* says what an object of a class of cowrie/commands does on an event: the *)
(* operations on the session, in the order of the code, and the phase it   *)
(* is in while and after it does them.  HoneyPotShell interprets them.     *)
(*                                                                         *)
(* Events: "start", "line" (a typed line), "ctrlC", "ctrlD", "fire" (a     *)
(* timer or a Deferred of the command), "error" (its errback).             *)
(*                                                                         *)
(* Operations:                                                             *)
(*   out, term    write through the pipe protocol, or on the terminal      *)
(*   exit         HoneyPotCommand.exit                                     *)
(*   end          terminal.transport.processEnded: the session is to close *)
(*   echoOff/On   protocol.password_input                                  *)
(*   arm, cancel  a reactor.callLater or a pending Deferred of the command *)
(*   raise        an exception; try: what it raises below is swallowed     *)
(*   user         needs protocol.user, which is None after the session     *)
(*   queue        the typed line goes to the pending commands              *)
(*   pop, run, interactive, insert, chain: see HoneyPotShell               *)
(* A command that waits is one whose script does not exit.                 *)
(***************************************************************************)
LOCAL INSTANCE Sequences

On(event, at, script, to) == [on |-> event, at |-> at, do |-> script, to |-> to]

(* A rule for every phase, which it does not change. *)
Always(event, script) == On(event, "any", script, "same")

(* start runs call, unless the output cannot be redirected, and exits. *)
Call(scripts) == {On("start", "any", s \o <<"exit">>, "done") : s \in scripts \cup {<<>>}}

\* Mutant: CTRL-C does not exit.
HoneyPotCommandStays ==
  {Always("line", <<"queue">>), Always("ctrlC", <<"out">>), Always("ctrlD", <<>>)}
HoneyPotCommand ==
  {Always("line", <<"queue">>), Always("ctrlC", <<"out", "exit">>), Always("ctrlD", <<>>)}

(* A class: its own handlers, and those it inherits. *)
Class(rules) == rules \cup {r \in HoneyPotCommand : \A own \in rules : own.on # r.on}

Called(scripts) == Class(Call(scripts))

(* Start scripts for an object without, or with, data piped into it. *)
Bare(scripts) == {On("start", "new", s, "new") : s \in scripts}
Fed(scripts) == {On("start", "fed", s, "fed") : s \in scripts}
Start(scripts) == Bare(scripts) \cup Fed(scripts)

(* A filter: reads files or its input and exits, or else reads typed lines until CTRL-D. *)
Reader(scripts, bare, fed) ==
  Class(Start(scripts) \cup Bare(bare) \cup Fed(fed)
          \cup {Always("line", <<"out">>), Always("ctrlD", <<"exit">>)})
-----------------------------------------------------------------------------
(* bash.py, sudo.py, busybox.py: the commands that work on the stack itself. *)

Command_sh(dashC) ==
  Class(IF dashC THEN Start({<<"run", "exit">>})
                 ELSE Bare({<<"interactive">>}) \cup Fed({<<"run", "exit">>}))

Command_exit == Class({On("start", "any", <<"pop", "exit">>, "done")})

Command_sudo == Class(Bare({<<"insert", "exit">>}) \cup Fed({<<"insert", "out", "exit">>}))

Command_busybox ==
  Class(Bare({<<"insert", "chain", "exit">>}) \cup Fed({<<"insert", "chain", "out", "exit">>}))

(* start is a generator that nothing runs; CTRL-C only writes. *)
Command_nc == Class(Start({<<>>}) \cup {Always("line", <<>>), Always("ctrlC", <<"out">>)})
=============================================================================
