-------------------------------- MODULE MCShell --------------------------------
(***************************************************************************)
(* Small instances of HoneyPotShell: every command alone, and the lines    *)
(* that put several shells and commands on the stack.                      *)
(***************************************************************************)
EXTENDS HoneyPotShell

Cmd(name) == [name |-> name, sub |-> <<>>]
With(name, sub) == [name |-> name, sub |-> sub]
Add(cmds) == [do |-> "add", cmds |-> cmds]
Sub(cmds) == [do |-> "sub", cmds |-> cmds]
SyntaxStop == [do |-> "stop", cmds |-> <<>>]
BadToken == [do |-> "bad", cmds |-> <<>>]
One(name) == <<Add(<<Cmd(name)>>)>>

(* Commands with the same rules behave alike: one of each kind. *)
Plain == DOMAIN CommandTable \ {"sh_c", "sudo", "busybox"}
Kinds == {{name \in Plain : Rules(name) = rules} : rules \in {Rules(name) : name \in Plain}}
Alone == {One(CHOOSE name \in kind : TRUE) : kind \in Kinds} \cup {One("notfound")}

Sleep == Cmd("sleep")
Cat == Cmd("cat")
Exit == Cmd("exit")
Ls == Cmd("ls")

Composed ==
  {<<>>, <<Add(<<>>)>>, <<BadToken>>, <<SyntaxStop>>,
   <<Add(<<Sleep>>), Add(<<Ls>>)>>,
   <<Add(<<Sleep, Exit>>)>>,
   <<Add(<<Ls, Cat>>)>>,
   <<Add(<<Sleep, Cat>>), Add(<<>>)>>,
   <<Add(<<Cmd("notfound")>>), Add(<<Ls>>)>>,
   <<Sub(<<Sleep>>), Add(<<Ls>>)>>,
   <<Sub(<<Exit>>), Add(<<Ls>>)>>,
   <<Sub(<<Exit>>), Sub(<<Exit>>)>>,
   <<Sub(<<Cmd("printf")>>), Add(<<Ls>>)>>,
   <<Add(<<With("sh_c", One("sleep"))>>), Add(<<Ls>>)>>,
   <<Add(<<With("sh_c", One("exit"))>>)>>,
   One("sh_c"),
   <<Add(<<With("sudo", <<Cmd("passwd")>>)>>)>>,
   <<Add(<<Ls, With("sudo", <<Cat>>)>>)>>,
   <<Add(<<With("busybox", <<Sleep>>), Cat>>)>>,
   <<Add(<<Ls, With("sh", One("ls"))>>)>>,
   <<Add(<<Cmd("passwd"), Cmd("passwd")>>)>>,
   <<Add(<<Cmd("ssh")>>), Add(<<Cmd("passwd")>>)>>}

MCLines == Alone \cup Composed

(* What makes sessions differ once a first command is there: one that returns, waits, reads,     *)
(* ends the session, starts a shell of its own, or is followed by another.                       *)
MCLaterLines ==
  {One("ls"), One("sleep"), One("passwd"), One("exit"), <<Add(<<Ls, Cat>>)>>,
   <<Add(<<Sleep>>), Add(<<Ls>>)>>, <<Add(<<With("sh_c", One("sleep"))>>), Add(<<Ls>>)>>}

(* Every command alone, and those of the compound lines that are given something to run. *)
MCInvocations ==
  {Cmd(name) : name \in DOMAIN CommandTable \cup {"notfound"}}
    \cup {With("sh_c", One("sleep")), With("sh_c", One("exit")), With("sh", One("ls")),
          With("sudo", <<Cmd("passwd")>>), With("sudo", <<Cat>>), With("busybox", <<Sleep>>)}

MCExecLines ==
  {One("ls"), One("sleep"), One("notfound"), One("ping"), <<Add(<<>>), Add(<<Sleep>>)>>,
   <<Add(<<Ls, Cat>>), Add(<<Cmd("notfound")>>)>>, <<Add(<<Sleep>>), Add(<<Ls>>)>>,
   <<Add(<<Ls>>), Add(<<>>)>>, <<Sub(<<Ls>>), Add(<<Sleep>>)>>, <<Sub(<<Ls>>)>>, <<BadToken>>}
=============================================================================
