------------------------------ MODULE ShellProofs ------------------------------
(***************************************************************************)
(* Theorems about HoneyPotShell, for all lines that may be typed, any      *)
(* number of inputs and of objects: the types of its variables, that the   *)
(* bottom of the stack is a shell, that CTRL-C frees the input, that       *)
(* typing is hidden while a password is asked for, and that an interactive *)
(* session shows its prompt or runs a command.                             *)
(***************************************************************************)
EXTENDS HoneyPotShell, SequenceTheorems, TLAPS

-----------------------------------------------------------------------------
(* What every class of cowrie/commands keeps to.                           *)

\* What most commands do: nothing to the stack but exit, nothing to the pipe
\* but write, nothing to the echo.
CalmOps == {"out", "term", "exit", "end", "arm", "cancel", "raise", "try", "user"}
Op == CalmOps \cup {"queue", "echoOff", "echoOn", "pop", "run", "interactive", "insert", "chain"}
Event == {"start", "line", "ctrlC", "ctrlD", "fire", "error"}
Phase == {"", "any", "same", "new", "fed", "done", "again", "yesno", "wait", "finish", "adding",
          "password", "question", "more", "last", "endless", "resolving", "request", "body", "over"}
Rule == [on : Event, at : Phase, do : Seq(Op), to : Phase]

Interrupts(script) ==
  /\ \A k \in 1 .. Len(script) : script[k] \in {"out", "cancel", "exit"}
  /\ \E k \in 1 .. Len(script) : script[k] = "exit"

Queues(r) == r.on = "line" /\ r.do = <<"queue">>
CalmRule(r) ==
  /\ r \in Rule
  /\ r.do \in Seq(CalmOps) \/ Queues(r)
  /\ r.on = "ctrlC" => Interrupts(r.do)
Calm(rules) == \A r \in rules : CalmRule(r)

\* The operations a class may use, and when: only as exit does is anything
\* popped, and only a start puts something else on the stack or in the pipe,
\* before it does anything else.
Fits(cls, op) ==
  /\ op \in {"pop"} => cls = "exit"
  /\ op \in {"insert", "chain"} => cls \in {"sudo", "busybox"}
  /\ op \in {"run", "interactive"} => cls \in {"sh", "sh_c"}
  /\ op \in {"echoOff", "echoOn"} => cls \in {"passwd", "ssh", "adduser"}
Opening == {"queue", "run", "interactive", "insert", "pop"}
Allowed(cls, event, script) ==
  \A k \in 1 .. Len(script) :
    /\ Fits(cls, script[k])
    /\ script[k] \in {"insert", "chain", "run", "interactive", "pop"} => event = "start"
    /\ script[k] = "queue" => event = "line"
    /\ script[k] \in Opening => k = 1
    /\ script[k] = "pop" => script = <<"pop", "exit">>
    /\ script[k] = "run" => script = <<"run", "exit">>
SoundRule(cls, r) ==
  /\ r \in Rule
  /\ Allowed(cls, r.on, r.do)
  /\ r.on = "ctrlC" /\ cls \notin {"nc", "gcc"} => Interrupts(r.do)
  /\ r.on = "start" /\ cls = "gcc" => r.do \in {<<"exit">>, <<"out", "exit">>, <<"arm", "exit">>}
SoundClass(cls) == \A r \in Rules(cls) : SoundRule(cls, r)

LEMMA CalmRuleIsSound ==
  ASSUME NEW r, CalmRule(r), NEW cls, cls # "gcc" \/ r.on # "start"
  PROVE  SoundRule(cls, r)
<1>1. CASE r.do \in Seq(CalmOps)
  <2>1. \A k \in 1 .. Len(r.do) : r.do[k] \in CalmOps
    BY <1>1
  <2> QED BY <2>1 DEF CalmRule, CalmOps, SoundRule, Allowed, Fits, Opening
<1>2. CASE Queues(r)
  <2>1. r.on = "line" /\ Len(r.do) = 1 /\ r.do[1] = "queue" /\ \A k \in 1 .. 1 : k = 1
    BY <1>2 DEF Queues
  <2>2. Allowed(cls, r.on, r.do)
    BY <2>1 DEF Allowed, Fits, Opening
  <2> QED BY <2>1, <2>2 DEF CalmRule, SoundRule
<1> QED BY <1>1, <1>2 DEF CalmRule

LEMMA CalmIsSound ==
  ASSUME NEW cls, cls # "gcc", Calm(Rules(cls))
  PROVE  SoundClass(cls)
BY CalmRuleIsSound DEF SoundClass, Calm

LEMMA Ops ==
  /\ "out" \in CalmOps /\ "term" \in CalmOps /\ "exit" \in CalmOps /\ "end" \in CalmOps
  /\ "arm" \in CalmOps /\ "cancel" \in CalmOps /\ "raise" \in CalmOps /\ "try" \in CalmOps
  /\ "user" \in CalmOps
BY DEF CalmOps

LEMMA Scripts ==
  /\ Prints \subseteq Seq(CalmOps) /\ Stops \subseteq Seq(CalmOps) /\ Waits \subseteq Seq(CalmOps)
  /\ <<>> \in Seq(CalmOps)
  /\ \A a \in CalmOps : <<a>> \in Seq(CalmOps)
  /\ \A a, b \in CalmOps : <<a, b>> \in Seq(CalmOps)
  /\ \A a, b, c \in CalmOps : <<a, b, c>> \in Seq(CalmOps)
  /\ Seq(CalmOps) \subseteq Seq(Op)
<1>1. CalmOps \subseteq Op
  BY DEF Op
<1> QED
  BY <1>1, Ops DEF Prints, Stops, Waits

LEMMA LongScripts ==
  /\ <<"out", "exit", "out", "exit">> \in Seq(CalmOps)
  /\ <<"out", "cancel", "out", "exit">> \in Seq(CalmOps)
  /\ <<"try", "out", "exit", "raise">> \in Seq(CalmOps)
BY Ops

LEMMA InterruptScripts ==
  /\ Interrupts(<<"out", "exit">>)
  /\ Interrupts(<<"cancel", "exit">>)
  /\ Interrupts(<<"cancel", "out", "exit">>)
  /\ Interrupts(<<"out", "cancel", "out", "exit">>)
<1>1. \A k \in 1 .. 2 : k = 1 \/ k = 2
  OBVIOUS
<1>2. \A k \in 1 .. 3 : k = 1 \/ k = 2 \/ k = 3
  OBVIOUS
<1>3. \A k \in 1 .. 4 : k = 1 \/ k = 2 \/ k = 3 \/ k = 4
  OBVIOUS
<1> QED
  BY <1>1, <1>2, <1>3 DEF Interrupts

\* Their names are members, each by itself.
LEMMA Names ==
  /\ "start" \in Event /\ "line" \in Event /\ "ctrlC" \in Event /\ "ctrlD" \in Event
  /\ "fire" \in Event /\ "error" \in Event
  /\ "" \in Phase /\ "any" \in Phase /\ "same" \in Phase /\ "new" \in Phase /\ "fed" \in Phase
  /\ "done" \in Phase /\ "again" \in Phase /\ "yesno" \in Phase /\ "wait" \in Phase
  /\ "finish" \in Phase /\ "adding" \in Phase /\ "password" \in Phase /\ "question" \in Phase
  /\ "more" \in Phase /\ "last" \in Phase /\ "endless" \in Phase /\ "resolving" \in Phase
  /\ "request" \in Phase /\ "body" \in Phase /\ "over" \in Phase
BY DEF Event, Phase

LEMMA OnCalm ==
  ASSUME NEW event \in Event, event # "ctrlC", NEW at \in Phase, NEW to \in Phase,
         NEW script \in Seq(CalmOps)
  PROVE  CalmRule(On(event, at, script, to))
BY Scripts DEF CalmRule, On, Rule

LEMMA AlwaysCalm ==
  ASSUME NEW event \in Event, event # "ctrlC", NEW script \in Seq(CalmOps)
  PROVE  CalmRule(Always(event, script))
BY OnCalm DEF Always, Phase

LEMMA InterruptCalm ==
  ASSUME NEW script \in Seq(CalmOps), Interrupts(script)
  PROVE  CalmRule(Always("ctrlC", script))
BY Scripts DEF CalmRule, Always, On, Rule, Event, Phase

LEMMA InheritedCalm == Calm(HoneyPotCommand)
<1>1. CalmRule(Always("line", <<"queue">>))
  <2>1. <<"queue">> \in Seq(Op)
    BY DEF Op
  <2> QED BY <2>1, Names DEF CalmRule, Queues, Always, On, Rule
<1>3. CalmRule(Always("ctrlD", <<>>))
  BY AlwaysCalm, Scripts, Ops DEF Event
<1>2. CalmRule(Always("ctrlC", <<"out", "exit">>))
  BY InterruptCalm, InterruptScripts, Scripts, Ops
<1> QED
  BY <1>1, <1>2, <1>3 DEF Calm, HoneyPotCommand

LEMMA ClassCalm ==
  ASSUME NEW own, Calm(own)
  PROVE  Calm(Class(own))
BY InheritedCalm DEF Calm, Class

LEMMA CallCalm ==
  ASSUME NEW scripts, scripts \subseteq Seq(CalmOps)
  PROVE  Calm(Call(scripts)) /\ Calm(Called(scripts))
<1>1. ASSUME NEW s \in scripts \cup {<<>>} PROVE s \o <<"exit">> \in Seq(CalmOps)
  <2>1. s \in Seq(CalmOps) /\ <<"exit">> \in Seq(CalmOps)
    BY Scripts, Ops
  <2> QED BY <2>1, ConcatProperties
<1>2. Calm(Call(scripts))
  BY <1>1, OnCalm DEF Calm, Call, Event, Phase
<1> QED
  BY <1>2, ClassCalm DEF Called

LEMMA StartCalm ==
  ASSUME NEW scripts, scripts \subseteq Seq(CalmOps)
  PROVE  Calm(Bare(scripts)) /\ Calm(Fed(scripts)) /\ Calm(Start(scripts))
<1>1. Calm(Bare(scripts)) /\ Calm(Fed(scripts))
  BY OnCalm DEF Calm, Bare, Fed, Event, Phase
<1> QED
  BY <1>1 DEF Calm, Start

LEMMA ReaderCalm ==
  ASSUME NEW scripts, NEW bare, NEW fed, scripts \cup bare \cup fed \subseteq Seq(CalmOps)
  PROVE  Calm(Reader(scripts, bare, fed))
<1>1. CalmRule(Always("line", <<"out">>)) /\ CalmRule(Always("ctrlD", <<"exit">>))
  BY AlwaysCalm, Scripts, Ops DEF Event
<1>2. Calm(Start(scripts)) /\ Calm(Bare(bare)) /\ Calm(Fed(fed))
  BY StartCalm
<1>3. Calm(Start(scripts) \cup Bare(bare) \cup Fed(fed)
             \cup {Always("line", <<"out">>), Always("ctrlD", <<"exit">>)})
  BY <1>1, <1>2 DEF Calm
<1> QED
  BY <1>3, ClassCalm DEF Reader

LEMMA PrintersAreCalm ==
  Calm(Command_whoami) /\ Calm(Command_help) /\ Calm(Command_w) /\ Calm(Command_who) /\
  Calm(Command_echo) /\ Calm(Command_hostname) /\ Calm(Command_ps) /\ Calm(Command_id) /\
  Calm(Command_history) /\ Calm(Command_date) /\ Calm(Command_chattr) /\ Calm(Command_set) /\
  Calm(Command_cd) /\ Calm(Command_cp) /\ Calm(Command_mv) /\ Calm(Command_mkdir) /\
  Calm(Command_rmdir) /\ Calm(Command_pwd) /\ Calm(Command_touch) /\ Calm(Command_chmod) /\
  Calm(Command_du) /\ Calm(Command_env) /\ Calm(Command_ethtool) /\ Calm(Command_finger) /\
  Calm(Command_free) /\ Calm(Command_git) /\ Calm(Command_groups) /\ Calm(Command_ifconfig) /\
  Calm(Command_last) /\ Calm(Command_locate) /\ Calm(Command_ls) /\ Calm(Command_lspci) /\
  Calm(Command_netstat) /\ Calm(Command_nohup) /\ Calm(Command_service) /\ Calm(Command_tar) /\
  Calm(Command_ulimit) /\ Calm(Command_uname) /\ Calm(Command_unzip) /\ Calm(Command_uptime) /\
  Calm(Command_which)
<1>1. Calm(Called(Prints))
  BY CallCalm, Scripts
<1> QED
  BY <1>1 DEF
    Command_whoami, Command_help, Command_w, Command_who, Command_echo, Command_hostname,
    Command_ps, Command_id, Command_history, Command_date, Command_chattr, Command_set,
    Command_cd, Command_cp, Command_mv, Command_mkdir, Command_rmdir, Command_pwd,
    Command_touch, Command_chmod, Command_du, Command_env, Command_ethtool, Command_finger,
    Command_free, Command_git, Command_groups, Command_ifconfig, Command_last, Command_locate,
    Command_ls, Command_lspci, Command_netstat, Command_nohup, Command_service, Command_tar,
    Command_ulimit, Command_uname, Command_unzip, Command_uptime, Command_which

LEMMA PrintfCalm == Calm(Command_printf)
BY CallCalm, Scripts, Ops DEF Command_printf

LEMMA ClearCalm == Calm(Command_clear)
BY CallCalm, Scripts, Ops DEF Command_clear

LEMMA NopCalm == Calm(Command_nop)
BY CallCalm, Scripts, Ops DEF Command_nop

LEMMA RmCalm == Calm(Command_rm)
BY CallCalm, Scripts, Ops DEF Command_rm

LEMMA YumInstallCalm == Calm(YumInstall)
<1>1. Calm(Start({<<"arm">>, <<"try", "raise">>}))
  BY StartCalm, Scripts, Ops
<1>2. CalmRule(Always("line", <<"arm">>))
  BY OnCalm, AlwaysCalm, Scripts, Ops, Names
<1>3. CalmRule(Always("fire", <<"try", "out", "exit">>))
  BY OnCalm, AlwaysCalm, Scripts, Ops, Names
<1> QED
  BY <1>1, <1>2, <1>3 DEF YumInstall, Calm

LEMMA FtpEndsCalm == Calm(FtpEnds)
<1>1. CalmRule(Always("fire", <<"user", "exit">>))
  BY OnCalm, AlwaysCalm, Scripts, Ops, Names
<1>2. CalmRule(Always("fire", <<"try", "out", "exit">>))
  BY OnCalm, AlwaysCalm, Scripts, Ops, Names
<1>3. CalmRule(Always("error", <<"out", "exit">>))
  BY OnCalm, AlwaysCalm, Scripts, Ops, Names
<1> QED
  BY <1>1, <1>2, <1>3 DEF FtpEnds, Calm

LEMMA TftpEndsCalm == Calm(TftpEnds)
<1>1. CalmRule(Always("fire", <<"user", "try", "exit">>))
  BY OnCalm, AlwaysCalm, Scripts, Ops, Names
<1>2. CalmRule(Always("fire", <<"out", "try", "exit">>))
  BY OnCalm, AlwaysCalm, Scripts, Ops, Names
<1>3. CalmRule(Always("error", <<"out", "try", "exit">>))
  BY OnCalm, AlwaysCalm, Scripts, Ops, Names
<1> QED
  BY <1>1, <1>2, <1>3 DEF TftpEnds, Calm

LEMMA LookupCalm == Calm(Lookup)
<1>1. CalmRule(On("start", "any", <<"try", "out", "arm">>, "request"))
  BY OnCalm, AlwaysCalm, Scripts, Ops, Names
<1>2. CalmRule(On("start", "any", <<"try", "arm">>, "resolving"))
  BY OnCalm, AlwaysCalm, Scripts, Ops, Names
<1>3. CalmRule(On("fire", "resolving", <<"try", "out", "exit">>, "done"))
  BY OnCalm, AlwaysCalm, Scripts, Ops, Names
<1>4. CalmRule(On("fire", "resolving", <<"try", "out", "arm">>, "request"))
  BY OnCalm, AlwaysCalm, Scripts, Ops, Names
<1> QED
  BY <1>1, <1>2, <1>3, <1>4 DEF Lookup, Calm

LEMMA CollectCalm == Calm(Collect)
<1>1. CalmRule(On("fire", "request", <<"exit">>, "done"))
  BY OnCalm, AlwaysCalm, Scripts, Ops, Names
<1>2. CalmRule(On("fire", "request", <<"out", "arm">>, "body"))
  BY OnCalm, AlwaysCalm, Scripts, Ops, Names
<1>3. CalmRule(On("fire", "request", <<"try", "out", "exit">>, "done"))
  BY OnCalm, AlwaysCalm, Scripts, Ops, Names
<1>4. CalmRule(On("fire", "body", <<"out", "arm">>, "body"))
  BY OnCalm, AlwaysCalm, Scripts, Ops, Names
<1>5. CalmRule(On("fire", "body", <<"exit", "arm">>, "over"))
  BY OnCalm, AlwaysCalm, Scripts, Ops, Names
<1>6. CalmRule(On("fire", "over", <<"exit", "arm">>, "over"))
  BY OnCalm, AlwaysCalm, Scripts, Ops, Names
<1> QED
  BY <1>1, <1>2, <1>3, <1>4, <1>5, <1>6 DEF Collect, Calm

LEMMA CollectionCompleteCalm == Calm(CollectionComplete)
<1>1. ASSUME NEW p \in {"body", "over"}
      PROVE  CalmRule(On("fire", p, <<"out", "exit">>, "done"))
  BY OnCalm, Scripts, Ops, Names
<1> QED
  BY <1>1 DEF CollectionComplete, Calm

LEMMA FailedCalm == Calm(Failed)
<1>1. CalmRule(On("error", "any", <<"out", "exit">>, "done"))
  BY OnCalm, AlwaysCalm, Scripts, Ops, Names
<1> QED
  BY <1>1 DEF Failed, Calm

LEMMA DownloadCalm == Calm(Download)
BY LookupCalm, CollectCalm, CollectionCompleteCalm, FailedCalm DEF Download, Calm

LEMMA ShutdownCalm == Calm(Command_shutdown)
<1>1. Calm(Start(Stops \cup {<<"out", "arm">>}))
  BY StartCalm, Scripts, Ops
<1>2. CalmRule(Always("fire", <<"end">>))
  BY OnCalm, AlwaysCalm, Scripts, Ops, Names
<1>3. Calm(Start(Stops \cup {<<"out", "arm">>})
             \cup {Always("fire", <<"end">>)})
  BY <1>1, <1>2 DEF Calm
<1> QED
  BY <1>3, ClassCalm DEF Command_shutdown

LEMMA RebootCalm == Calm(Command_reboot)
<1>1. Calm(Start({<<"out", "arm">>}))
  BY StartCalm, Scripts, Ops
<1>2. CalmRule(Always("fire", <<"end">>))
  BY OnCalm, AlwaysCalm, Scripts, Ops, Names
<1>3. Calm(Start({<<"out", "arm">>})
             \cup {Always("fire", <<"end">>)})
  BY <1>1, <1>2 DEF Calm
<1> QED
  BY <1>3, ClassCalm DEF Command_reboot

LEMMA YesCalm == Calm(Command_yes)
<1>1. Calm(Start({<<"out", "arm">>}))
  BY StartCalm, Scripts, Ops
<1>2. CalmRule(Always("fire", <<"out", "arm">>))
  BY OnCalm, AlwaysCalm, Scripts, Ops, Names
<1>3. CalmRule(Always("ctrlC", <<"cancel", "exit">>))
  BY InterruptCalm, InterruptScripts, Scripts, LongScripts, Ops
<1>4. Calm(Start({<<"out", "arm">>})
             \cup {Always("fire", <<"out", "arm">>),
                   Always("ctrlC", <<"cancel", "exit">>)})
  BY <1>1, <1>2, <1>3 DEF Calm
<1> QED
  BY <1>4, ClassCalm DEF Command_yes

LEMMA PhpCalm == Calm(Command_php)
<1>1. Calm(Start(Stops \cup Waits))
  BY StartCalm, Scripts, Ops
<1>2. CalmRule(Always("line", <<>>))
  BY OnCalm, AlwaysCalm, Scripts, Ops, Names
<1>3. CalmRule(Always("ctrlD", <<"exit">>))
  BY OnCalm, AlwaysCalm, Scripts, Ops, Names
<1>4. Calm(Start(Stops \cup Waits)
             \cup {Always("line", <<>>),
                   Always("ctrlD", <<"exit">>)})
  BY <1>1, <1>2, <1>3 DEF Calm
<1> QED
  BY <1>4, ClassCalm DEF Command_php

LEMMA GrepCalm == Calm(Command_grep)
BY ReaderCalm, Scripts, Ops DEF Command_grep

LEMMA TailCalm == Calm(Command_tail)
<1>1. Calm(Start(Stops \cup Waits))
  BY StartCalm, Scripts, Ops
<1>2. CalmRule(Always("line", <<>>))
  BY OnCalm, AlwaysCalm, Scripts, Ops, Names
<1>3. CalmRule(Always("ctrlD", <<"exit">>))
  BY OnCalm, AlwaysCalm, Scripts, Ops, Names
<1>4. Calm(Start(Stops \cup Waits)
             \cup {Always("line", <<>>),
                   Always("ctrlD", <<"exit">>)})
  BY <1>1, <1>2, <1>3 DEF Calm
<1> QED
  BY <1>4, ClassCalm DEF Command_tail

LEMMA HeadCalm == Calm(Command_head)
BY TailCalm DEF Command_head

LEMMA DigCalm == Calm(Command_dig)
<1>1. Calm(Start(Stops))
  BY StartCalm, Scripts, Ops
<1> QED
  BY <1>1, ClassCalm DEF Command_dig

LEMMA FindCalm == Calm(Command_find)
<1>1. Calm(Start(Stops))
  BY StartCalm, Scripts, Ops
<1> QED
  BY <1>1, ClassCalm DEF Command_find

LEMMA IptablesCalm == Calm(Command_iptables)
<1>1. Calm(Start(Stops))
  BY StartCalm, Scripts, Ops
<1> QED
  BY <1>1, ClassCalm DEF Command_iptables

LEMMA AwkCalm == Calm(Command_awk)
BY ReaderCalm, Scripts, Ops DEF Command_awk

LEMMA WcCalm == Calm(Command_wc)
BY ReaderCalm, Scripts, Ops DEF Command_wc

LEMMA Base64Calm == Calm(Command_base64)
BY ReaderCalm, Scripts, Ops DEF Command_base64

LEMMA CatCalm == Calm(Command_cat)
BY ReaderCalm, Scripts, Ops DEF Command_cat

LEMMA TeeCalm == Calm(Command_tee)
BY ReaderCalm, Scripts, Ops DEF Command_tee

LEMMA UniqCalm == Calm(Command_uniq)
BY ReaderCalm, Scripts, Ops DEF Command_uniq

LEMMA CrontabCalm == Calm(Command_crontab)
<1>1. Calm(Start(Stops \cup Waits))
  BY StartCalm, Scripts, Ops
<1>2. CalmRule(Always("line", <<>>))
  BY OnCalm, AlwaysCalm, Scripts, Ops, Names
<1>3. CalmRule(Always("ctrlD", <<"exit">>))
  BY OnCalm, AlwaysCalm, Scripts, Ops, Names
<1>4. Calm(Start(Stops \cup Waits)
             \cup {Always("line", <<>>),
                   Always("ctrlD", <<"exit">>)})
  BY <1>1, <1>2, <1>3 DEF Calm
<1> QED
  BY <1>4, ClassCalm DEF Command_crontab

LEMMA PythonCalm == Calm(Command_python)
<1>1. Calm(Start(Stops \cup Waits \cup {<<"exit", "exit">>}))
  BY StartCalm, Scripts, Ops
<1>2. CalmRule(Always("line", <<>>))
  BY OnCalm, AlwaysCalm, Scripts, Ops, Names
<1>3. CalmRule(Always("ctrlD", <<"exit">>))
  BY OnCalm, AlwaysCalm, Scripts, Ops, Names
<1>4. Calm(Start(Stops \cup Waits \cup {<<"exit", "exit">>})
             \cup {Always("line", <<>>),
                   Always("ctrlD", <<"exit">>)})
  BY <1>1, <1>2, <1>3 DEF Calm
<1> QED
  BY <1>4, ClassCalm DEF Command_python

LEMMA PerlCalm == Calm(Command_perl)
BY PythonCalm DEF Command_perl

LEMMA ChpasswdCalm == Calm(Command_chpasswd)
<1>1. Calm(Start(Stops))
  BY StartCalm, Scripts, Ops
<1>2. Calm(Bare(Waits))
  BY StartCalm, Scripts, Ops
<1>3. Calm(Fed({<<"out", "exit", "out", "exit">>}))
  BY StartCalm, Scripts, LongScripts, Ops
<1>4. CalmRule(Always("line", <<"out">>))
  BY OnCalm, AlwaysCalm, Scripts, Ops, Names
<1>5. CalmRule(Always("ctrlD", <<"exit">>))
  BY OnCalm, AlwaysCalm, Scripts, Ops, Names
<1>6. Calm(Start(Stops) \cup Bare(Waits) \cup Fed({<<"out", "exit", "out", "exit">>})
             \cup {Always("line", <<"out">>),
                   Always("ctrlD", <<"exit">>)})
  BY <1>1, <1>2, <1>3, <1>4, <1>5 DEF Calm
<1> QED
  BY <1>6, ClassCalm DEF Command_chpasswd

LEMMA DdCalm == Calm(Command_dd)
<1>1. Calm(Start({<<>>, <<"out", "exit", "raise">>, <<"out", "exit", "out", "exit">>}))
  BY StartCalm, Scripts, LongScripts, Ops
<1>2. Calm(Bare(Stops))
  BY StartCalm, Scripts, Ops
<1>3. Calm(Fed({<<"out">>}))
  BY StartCalm, Scripts, Ops
<1>4. CalmRule(Always("line", <<>>))
  BY OnCalm, AlwaysCalm, Scripts, Ops, Names
<1>5. CalmRule(Always("ctrlD", <<"out", "exit">>))
  BY OnCalm, AlwaysCalm, Scripts, Ops, Names
<1>6. Calm(Start({<<>>, <<"out", "exit", "raise">>, <<"out", "exit", "out", "exit">>})
             \cup Bare(Stops) \cup Fed({<<"out">>})
             \cup {Always("line", <<>>),
                   Always("ctrlD", <<"out", "exit">>)})
  BY <1>1, <1>2, <1>3, <1>4, <1>5 DEF Calm
<1> QED
  BY <1>6, ClassCalm DEF Command_dd

LEMMA ScpCalm == Calm(Command_scp)
<1>1. Calm(Start(Stops \cup {<<"out">>, <<"raise">>, <<"out", "exit", "out">>}))
  BY StartCalm, Scripts, Ops
<1>2. CalmRule(Always("line", <<"term">>))
  BY OnCalm, AlwaysCalm, Scripts, Ops, Names
<1>3. CalmRule(Always("ctrlD", <<"exit">>))
  BY OnCalm, AlwaysCalm, Scripts, Ops, Names
<1>4. Calm(Start(Stops \cup {<<"out">>, <<"raise">>, <<"out", "exit", "out">>})
             \cup {Always("line", <<"term">>),
                   Always("ctrlD", <<"exit">>)})
  BY <1>1, <1>2, <1>3 DEF Calm
<1> QED
  BY <1>4, ClassCalm DEF Command_scp

LEMMA SleepCalm == Calm(Command_sleep)
<1>1. Calm(Start(Stops \cup {<<"arm">>}))
  BY StartCalm, Scripts, Ops
<1>2. CalmRule(Always("fire", <<"exit">>))
  BY OnCalm, AlwaysCalm, Scripts, Ops, Names
<1>3. Calm(Start(Stops \cup {<<"arm">>})
             \cup {Always("fire", <<"exit">>)})
  BY <1>1, <1>2 DEF Calm
<1> QED
  BY <1>3, ClassCalm DEF Command_sleep

LEMMA PingCalm == Calm(Command_ping)
<1>1. Calm(Start(Stops))
  BY StartCalm, Scripts, Ops
<1>2. ASSUME NEW p \in {"more", "last", "endless"}
      PROVE  CalmRule(On("start", "any", <<"out", "arm">>, p))
  BY OnCalm, Scripts, Ops, Names
<1>3. CalmRule(On("fire", "more", <<"out", "arm">>, "last"))
  BY OnCalm, AlwaysCalm, Scripts, Ops, Names
<1>4. CalmRule(On("fire", "last", <<"out", "exit">>, "done"))
  BY OnCalm, AlwaysCalm, Scripts, Ops, Names
<1>5. CalmRule(On("fire", "endless", <<"out", "arm">>, "same"))
  BY OnCalm, AlwaysCalm, Scripts, Ops, Names
<1>6. CalmRule(Always("ctrlC", <<"out", "cancel", "out", "exit">>))
  BY InterruptCalm, InterruptScripts, Scripts, LongScripts, Ops
<1>7. Calm(Start(Stops)
             \cup {On("start", "any", <<"out", "arm">>, p) : p \in {"more", "last", "endless"}}
             \cup {On("fire", "more", <<"out", "arm">>, "last"),
                   On("fire", "last", <<"out", "exit">>, "done"),
                   On("fire", "endless", <<"out", "arm">>, "same"),
                   Always("ctrlC", <<"out", "cancel", "out", "exit">>)})
  BY <1>1, <1>2, <1>3, <1>4, <1>5, <1>6 DEF Calm
<1> QED
  BY <1>7, ClassCalm DEF Command_ping

LEMMA AptgetCalm == Calm(Command_aptget)
<1>1. Calm(Start(Stops \cup {<<"try", "raise">>}))
  BY StartCalm, Scripts, Ops
<1> QED
  BY <1>1, ClassCalm DEF Command_aptget

LEMMA YumCalm == Calm(Command_yum)
<1>1. Calm(Start(Stops \cup {<<"arm">>}))
  BY StartCalm, Scripts, Ops
<1>2. Calm(Start(Stops \cup {<<"arm">>}) \cup YumInstall)
  BY <1>1, YumInstallCalm DEF Calm
<1> QED
  BY <1>2, ClassCalm DEF Command_yum

LEMMA WgetCalm == Calm(Command_wget)
<1>1. Calm(Start({<<"try", "out", "exit">>}))
  BY StartCalm, Scripts, Ops
<1>2. Calm(Start({<<"try", "out", "exit">>}) \cup Download)
  BY <1>1, DownloadCalm DEF Calm
<1> QED
  BY <1>2, ClassCalm DEF Command_wget

LEMMA CurlCalm == Calm(Command_curl)
<1>1. Calm(Start({<<"try", "out", "exit">>, <<"try", "out", "exit", "raise">>}))
  BY StartCalm, Scripts, LongScripts, Ops
<1>2. Calm(Start({<<"try", "out", "exit">>, <<"try", "out", "exit", "raise">>}) \cup Download)
  BY <1>1, DownloadCalm DEF Calm
<1> QED
  BY <1>2, ClassCalm DEF Command_curl

LEMMA FtpgetCalm == Calm(Command_ftpget)
<1>1. Calm(Start(Stops \cup {<<"arm">>}))
  BY StartCalm, Scripts, Ops
<1>2. Calm(Start(Stops \cup {<<"arm">>}) \cup FtpEnds)
  BY <1>1, FtpEndsCalm DEF Calm
<1> QED
  BY <1>2, ClassCalm DEF Command_ftpget

LEMMA TftpCalm == Calm(Command_tftp)
<1>1. Calm(Start(Stops \cup {<<"arm">>, <<"raise">>, <<"out", "raise">>}))
  BY StartCalm, Scripts, Ops
<1>2. CalmRule(Always("ctrlC", <<"cancel", "out", "exit">>))
  BY InterruptCalm, InterruptScripts, Scripts, LongScripts, Ops
<1>3. Calm(Start(Stops \cup {<<"arm">>, <<"raise">>, <<"out", "raise">>}) \cup TftpEnds
             \cup {Always("ctrlC", <<"cancel", "out", "exit">>)})
  BY <1>1, <1>2, TftpEndsCalm DEF Calm
<1> QED
  BY <1>3, ClassCalm DEF Command_tftp

-----------------------------------------------------------------------------
(* The classes that do more, and all of them together.                     *)

LEMMA ClassIsSound ==
  ASSUME NEW cls, NEW own, \A r \in own : SoundRule(cls, r)
  PROVE  \A r \in Class(own) : SoundRule(cls, r)
<1>1. \A r \in HoneyPotCommand : SoundRule(cls, r)
  <2>1. \A r \in HoneyPotCommand : CalmRule(r) /\ r.on # "start"
    BY InheritedCalm DEF Calm, HoneyPotCommand, Always, On
  <2> QED BY <2>1, CalmRuleIsSound
<1> QED
  BY <1>1 DEF Class

LEMMA OpsOfAll ==
  /\ "out" \in Op /\ "exit" \in Op /\ "arm" \in Op /\ "cancel" \in Op /\ "pop" \in Op /\ "run" \in Op
  /\ "interactive" \in Op /\ "insert" \in Op /\ "chain" \in Op /\ "echoOff" \in Op /\ "echoOn" \in Op
BY DEF Op, CalmOps

LEMMA ScriptsOfAll ==
  /\ <<>> \in Seq(Op)
  /\ \A a \in Op : <<a>> \in Seq(Op)
  /\ \A a, b \in Op : <<a, b>> \in Seq(Op)
  /\ \A a, b, c \in Op : <<a, b, c>> \in Seq(Op)
  /\ <<"insert", "chain", "out", "exit">> \in Seq(Op)
BY OpsOfAll

LEMMA OneToFour ==
  /\ \A k \in 1 .. 1 : k = 1
  /\ \A k \in 1 .. 2 : k = 1 \/ k = 2
  /\ \A k \in 1 .. 3 : k = 1 \/ k = 2 \/ k = 3
  /\ \A k \in 1 .. 4 : k = 1 \/ k = 2 \/ k = 3 \/ k = 4
OBVIOUS

\* A rule whose script was looked through, and those scripts.
LEMMA OnSound ==
  ASSUME NEW event \in Event, NEW at \in Phase, NEW to \in Phase, NEW script \in Seq(Op), NEW cls,
         Allowed(cls, event, script), event # "ctrlC", cls # "gcc"
  PROVE  SoundRule(cls, On(event, at, script, to))
BY DEF SoundRule, On, Rule

LEMMA AllowedScripts ==
  /\ \A cls \in {"sh", "sh_c"} :
       Allowed(cls, "start", <<"run", "exit">>) /\ Allowed(cls, "start", <<"interactive">>)
  /\ Allowed("exit", "start", <<"pop", "exit">>)
  /\ Allowed("sudo", "start", <<"insert", "exit">>)
  /\ Allowed("sudo", "start", <<"insert", "out", "exit">>)
  /\ Allowed("busybox", "start", <<"insert", "chain", "exit">>)
  /\ Allowed("busybox", "start", <<"insert", "chain", "out", "exit">>)
  /\ Allowed("gcc", "start", <<"exit">>)
  /\ Allowed("gcc", "start", <<"out", "exit">>)
  /\ Allowed("gcc", "start", <<"arm", "exit">>)
BY OneToFour DEF Allowed, Fits, Opening

LEMMA ShIsSound == ASSUME NEW cls \in {"sh", "sh_c"} PROVE SoundClass(cls)
<1> DEFINE own == IF cls = "sh_c" THEN Start({<<"run", "exit">>})
                  ELSE Bare({<<"interactive">>}) \cup Fed({<<"run", "exit">>})
<1>1. Rules(cls) = Class(own)
  <2>1. Rules("sh") = Command_sh(FALSE) /\ Rules("sh_c") = Command_sh(TRUE)
    BY DEF Rules, CommandTable
  <2> QED BY <2>1 DEF Command_sh
<1>2. /\ SoundRule(cls, On("start", "new", <<"run", "exit">>, "new"))
      /\ SoundRule(cls, On("start", "fed", <<"run", "exit">>, "fed"))
  <2>1. Allowed(cls, "start", <<"run", "exit">>) /\ cls # "gcc"
    BY AllowedScripts
  <2>2. <<"run", "exit">> \in Seq(Op) /\ {"new", "fed"} \subseteq Phase /\ "start" \in Event
    BY ScriptsOfAll, OpsOfAll DEF Event, Phase
  <2> QED BY <2>1, <2>2, OnSound
<1>3. SoundRule(cls, On("start", "new", <<"interactive">>, "new"))
  BY OnSound, AllowedScripts, ScriptsOfAll, OpsOfAll, Names
<1>4. \A r \in own : SoundRule(cls, r)
  BY <1>2, <1>3 DEF Start, Bare, Fed
<1> HIDE DEF own
<1> QED BY <1>1, <1>4, ClassIsSound DEF SoundClass

LEMMA ExitIsSound == SoundClass("exit")
<1>1. Rules("exit") = Command_exit
  BY DEF Rules, CommandTable
<1>2. SoundRule("exit", On("start", "any", <<"pop", "exit">>, "done"))
  BY OnSound, AllowedScripts, ScriptsOfAll, OpsOfAll, Names
<1> QED BY <1>1, <1>2, ClassIsSound DEF SoundClass, Command_exit

LEMMA SudoIsSound == SoundClass("sudo")
<1>1. Rules("sudo") = Command_sudo
  BY DEF Rules, CommandTable
<1>2. SoundRule("sudo", On("start", "new", <<"insert", "exit">>, "new"))
  BY OnSound, AllowedScripts, ScriptsOfAll, OpsOfAll, Names
<1>3. SoundRule("sudo", On("start", "fed", <<"insert", "out", "exit">>, "fed"))
  BY OnSound, AllowedScripts, ScriptsOfAll, OpsOfAll, Names
<1>4. \A r \in Bare({<<"insert", "exit">>}) \cup Fed({<<"insert", "out", "exit">>}) : SoundRule("sudo", r)
  BY <1>2, <1>3 DEF Bare, Fed
<1> QED BY <1>1, <1>4, ClassIsSound DEF SoundClass, Command_sudo

LEMMA BusyboxIsSound == SoundClass("busybox")
<1>1. Rules("busybox") = Command_busybox
  BY DEF Rules, CommandTable
<1>2. SoundRule("busybox", On("start", "new", <<"insert", "chain", "exit">>, "new"))
  BY OnSound, AllowedScripts, ScriptsOfAll, OpsOfAll, Names
<1>3. SoundRule("busybox", On("start", "fed", <<"insert", "chain", "out", "exit">>, "fed"))
  BY OnSound, AllowedScripts, ScriptsOfAll, OpsOfAll, Names
<1>4. \A r \in Bare({<<"insert", "chain", "exit">>}) \cup Fed({<<"insert", "chain", "out", "exit">>}) :
        SoundRule("busybox", r)
  BY <1>2, <1>3 DEF Bare, Fed
<1> QED BY <1>1, <1>4, ClassIsSound DEF SoundClass, Command_busybox

LEMMA NcIsSound == SoundClass("nc")
<1>1. Rules("nc") = Command_nc
  BY DEF Rules, CommandTable
<1>2. Calm(Start({<<>>})) /\ CalmRule(Always("line", <<>>))
  BY StartCalm, AlwaysCalm, Scripts DEF Event
<1>3. \A r \in Start({<<>>}) : SoundRule("nc", r)
  BY <1>2, CalmRuleIsSound DEF Calm
<1>4. SoundRule("nc", Always("line", <<>>))
  BY <1>2, CalmRuleIsSound
<1>5. SoundRule("nc", Always("ctrlC", <<"out">>))
  BY ScriptsOfAll, OpsOfAll, OneToFour DEF SoundRule, Allowed, Opening, Always, On, Rule, Fits, Event, Phase
<1> QED BY <1>1, <1>3, <1>4, <1>5, ClassIsSound DEF SoundClass, Command_nc

LEMMA GccIsSound == SoundClass("gcc")
<1>1. Rules("gcc") = Command_gcc
  BY DEF Rules, CommandTable
<1>2. ASSUME NEW r \in Call({<<"out">>, <<"arm">>}) PROVE SoundRule("gcc", r)
  <2>1. PICK s \in {<<"out">>, <<"arm">>, <<>>} : r = On("start", "any", s \o <<"exit">>, "done")
    BY DEF Call
  <2>2. s \o <<"exit">> \in {<<"exit">>, <<"out", "exit">>, <<"arm", "exit">>}
    <3>1. ASSUME NEW x \in Op PROVE <<x>> \o <<"exit">> = <<x, "exit">>
      <4> DEFINE a == <<x>>
      <4> DEFINE b == <<"exit">>
      <4> DEFINE c == <<x, "exit">>
      <4>1. a \in Seq(Op) /\ b \in Seq(Op) /\ c \in Seq(Op)
        BY ScriptsOfAll, OpsOfAll
      <4>2. Len(a) = 1 /\ a[1] = x /\ Len(b) = 1 /\ b[1] = "exit"
            /\ Len(c) = 2 /\ c[1] = x /\ c[2] = "exit"
        OBVIOUS
      <4> HIDE DEF a, b, c
      <4>3. a \o b \in Seq(Op) /\ Len(a \o b) = 2 /\ (a \o b)[1] = x /\ (a \o b)[2] = "exit"
        BY <4>1, <4>2, ConcatProperties
      <4>4. \A i \in 1 .. Len(a \o b) : (a \o b)[i] = c[i]
        BY <4>2, <4>3, OneToFour
      <4>5. a \o b = c
        BY <4>1, <4>2, <4>3, <4>4, SeqEqual
      <4> QED BY <4>5 DEF a, b, c
    <3>2. <<>> \o <<"exit">> = <<"exit">>
      OBVIOUS
    <3> QED BY <3>1, <3>2, OpsOfAll
  <2>3. r.do \in {<<"exit">>, <<"out", "exit">>, <<"arm", "exit">>} /\ r.on = "start"
        /\ r = [on |-> "start", at |-> "any", do |-> r.do, to |-> "done"]
    BY <2>1, <2>2 DEF On
  <2>4. r.do \in Seq(Op)
    BY <2>3, ScriptsOfAll, OpsOfAll
  <2>5. Allowed("gcc", "start", r.do)
    BY <2>3, AllowedScripts
  <2>6. r \in Rule
    <3> DEFINE d == r.do
    <3>1. r = [on |-> "start", at |-> "any", do |-> d, to |-> "done"] /\ d \in Seq(Op)
      BY <2>3, <2>4
    <3> HIDE DEF d
    <3> QED BY <3>1 DEF Rule, Event, Phase
  <2> QED BY <2>3, <2>5, <2>6 DEF SoundRule
<1>3. SoundRule("gcc", Always("fire", <<"user">>))
  <2>1. CalmRule(Always("fire", <<"user">>))
    BY AlwaysCalm, Scripts, Ops DEF Event
  <2> QED BY <2>1, CalmRuleIsSound DEF Always, On
<1>4. SoundRule("gcc", Always("ctrlC", <<"cancel">>))
  BY ScriptsOfAll, OpsOfAll, OneToFour DEF SoundRule, Allowed, Opening, Always, On, Rule, Fits, Event, Phase
<1> QED BY <1>1, <1>2, <1>3, <1>4, ClassIsSound DEF SoundClass, Command_gcc

\* The three commands that ask for passwords.
LEMMA AskingScripts ==
  /\ \A cls \in {"passwd", "ssh", "adduser"} :
       /\ Allowed(cls, "start", <<"out", "echoOff">>)
       /\ Allowed(cls, "line", <<"out", "echoOff">>)
       /\ Allowed(cls, "fire", <<"out", "echoOff">>)
       /\ Allowed(cls, "line", <<"echoOn", "out", "exit">>)
       /\ Allowed(cls, "fire", <<"echoOn", "out", "exit">>)
       /\ Allowed(cls, "line", <<"arm", "echoOn">>)
       /\ Allowed(cls, "line", <<"out", "arm", "echoOn">>)
  /\ <<"out", "echoOff">> \in Seq(Op) /\ <<"echoOn", "out", "exit">> \in Seq(Op)
  /\ <<"arm", "echoOn">> \in Seq(Op) /\ <<"out", "arm", "echoOn">> \in Seq(Op)
<1>1. /\ <<"out", "echoOff">> \in Seq(Op) /\ <<"echoOn", "out", "exit">> \in Seq(Op)
      /\ <<"arm", "echoOn">> \in Seq(Op) /\ <<"out", "arm", "echoOn">> \in Seq(Op)
  BY ScriptsOfAll, OpsOfAll
<1> QED
  BY <1>1, OneToFour DEF Allowed, Fits, Opening

LEMMA AskingRules ==
  ASSUME NEW cls \in {"passwd", "ssh", "adduser"}, NEW at \in Phase, NEW to \in Phase
  PROVE  /\ SoundRule(cls, On("start", at, <<"out", "echoOff">>, to))
         /\ SoundRule(cls, On("line", at, <<"out", "echoOff">>, to))
         /\ SoundRule(cls, On("fire", at, <<"out", "echoOff">>, to))
         /\ SoundRule(cls, On("line", at, <<"echoOn", "out", "exit">>, to))
         /\ SoundRule(cls, On("fire", at, <<"echoOn", "out", "exit">>, to))
         /\ SoundRule(cls, On("line", at, <<"arm", "echoOn">>, to))
         /\ SoundRule(cls, On("line", at, <<"out", "arm", "echoOn">>, to))
<1>1. cls # "gcc" /\ {"start", "line", "fire"} \subseteq Event
      /\ "start" # "ctrlC" /\ "line" # "ctrlC" /\ "fire" # "ctrlC"
  BY DEF Event
<1>2. /\ SoundRule(cls, On("start", at, <<"out", "echoOff">>, to))
      /\ SoundRule(cls, On("line", at, <<"out", "echoOff">>, to))
      /\ SoundRule(cls, On("fire", at, <<"out", "echoOff">>, to))
  BY <1>1, OnSound, AskingScripts
<1>3. /\ SoundRule(cls, On("line", at, <<"echoOn", "out", "exit">>, to))
      /\ SoundRule(cls, On("fire", at, <<"echoOn", "out", "exit">>, to))
  BY <1>1, OnSound, AskingScripts
<1>4. /\ SoundRule(cls, On("line", at, <<"arm", "echoOn">>, to))
      /\ SoundRule(cls, On("line", at, <<"out", "arm", "echoOn">>, to))
  BY <1>1, OnSound, AskingScripts
<1> QED BY <1>2, <1>3, <1>4

LEMMA AskingPhases ==
  {"any", "same", "new", "again", "done", "yesno", "wait", "finish", "adding", "password", "question"} \subseteq Phase
BY DEF Phase

LEMMA PasswdIsSound == SoundClass("passwd")
<1>1. Rules("passwd") = Command_passwd
  BY DEF Rules, CommandTable
<1>2. SoundRule("passwd", On("start", "any", <<"out", "echoOff">>, "new"))
  BY AskingRules, AskingPhases
<1>3. CalmRule(On("line", "new", <<"out">>, "again"))
  BY OnCalm, Scripts, Ops, Names
<1>4. SoundRule("passwd", On("line", "again", <<"echoOn", "out", "exit">>, "done"))
  BY AskingRules, AskingPhases
<1>5. SoundRule("passwd", On("line", "new", <<"out">>, "again"))
  BY <1>3, CalmRuleIsSound
<1> QED BY <1>1, <1>2, <1>4, <1>5, ClassIsSound DEF SoundClass, Command_passwd

LEMMA SshIsSound == SoundClass("ssh")
<1>1. Rules("ssh") = Command_ssh
  BY DEF Rules, CommandTable
<1>2. \A r \in Start(Stops) : SoundRule("ssh", r)
  BY StartCalm, Scripts, CalmRuleIsSound DEF Calm
<1>3. ASSUME NEW s \in {<<"out">>, <<"out", "exit", "out">>}
      PROVE  SoundRule("ssh", On("start", "any", s, "yesno"))
  BY OnCalm, CalmRuleIsSound, Scripts, Ops, Names
<1>4. SoundRule("ssh", On("line", "yesno", <<"out", "echoOff">>, "wait"))
  BY AskingRules, AskingPhases
<1>5. CalmRule(On("line", "wait", <<"arm">>, "finish")) /\ CalmRule(On("line", "finish", <<>>, "finish"))
  BY OnCalm, Scripts, Ops, Names
<1>6. SoundRule("ssh", Always("fire", <<"echoOn", "out", "exit">>))
  BY AskingRules, AskingPhases DEF Always
<1>7. SoundRule("ssh", On("line", "wait", <<"arm">>, "finish"))
      /\ SoundRule("ssh", On("line", "finish", <<>>, "finish"))
  BY <1>5, CalmRuleIsSound
<1> QED BY <1>1, <1>2, <1>3, <1>4, <1>6, <1>7, ClassIsSound DEF SoundClass, Command_ssh

LEMMA AdduserIsSound == SoundClass("adduser")
<1>1. Rules("adduser") = Command_adduser
  BY DEF Rules, CommandTable
<1>2. \A r \in Start(Stops) : SoundRule("adduser", r)
  BY StartCalm, Scripts, CalmRuleIsSound DEF Calm
<1>3. /\ CalmRule(On("start", "any", <<"out", "arm">>, "adding"))
      /\ CalmRule(On("fire", "adding", <<"out", "arm">>, "adding"))
      /\ CalmRule(On("fire", "password", <<"out">>, "question"))
  <2>1. <<"out", "arm">> \in Seq(CalmOps) /\ <<"out">> \in Seq(CalmOps)
    BY Scripts, Ops
  <2>2. {"start", "line", "fire"} \subseteq Event
    BY DEF Event
  <2> QED BY <2>1, <2>2, AskingPhases, OnCalm
<1>8. /\ CalmRule(On("fire", "question", <<"out">>, "question"))
      /\ CalmRule(On("fire", "question", <<"out", "arm">>, "adding"))
      /\ CalmRule(On("line", "question", <<"exit">>, "done"))
  <2>1. <<"out", "arm">> \in Seq(CalmOps) /\ <<"out">> \in Seq(CalmOps) /\ <<"exit">> \in Seq(CalmOps)
    BY Scripts, Ops
  <2>2. {"start", "line", "fire"} \subseteq Event
    BY DEF Event
  <2> QED BY <2>1, <2>2, AskingPhases, OnCalm
<1>4. /\ SoundRule("adduser", On("start", "any", <<"out", "arm">>, "adding"))
      /\ SoundRule("adduser", On("fire", "adding", <<"out", "arm">>, "adding"))
      /\ SoundRule("adduser", On("fire", "password", <<"out">>, "question"))
      /\ SoundRule("adduser", On("fire", "question", <<"out">>, "question"))
      /\ SoundRule("adduser", On("fire", "question", <<"out", "arm">>, "adding"))
      /\ SoundRule("adduser", On("line", "question", <<"exit">>, "done"))
  BY <1>3, <1>8, CalmRuleIsSound
<1>5. /\ SoundRule("adduser", On("fire", "adding", <<"out", "echoOff">>, "password"))
      /\ SoundRule("adduser", On("fire", "password", <<"out", "echoOff">>, "password"))
  BY AskingRules, AskingPhases
<1>6. /\ SoundRule("adduser", On("line", "adding", <<"arm", "echoOn">>, "adding"))
      /\ SoundRule("adduser", On("line", "password", <<"arm", "echoOn">>, "password"))
  BY AskingRules, AskingPhases
<1>7. SoundRule("adduser", On("line", "question", <<"out", "arm", "echoOn">>, "question"))
  BY AskingRules, AskingPhases
<1> QED BY <1>1, <1>2, <1>4, <1>5, <1>6, <1>7, ClassIsSound DEF SoundClass, Command_adduser

LEMMA EveryName ==
  ASSUME NEW cls \in DOMAIN CommandTable
  PROVE  cls \in {
    "sh", "sh_c", "exit", "sudo", "busybox", "nc", "whoami", "help", "w", "who", "echo",
    "printf", "clear", "hostname", "ps", "id", "history", "date", "chattr", "set", "nop",
    "passwd", "shutdown", "reboot", "yes", "php", "grep", "tail", "head", "cd", "rm", "cp",
    "mv", "mkdir", "rmdir", "pwd", "touch", "chmod", "du", "env", "ethtool", "finger", "free",
    "git", "groups", "ifconfig", "last", "locate", "ls", "lspci", "netstat", "nohup",
    "service", "tar", "ulimit", "uname", "unzip", "uptime", "which", "dig", "find", "iptables",
    "awk", "wc", "base64", "cat", "tee", "uniq", "crontab", "python", "perl", "chpasswd", "dd",
    "scp", "sleep", "ping", "ssh", "adduser", "aptget", "yum", "gcc", "wget", "curl", "ftpget",
    "tftp"}
BY DEF CommandTable

\* Every class of cowrie/commands is sound.
LEMMA EveryClassIsSound ==
  ASSUME NEW cls \in DOMAIN CommandTable
  PROVE  SoundClass(cls)
<1>1. Calm(Rules("whoami")) /\ Calm(Rules("help")) /\ Calm(Rules("w")) /\ Calm(Rules("who")) /\
      Calm(Rules("echo")) /\ Calm(Rules("printf")) /\ Calm(Rules("clear")) /\
      Calm(Rules("hostname")) /\ Calm(Rules("ps")) /\ Calm(Rules("id")) /\
      Calm(Rules("history")) /\ Calm(Rules("date")) /\ Calm(Rules("chattr")) /\
      Calm(Rules("set")) /\ Calm(Rules("nop")) /\ Calm(Rules("shutdown")) /\
      Calm(Rules("reboot")) /\ Calm(Rules("yes")) /\ Calm(Rules("php")) /\
      Calm(Rules("grep")) /\ Calm(Rules("tail")) /\ Calm(Rules("head")) /\ Calm(Rules("cd")) /\
      Calm(Rules("rm")) /\ Calm(Rules("cp"))
  <2>1. Calm(Command_whoami) /\ Calm(Command_help) /\ Calm(Command_w) /\ Calm(Command_who) /\
        Calm(Command_echo) /\ Calm(Command_printf) /\ Calm(Command_clear) /\
        Calm(Command_hostname) /\ Calm(Command_ps) /\ Calm(Command_id) /\
        Calm(Command_history) /\ Calm(Command_date) /\ Calm(Command_chattr) /\
        Calm(Command_set) /\ Calm(Command_nop) /\ Calm(Command_shutdown) /\
        Calm(Command_reboot) /\ Calm(Command_yes) /\ Calm(Command_php) /\ Calm(Command_grep) /\
        Calm(Command_tail) /\ Calm(Command_head) /\ Calm(Command_cd) /\ Calm(Command_rm) /\
        Calm(Command_cp)
    BY PrintersAreCalm, PrintfCalm, ClearCalm, NopCalm, ShutdownCalm, RebootCalm, YesCalm,
     PhpCalm, GrepCalm, TailCalm, HeadCalm, RmCalm
  <2>2. Rules("whoami") = Command_whoami /\ Rules("help") = Command_help /\
        Rules("w") = Command_w /\ Rules("who") = Command_who /\ Rules("echo") = Command_echo /\
        Rules("printf") = Command_printf /\ Rules("clear") = Command_clear /\
        Rules("hostname") = Command_hostname /\ Rules("ps") = Command_ps
    BY DEF Rules, CommandTable
  <2>3. Rules("id") = Command_id /\ Rules("history") = Command_history /\
        Rules("date") = Command_date /\ Rules("chattr") = Command_chattr /\
        Rules("set") = Command_set /\ Rules("nop") = Command_nop /\
        Rules("shutdown") = Command_shutdown /\ Rules("reboot") = Command_reboot /\
        Rules("yes") = Command_yes
    BY DEF Rules, CommandTable
  <2>4. Rules("php") = Command_php /\ Rules("grep") = Command_grep /\
        Rules("tail") = Command_tail /\ Rules("head") = Command_head /\
        Rules("cd") = Command_cd /\ Rules("rm") = Command_rm /\ Rules("cp") = Command_cp
    BY DEF Rules, CommandTable
  <2> QED BY <2>1, <2>2, <2>3, <2>4
<1>2. Calm(Rules("mv")) /\ Calm(Rules("mkdir")) /\ Calm(Rules("rmdir")) /\
      Calm(Rules("pwd")) /\ Calm(Rules("touch")) /\ Calm(Rules("chmod")) /\
      Calm(Rules("du")) /\ Calm(Rules("env")) /\ Calm(Rules("ethtool")) /\
      Calm(Rules("finger")) /\ Calm(Rules("free")) /\ Calm(Rules("git")) /\
      Calm(Rules("groups")) /\ Calm(Rules("ifconfig")) /\ Calm(Rules("last")) /\
      Calm(Rules("locate")) /\ Calm(Rules("ls")) /\ Calm(Rules("lspci")) /\
      Calm(Rules("netstat")) /\ Calm(Rules("nohup")) /\ Calm(Rules("service")) /\
      Calm(Rules("tar")) /\ Calm(Rules("ulimit")) /\ Calm(Rules("uname")) /\
      Calm(Rules("unzip"))
  <2>1. Calm(Command_mv) /\ Calm(Command_mkdir) /\ Calm(Command_rmdir) /\ Calm(Command_pwd) /\
        Calm(Command_touch) /\ Calm(Command_chmod) /\ Calm(Command_du) /\ Calm(Command_env) /\
        Calm(Command_ethtool) /\ Calm(Command_finger) /\ Calm(Command_free) /\
        Calm(Command_git) /\ Calm(Command_groups) /\ Calm(Command_ifconfig) /\
        Calm(Command_last) /\ Calm(Command_locate) /\ Calm(Command_ls) /\
        Calm(Command_lspci) /\ Calm(Command_netstat) /\ Calm(Command_nohup) /\
        Calm(Command_service) /\ Calm(Command_tar) /\ Calm(Command_ulimit) /\
        Calm(Command_uname) /\ Calm(Command_unzip)
    BY PrintersAreCalm
  <2>2. Rules("mv") = Command_mv /\ Rules("mkdir") = Command_mkdir /\
        Rules("rmdir") = Command_rmdir /\ Rules("pwd") = Command_pwd /\
        Rules("touch") = Command_touch /\ Rules("chmod") = Command_chmod /\
        Rules("du") = Command_du /\ Rules("env") = Command_env /\
        Rules("ethtool") = Command_ethtool
    BY DEF Rules, CommandTable
  <2>3. Rules("finger") = Command_finger /\ Rules("free") = Command_free /\
        Rules("git") = Command_git /\ Rules("groups") = Command_groups /\
        Rules("ifconfig") = Command_ifconfig /\ Rules("last") = Command_last /\
        Rules("locate") = Command_locate /\ Rules("ls") = Command_ls /\
        Rules("lspci") = Command_lspci
    BY DEF Rules, CommandTable
  <2>4. Rules("netstat") = Command_netstat /\ Rules("nohup") = Command_nohup /\
        Rules("service") = Command_service /\ Rules("tar") = Command_tar /\
        Rules("ulimit") = Command_ulimit /\ Rules("uname") = Command_uname /\
        Rules("unzip") = Command_unzip
    BY DEF Rules, CommandTable
  <2> QED BY <2>1, <2>2, <2>3, <2>4
<1>3. Calm(Rules("uptime")) /\ Calm(Rules("which")) /\ Calm(Rules("dig")) /\
      Calm(Rules("find")) /\ Calm(Rules("iptables")) /\ Calm(Rules("awk")) /\
      Calm(Rules("wc")) /\ Calm(Rules("base64")) /\ Calm(Rules("cat")) /\ Calm(Rules("tee")) /\
      Calm(Rules("uniq")) /\ Calm(Rules("crontab")) /\ Calm(Rules("python")) /\
      Calm(Rules("perl")) /\ Calm(Rules("chpasswd")) /\ Calm(Rules("dd")) /\
      Calm(Rules("scp")) /\ Calm(Rules("sleep")) /\ Calm(Rules("ping")) /\
      Calm(Rules("aptget")) /\ Calm(Rules("yum")) /\ Calm(Rules("wget")) /\
      Calm(Rules("curl")) /\ Calm(Rules("ftpget")) /\ Calm(Rules("tftp"))
  <2>1. Calm(Command_uptime) /\ Calm(Command_which) /\ Calm(Command_dig) /\
        Calm(Command_find) /\ Calm(Command_iptables) /\ Calm(Command_awk) /\
        Calm(Command_wc) /\ Calm(Command_base64) /\ Calm(Command_cat) /\ Calm(Command_tee) /\
        Calm(Command_uniq) /\ Calm(Command_crontab) /\ Calm(Command_python) /\
        Calm(Command_perl) /\ Calm(Command_chpasswd) /\ Calm(Command_dd) /\
        Calm(Command_scp) /\ Calm(Command_sleep) /\ Calm(Command_ping) /\
        Calm(Command_aptget) /\ Calm(Command_yum) /\ Calm(Command_wget) /\
        Calm(Command_curl) /\ Calm(Command_ftpget) /\ Calm(Command_tftp)
    BY PrintersAreCalm, DigCalm, FindCalm, IptablesCalm, AwkCalm, WcCalm, Base64Calm, CatCalm,
     TeeCalm, UniqCalm, CrontabCalm, PythonCalm, PerlCalm, ChpasswdCalm, DdCalm, ScpCalm,
     SleepCalm, PingCalm, AptgetCalm, YumCalm, WgetCalm, CurlCalm, FtpgetCalm, TftpCalm
  <2>2. Rules("uptime") = Command_uptime /\ Rules("which") = Command_which /\
        Rules("dig") = Command_dig /\ Rules("find") = Command_find /\
        Rules("iptables") = Command_iptables /\ Rules("awk") = Command_awk /\
        Rules("wc") = Command_wc /\ Rules("base64") = Command_base64 /\
        Rules("cat") = Command_cat
    BY DEF Rules, CommandTable
  <2>3. Rules("tee") = Command_tee /\ Rules("uniq") = Command_uniq /\
        Rules("crontab") = Command_crontab /\ Rules("python") = Command_python /\
        Rules("perl") = Command_perl /\ Rules("chpasswd") = Command_chpasswd /\
        Rules("dd") = Command_dd /\ Rules("scp") = Command_scp /\ Rules("sleep") = Command_sleep
    BY DEF Rules, CommandTable
  <2>4. Rules("ping") = Command_ping /\ Rules("aptget") = Command_aptget /\
        Rules("yum") = Command_yum /\ Rules("wget") = Command_wget /\
        Rules("curl") = Command_curl /\ Rules("ftpget") = Command_ftpget /\
        Rules("tftp") = Command_tftp
    BY DEF Rules, CommandTable
  <2> QED BY <2>1, <2>2, <2>3, <2>4
<1>4. SoundClass("whoami") /\ SoundClass("help") /\ SoundClass("w") /\ SoundClass("who") /\
      SoundClass("echo") /\ SoundClass("printf") /\ SoundClass("clear") /\
      SoundClass("hostname") /\ SoundClass("ps") /\ SoundClass("id") /\
      SoundClass("history") /\ SoundClass("date") /\ SoundClass("chattr") /\
      SoundClass("set") /\ SoundClass("nop") /\ SoundClass("shutdown") /\
      SoundClass("reboot") /\ SoundClass("yes") /\ SoundClass("php") /\ SoundClass("grep") /\
      SoundClass("tail") /\ SoundClass("head") /\ SoundClass("cd") /\ SoundClass("rm") /\
      SoundClass("cp")
  BY <1>1, CalmIsSound
<1>5. SoundClass("mv") /\ SoundClass("mkdir") /\ SoundClass("rmdir") /\ SoundClass("pwd") /\
      SoundClass("touch") /\ SoundClass("chmod") /\ SoundClass("du") /\ SoundClass("env") /\
      SoundClass("ethtool") /\ SoundClass("finger") /\ SoundClass("free") /\
      SoundClass("git") /\ SoundClass("groups") /\ SoundClass("ifconfig") /\
      SoundClass("last") /\ SoundClass("locate") /\ SoundClass("ls") /\ SoundClass("lspci") /\
      SoundClass("netstat") /\ SoundClass("nohup") /\ SoundClass("service") /\
      SoundClass("tar") /\ SoundClass("ulimit") /\ SoundClass("uname") /\ SoundClass("unzip")
  BY <1>2, CalmIsSound
<1>6. SoundClass("uptime") /\ SoundClass("which") /\ SoundClass("dig") /\ SoundClass("find") /\
      SoundClass("iptables") /\ SoundClass("awk") /\ SoundClass("wc") /\
      SoundClass("base64") /\ SoundClass("cat") /\ SoundClass("tee") /\ SoundClass("uniq") /\
      SoundClass("crontab") /\ SoundClass("python") /\ SoundClass("perl") /\
      SoundClass("chpasswd") /\ SoundClass("dd") /\ SoundClass("scp") /\ SoundClass("sleep") /\
      SoundClass("ping") /\ SoundClass("aptget") /\ SoundClass("yum") /\ SoundClass("wget") /\
      SoundClass("curl") /\ SoundClass("ftpget") /\ SoundClass("tftp")
  BY <1>3, CalmIsSound
<1> QED
  BY EveryName, <1>4, <1>5, <1>6,
     ShIsSound, ExitIsSound, SudoIsSound, BusyboxIsSound, NcIsSound, GccIsSound, PasswdIsSound,
     SshIsSound, AdduserIsSound

-----------------------------------------------------------------------------
(* The stack: what may be put on it and taken from it.                     *)

LEMMA Bounds == MaxInputs \in Nat /\ MaxObjects \in Nat \ {0} /\ Ids \subseteq Nat \ {0}
BY ShellAssumption DEF Ids

LEMMA PushStack ==
  ASSUME NEW s \in Seq(Ids), IsInjective(s), NEW i \in Ids, i \notin ToSet(s)
  PROVE  /\ Append(s, i) \in Seq(Ids) /\ IsInjective(Append(s, i))
         /\ ToSet(Append(s, i)) = ToSet(s) \cup {i}
         /\ Append(s, i) # <<>> /\ Last(Append(s, i)) = i
         /\ Len(Append(s, i)) = Len(s) + 1
         /\ Append(s, i)[1] = IF s = <<>> THEN i ELSE s[1]
<1> DEFINE r == Append(s, i)
<1>1. /\ r \in Seq(Ids) /\ Len(r) = Len(s) + 1 /\ Len(s) \in Nat /\ r[Len(r)] = i
      /\ \A k \in 1 .. Len(s) : r[k] = s[k] /\ s[k] # i
      /\ DOMAIN r = 1 .. Len(s) + 1 /\ DOMAIN s = 1 .. Len(s)
  BY DEF ToSet
<1>2. s = <<>> <=> Len(s) = 0
  OBVIOUS
<1> HIDE DEF r
<1>3. IsInjective(r)
  BY <1>1 DEF IsInjective
<1>4. ToSet(r) = ToSet(s) \cup {i}
  <2>1. \A k \in 1 .. Len(s) + 1 : k \in 1 .. Len(s) \/ k = Len(s) + 1
    BY <1>1
  <2> QED BY <1>1, <2>1 DEF ToSet
<1>5. r # <<>> /\ Last(r) = i /\ r[1] = IF s = <<>> THEN i ELSE s[1]
  BY <1>1, <1>2 DEF Last
<1> QED BY <1>1, <1>3, <1>4, <1>5 DEF r

\* On the stack, b is right above a.
Above(s, a, b) == \E p \in 1 .. Len(s) - 1 : s[p] = a /\ s[p + 1] = b

\* r is s without one of its elements.
Without(s, r, e) ==
  /\ r \in Seq(Ids) /\ IsInjective(r)
  /\ ToSet(r) = ToSet(s) \ {e}
  /\ Len(r) = Len(s) - 1
  /\ s[1] # e => r # <<>> /\ r[1] = s[1]
  /\ Last(s) # e => r # <<>> /\ Last(r) = Last(s)
  /\ \A a, b : Above(s, a, b) /\ a # e /\ b # e => Above(r, a, b)

LEMMA DropStack ==
  ASSUME NEW s \in Seq(Ids), IsInjective(s), NEW k \in 1 .. Len(s)
  PROVE  Without(s, RemoveAt(s, k), s[k])
<1> DEFINE a == SubSeq(s, 1, k - 1)
<1> DEFINE b == SubSeq(s, k + 1, Len(s))
<1> DEFINE n == Len(s)
<1> DEFINE r == a \o b
<1>1. n \in Nat /\ k \in Nat /\ 1 <= k /\ k <= n /\ DOMAIN s = 1 .. n
      /\ \A i \in 1 .. n : s[i] \in Ids
  OBVIOUS
<1>2. a \in Seq(Ids) /\ Len(a) = k - 1 /\ \A i \in 1 .. k - 1 : a[i] = s[i]
  BY <1>1, SubSeqProperties
<1>3. b \in Seq(Ids) /\ Len(b) = n - k /\ \A i \in 1 .. n - k : b[i] = s[k + i]
  <2> DEFINE m == k + 1
  <2>1. m \in Int /\ n \in Int /\ (\A i \in m .. n : s[i] \in Ids)
    BY <1>1
  <2>2. b = SubSeq(s, m, n)
    OBVIOUS
  <2>3. (IF m <= n THEN n - m + 1 ELSE 0) = n - k /\ n - m + 1 = n - k
    <3> HIDE DEF n
    <3> QED BY <1>1
  <2>4. \A i \in 1 .. n - k : m + i - 1 = k + i
    BY <1>1
  <2> HIDE DEF m, n, b
  <2>5. /\ SubSeq(s, m, n) \in Seq(Ids)
        /\ Len(SubSeq(s, m, n)) = IF m <= n THEN n - m + 1 ELSE 0
        /\ \A i \in 1 .. n - m + 1 : SubSeq(s, m, n)[i] = s[m + i - 1]
    BY <2>1, SubSeqProperties
  <2> QED BY <2>2, <2>3, <2>4, <2>5
<1> HIDE DEF a, b, n
<1>4. /\ r \in Seq(Ids) /\ Len(r) = n - 1 /\ DOMAIN r = 1 .. n - 1
      /\ \A i \in 1 .. n - 1 : r[i] = IF i <= k - 1 THEN a[i] ELSE b[i - (k - 1)]
  <2>1. /\ r \in Seq(Ids) /\ Len(r) = Len(a) + Len(b)
        /\ \A i \in 1 .. Len(a) + Len(b) : r[i] = IF i <= Len(a) THEN a[i] ELSE b[i - Len(a)]
    BY <1>2, <1>3, ConcatProperties
  <2>2. Len(a) = k - 1 /\ Len(a) + Len(b) = n - 1
    BY <1>1, <1>2, <1>3
  <2> HIDE DEF r
  <2>3. DOMAIN r = 1 .. Len(r)
    BY <2>1
  <2> QED BY <2>1, <2>2, <2>3
<1>5. \A i \in 1 .. n - 1 : r[i] = IF i < k THEN s[i] ELSE s[i + 1]
  <2>1. ASSUME NEW i \in 1 .. n - 1 PROVE r[i] = IF i < k THEN s[i] ELSE s[i + 1]
    <3>1. CASE i < k
      BY <3>1, <1>1, <1>2, <1>4
    <3>2. CASE i >= k
      <4>1. i - (k - 1) \in 1 .. n - k /\ k + (i - (k - 1)) = i + 1
        BY <3>2, <1>1
      <4>2. r[i] = b[i - (k - 1)]
        <5>1. ~(i <= k - 1)
          BY <3>2, <1>1
        <5> QED BY <5>1, <1>4
      <4>3. b[i - (k - 1)] = s[i + 1]
        BY <4>1, <1>3
      <4>4. ~(i < k)
        BY <3>2, <1>1
      <4> QED BY <4>2, <4>3, <4>4
    <3>3. i < k \/ i >= k
      BY <1>1
    <3> QED BY <3>1, <3>2, <3>3
  <2> QED BY <2>1
<1> HIDE DEF r
<1>6. \A i, j \in 1 .. n : s[i] = s[j] => i = j
  BY <1>1 DEF IsInjective
<1>7. IsInjective(r)
  BY <1>1, <1>4, <1>5, <1>6 DEF IsInjective
<1>8. ToSet(r) = ToSet(s) \ {s[k]}
  <2>1. ASSUME NEW x \in ToSet(r) PROVE x \in ToSet(s) \ {s[k]}
    <3>1. PICK i \in 1 .. n - 1 : x = r[i]
      BY <1>4 DEF ToSet
    <3>2. PICK j \in 1 .. n : x = s[j] /\ j # k
      BY <3>1, <1>1, <1>5
    <3> QED BY <3>2, <1>1, <1>6 DEF ToSet
  <2>2. ASSUME NEW i \in 1 .. n, i # k PROVE s[i] \in ToSet(r)
    <3>1. CASE i < k
      BY <3>1, <1>1, <1>4, <1>5 DEF ToSet
    <3>2. CASE i > k
      <4>1. i - 1 \in 1 .. n - 1 /\ r[i - 1] = s[i]
        BY <3>2, <1>1, <1>5
      <4> QED BY <4>1, <1>4 DEF ToSet
    <3> QED BY <3>1, <3>2, <2>2, <1>1
  <2> QED BY <2>1, <2>2, <1>1 DEF ToSet
<1>9. s[1] # s[k] => r # <<>> /\ r[1] = s[1]
  BY <1>1, <1>4, <1>5
<1>10. s[n] # s[k] => r # <<>> /\ r[n - 1] = s[n]
  BY <1>1, <1>4, <1>5
<1>11. RemoveAt(s, k) = r /\ Last(s) = s[n] /\ Last(r) = r[n - 1]
  BY <1>4 DEF RemoveAt, Last, r, a, b, n
<1>12. ASSUME NEW x, NEW y, Above(s, x, y), x # s[k], y # s[k] PROVE Above(r, x, y)
  <2>1. PICK p \in 1 .. n - 1 : s[p] = x /\ s[p + 1] = y
    BY <1>12 DEF Above, n
  <2>2. p # k /\ p + 1 # k
    BY <2>1, <1>12
  <2>3. CASE p < k
    <3>1. p \in 1 .. n - 1 /\ p + 1 \in 1 .. n - 1 /\ p + 1 < k /\ p \in 1 .. (n - 1) - 1
      BY <2>2, <2>3, <1>1
    <3>2. r[p] = x /\ r[p + 1] = y
      BY <3>1, <2>1, <2>3, <1>5
    <3> QED BY <3>1, <3>2, <1>4 DEF Above
  <2>4. CASE p > k
    <3>1. /\ p - 1 \in 1 .. n - 1 /\ ~(p - 1 < k) /\ ~(p < k) /\ (p - 1) + 1 = p
          /\ p - 1 \in 1 .. (n - 1) - 1
      BY <2>4, <1>1
    <3>2. r[p - 1] = x /\ r[p] = y
      BY <3>1, <2>1, <1>5
    <3> QED BY <3>1, <3>2, <1>4 DEF Above
  <2> QED BY <2>2, <2>3, <2>4, <1>1
<1> QED BY <1>4, <1>7, <1>8, <1>9, <1>10, <1>11, <1>12 DEF Without, n

LEMMA RemoveStack ==
  ASSUME NEW s \in Seq(Ids), IsInjective(s), NEW e \in ToSet(s)
  PROVE  Without(s, RemoveFirst(s, e), e)
<1>1. PICK k \in 1 .. Len(s) : s[k] = e
  BY DEF ToSet
<1>2. {i \in 1 .. Len(s) : s[i] = e} = {k}
  BY <1>1 DEF IsInjective
<1>3. SelectInSeq(s, LAMBDA v : v = e) = k
  <2>1. Min({k}) = k
    BY DEF Min
  <2> QED BY <2>1, <1>2 DEF SelectInSeq
<1>4. RemoveFirst(s, e) = RemoveAt(s, k)
  BY <1>1, <1>3 DEF RemoveFirst
<1> QED BY <1>1, <1>4, DropStack

LEMMA FrontStack ==
  ASSUME NEW s \in Seq(Ids), IsInjective(s), s # <<>>
  PROVE  Without(s, Front(s), Last(s))
<1>1. Len(s) \in 1 .. Len(s) /\ Len(s) \in Nat
  OBVIOUS
<1>2. RemoveAt(s, Len(s)) = Front(s)
  <2>1. SubSeq(s, Len(s) + 1, Len(s)) = <<>> /\ SubSeq(s, 1, Len(s) - 1) \in Seq(Ids)
    BY <1>1, SubSeqProperties
  <2> QED BY <2>1, <1>1, ConcatEmptySeq DEF RemoveAt, Front
<1> QED BY <1>1, <1>2, DropStack DEF Last

-----------------------------------------------------------------------------
(* The types of the objects, of the stack, of the pipe and of the frames.  *)

ObjectType ==
  [cls : DOMAIN CommandTable \cup {"shell", "none"}, inter : BOOLEAN, at : Phase,
   sub : Seq(Invocations) \cup Seq(LineElement), pending : Seq(Seq(Invocations)), timers : Nat]
ObjectOK(o) ==
  /\ o \in ObjectType
  /\ o.cls \in {"sudo", "busybox"} => o.sub \in Seq(Runnable)
  /\ o.cls \in {"sh", "sh_c"} => o.sub \in Seq(LineElement)
  /\ o.timers > 0 => o.cls \in DOMAIN CommandTable
ObjectsOK(os) == os \in [Ids -> ObjectType] /\ \A i \in Ids : ObjectOK(os[i])

StackOK(s, os) ==
  s \in Seq(Ids) /\ IsInjective(s) /\ \A i \in ToSet(s) : os[i].cls # "none"

PipeOK(p) == p \in [owner : Ids \cup {0}, next : Seq(Runnable), fed : BOOLEAN]

\* At the bottom of the frames is what the reactor called.
Bottom == {"input", "later", "deferred"}
FrameName == {"lex", "pop", "run", "call", "lost", "do", "try", "raise"} \cup Bottom
FrameType ==
  [f : FrameName, id : Ids \cup {0}, x : Seq(LineElement) \cup Seq(Runnable) \cup Seq(Op)]
ScriptOK(cls, script) ==
  /\ cls \in DOMAIN CommandTable
  /\ script \in Seq(Op)
  /\ \A k \in 1 .. Len(script) : Fits(cls, script[k])
FrameOK(fr, os) ==
  /\ fr \in FrameType
  /\ fr.f \in {"lex", "run", "pop"} => fr.id \in Ids /\ os[fr.id].cls = "shell"
  /\ fr.f = "lex" => fr.x \in Seq(LineElement)
  /\ fr.f = "call" => fr.x \in Seq(Runnable) /\ fr.x # <<>>
  /\ fr.f = "do" => fr.id \in Ids /\ ScriptOK(os[fr.id].cls, fr.x) /\ fr.x # <<>>
  /\ fr.f = "deferred" => fr.id \in Ids /\ os[fr.id].cls \in DOMAIN CommandTable
  /\ fr.f \in Bottom => fr.x \in Lines \cup LaterLines \cup {<<>>}
PushOK(fs, os) ==
  fs \in Seq(FrameType) /\ \A k \in 1 .. Len(fs) : FrameOK(fs[k], os) /\ fs[k].f \notin Bottom
FramesOK(t, os) ==
  /\ t \in Seq(FrameType)
  /\ \A k \in 1 .. Len(t) : FrameOK(t[k], os) /\ (t[k].f \in Bottom <=> k = Len(t))

FlagsOK ==
  /\ conn \in {"open", "closing", "closed"}
  /\ interactive \in BOOLEAN /\ password_input \in BOOLEAN /\ prompt \in BOOLEAN
  /\ raised \in BOOLEAN /\ stray \in BOOLEAN /\ shared \in BOOLEAN
  /\ inputs \in 0 .. MaxInputs

TypeInv ==
  FlagsOK /\ ObjectsOK(objs) /\ StackOK(cmdstack, objs) /\ PipeOK(pp) /\ FramesOK(todo, objs)

LEMMA FreshId ==
  ASSUME Unused # {}
  PROVE  /\ NewId \in Ids /\ NewId \in Unused /\ NewId \notin ToSet(cmdstack)
         /\ \A k \in DOMAIN todo : todo[k].id # NewId
BY DEF NewId, Unused, Alive

\* The frames see the objects only through their classes.
SameClasses(t, os, os2) ==
  \A k \in 1 .. Len(t) : t[k].id \in Ids => os2[t[k].id].cls = os[t[k].id].cls

LEMMA FrameKept ==
  ASSUME NEW fr, NEW os, NEW os2, FrameOK(fr, os), fr.id \in Ids => os2[fr.id].cls = os[fr.id].cls
  PROVE  FrameOK(fr, os2)
BY DEF FrameOK

LEMMA FramesKept ==
  ASSUME NEW t, NEW os, NEW os2, FramesOK(t, os), SameClasses(t, os, os2)
  PROVE  FramesOK(t, os2)
BY FrameKept DEF FramesOK, SameClasses

LEMMA PushNone ==
  ASSUME NEW os
  PROVE  PushOK(<<>>, os)
BY DEF PushOK

LEMMA PushOne ==
  ASSUME NEW os, NEW fr, FrameOK(fr, os), fr.f \notin Bottom
  PROVE  PushOK(<<fr>>, os)
<1>1. fr \in FrameType
  BY DEF FrameOK
<1> HIDE DEF FrameType
<1>2. <<fr>> \in Seq(FrameType) /\ Len(<<fr>>) = 1 /\ <<fr>>[1] = fr
  BY <1>1
<1> QED BY <1>2 DEF PushOK

LEMMA PushBoth ==
  ASSUME NEW os, NEW fs, NEW gs, PushOK(fs, os), PushOK(gs, os)
  PROVE  PushOK(fs \o gs, os)
<1> DEFINE r == fs \o gs
<1>1. fs \in Seq(FrameType) /\ gs \in Seq(FrameType)
  BY DEF PushOK
<1>2. /\ r \in Seq(FrameType) /\ Len(r) = Len(fs) + Len(gs)
      /\ \A k \in 1 .. Len(fs) + Len(gs) : r[k] = IF k <= Len(fs) THEN fs[k] ELSE gs[k - Len(fs)]
      /\ Len(fs) \in Nat /\ Len(gs) \in Nat
  BY <1>1, ConcatProperties, LenProperties
<1> HIDE DEF r
<1>3. ASSUME NEW k \in 1 .. Len(r) PROVE FrameOK(r[k], os) /\ r[k].f \notin Bottom
  <2>1. CASE k <= Len(fs)
    BY <2>1, <1>2 DEF PushOK
  <2>2. CASE ~(k <= Len(fs))
    <3>1. k - Len(fs) \in 1 .. Len(gs) /\ r[k] = gs[k - Len(fs)]
      BY <2>2, <1>2
    <3> QED BY <3>1 DEF PushOK
  <2> QED BY <2>1, <2>2
<1> QED BY <1>2, <1>3 DEF PushOK, r

LEMMA HeadFrame ==
  ASSUME NEW t, NEW os, FramesOK(t, os), t # <<>>
  PROVE  /\ FrameOK(Head(t), os) /\ Head(t) = t[1] /\ 1 \in 1 .. Len(t)
         /\ t \in Seq(FrameType) /\ Tail(t) \in Seq(FrameType) /\ Len(t) \in Nat /\ Len(t) > 0
         /\ Len(Tail(t)) = Len(t) - 1 /\ DOMAIN t = 1 .. Len(t)
         /\ \A k \in 1 .. Len(t) - 1 : Tail(t)[k] = t[k + 1]
<1>1. t \in Seq(FrameType)
  BY DEF FramesOK
<1>2. Len(t) \in Nat /\ Len(t) > 0 /\ Head(t) = t[1] /\ DOMAIN t = 1 .. Len(t)
  BY <1>1
<1>3. FrameOK(t[1], os)
  <2>1. 1 \in 1 .. Len(t)
    BY <1>2
  <2> QED BY <2>1 DEF FramesOK
<1>4. Tail(t) \in Seq(FrameType) /\ Len(Tail(t)) = Len(t) - 1 /\
      \A k \in 1 .. Len(Tail(t)) : Tail(t)[k] = t[k + 1]
  BY <1>1, HeadTailProperties
<1> QED BY <1>1, <1>2, <1>3, <1>4

LEMMA LastFrame ==
  ASSUME NEW t, NEW os, FramesOK(t, os), t # <<>>
  PROVE  Last(t) = t[Len(t)] /\ FrameOK(Last(t), os) /\ Last(t).f \in Bottom
BY HeadFrame DEF FramesOK, Last

\* What a method pushes takes the place of its own frame.
LEMMA ThenFrames ==
  ASSUME NEW t, NEW os, NEW fs, FramesOK(t, os), t # <<>>, Head(t).f \notin Bottom, PushOK(fs, os)
  PROVE  /\ FramesOK(fs \o Tail(t), os)
         /\ Len(fs) \in Nat /\ Len(t) \in Nat /\ Len(t) > 1
         /\ Len(fs \o Tail(t)) = Len(fs) + Len(t) - 1
         /\ \A k \in 1 .. Len(fs) : (fs \o Tail(t))[k] = fs[k]
         /\ \A k \in Len(fs) + 1 .. Len(fs) + Len(t) - 1 : (fs \o Tail(t))[k] = t[k - Len(fs) + 1]
         /\ Last(fs \o Tail(t)) = Last(t)
         /\ Len(t) # 1
<1> DEFINE r == fs \o Tail(t)
<1>1. fs \in Seq(FrameType) /\ Len(fs) \in Nat
  BY LenProperties DEF PushOK
<1>2. /\ Tail(t) \in Seq(FrameType) /\ Len(t) \in Nat /\ Len(t) > 0 /\ Len(Tail(t)) = Len(t) - 1
      /\ \A k \in 1 .. Len(t) - 1 : Tail(t)[k] = t[k + 1]
      /\ Head(t) = t[1]
  BY HeadFrame
<1>3. Len(t) > 1
  <2>1. 1 \in 1 .. Len(t)
    BY <1>2
  <2>2. t[1].f \in Bottom <=> 1 = Len(t)
    BY <2>1 DEF FramesOK
  <2> QED BY <2>2, <1>2
<1>4. /\ r \in Seq(FrameType) /\ Len(r) = Len(fs) + Len(Tail(t))
      /\ \A k \in 1 .. Len(fs) + Len(Tail(t)) : r[k] = IF k <= Len(fs) THEN fs[k] ELSE Tail(t)[k - Len(fs)]
  BY <1>1, <1>2, ConcatProperties
<1> HIDE DEF r
<1>5. Len(r) = Len(fs) + Len(t) - 1 /\ \A k \in 1 .. Len(fs) : r[k] = fs[k]
  BY <1>1, <1>2, <1>4
<1>6. ASSUME NEW k \in Len(fs) + 1 .. Len(fs) + Len(t) - 1 PROVE r[k] = t[k - Len(fs) + 1]
  <2>1. k - Len(fs) \in 1 .. Len(t) - 1 /\ ~(k <= Len(fs)) /\ k \in 1 .. Len(fs) + Len(Tail(t))
    BY <1>1, <1>2
  <2> QED BY <2>1, <1>2, <1>4
<1>7. ASSUME NEW k \in 1 .. Len(r) PROVE FrameOK(r[k], os) /\ (r[k].f \in Bottom <=> k = Len(r))
  <2>1. CASE k <= Len(fs)
    BY <2>1, <1>1, <1>2, <1>3, <1>5 DEF PushOK
  <2>2. CASE ~(k <= Len(fs))
    <3>1. r[k] = t[k - Len(fs) + 1] /\ k - Len(fs) + 1 \in 1 .. Len(t)
      BY <2>2, <1>1, <1>2, <1>5, <1>6
    <3>2. k - Len(fs) + 1 = Len(t) <=> k = Len(r)
      BY <2>2, <1>1, <1>2, <1>5
    <3> QED BY <3>1, <3>2 DEF FramesOK
  <2> QED BY <2>1, <2>2
<1>8. Last(r) = Last(t)
  <2>1. Len(r) \in Len(fs) + 1 .. Len(fs) + Len(t) - 1 /\ Len(r) - Len(fs) + 1 = Len(t)
    BY <1>1, <1>2, <1>3, <1>5
  <2> QED BY <2>1, <1>5, <1>6 DEF Last
<1>9. FramesOK(r, os)
  BY <1>4, <1>7 DEF FramesOK
<1>10. Len(fs) \in Nat /\ Len(t) \in Nat /\ Len(t) > 1 /\ Len(t) # 1
  BY <1>1, <1>2, <1>3
<1>11. \A k \in Len(fs) + 1 .. Len(fs) + Len(t) - 1 : r[k] = t[k - Len(fs) + 1]
  BY <1>6, Zenon
<1> QED BY <1>5, <1>8, <1>9, <1>10, <1>11, Zenon DEF r

\* What an event of the reactor starts.
LEMMA EventFrames ==
  ASSUME NEW os, NEW fs, NEW fr, PushOK(fs, os), FrameOK(fr, os), fr.f \in Bottom
  PROVE  /\ FramesOK(fs \o <<fr>>, os) /\ Len(fs \o <<fr>>) = Len(fs) + 1 /\ Len(fs) \in Nat
         /\ \A k \in 1 .. Len(fs) : (fs \o <<fr>>)[k] = fs[k]
         /\ (fs \o <<fr>>)[Len(fs) + 1] = fr
         /\ Last(fs \o <<fr>>) = fr
<1> DEFINE g == <<fr>>
<1> DEFINE r == fs \o g
<1>1. fs \in Seq(FrameType) /\ fr \in FrameType /\ Len(fs) \in Nat
  BY LenProperties DEF PushOK, FrameOK
<1>2. g \in Seq(FrameType) /\ Len(g) = 1 /\ g[1] = fr
  BY <1>1
<1> HIDE DEF g
<1>3. /\ r \in Seq(FrameType) /\ Len(r) = Len(fs) + Len(g)
      /\ \A k \in 1 .. Len(fs) + Len(g) : r[k] = IF k <= Len(fs) THEN fs[k] ELSE g[k - Len(fs)]
  BY <1>1, <1>2, ConcatProperties
<1> HIDE DEF r
<1>4. Len(r) = Len(fs) + 1 /\ (\A k \in 1 .. Len(fs) : r[k] = fs[k]) /\ r[Len(fs) + 1] = fr
  BY <1>1, <1>2, <1>3
<1>5. ASSUME NEW k \in 1 .. Len(r) PROVE FrameOK(r[k], os) /\ (r[k].f \in Bottom <=> k = Len(r))
  <2>1. CASE k <= Len(fs)
    BY <2>1, <1>1, <1>4 DEF PushOK
  <2>2. CASE ~(k <= Len(fs))
    <3>1. k = Len(fs) + 1
      BY <2>2, <1>1, <1>4
    <3> QED BY <3>1, <1>4
  <2> QED BY <2>1, <2>2
<1>6. FramesOK(r, os)
  BY <1>3, <1>5 DEF FramesOK
<1>7. Last(r) = fr
  BY <1>4 DEF Last
<1> QED BY <1>1, <1>4, <1>6, <1>7 DEF r, g

LEMMA RuleScript ==
  ASSUME NEW cls \in DOMAIN CommandTable, NEW r \in Rules(cls)
  PROVE  /\ SoundRule(cls, r) /\ ScriptOK(cls, r.do) /\ r.to \in Phase /\ r.do \in Seq(Op)
         /\ Allowed(cls, r.on, r.do)
<1>1. SoundRule(cls, r)
  BY EveryClassIsSound DEF SoundClass
<1>2. r.do \in Seq(Op) /\ r.to \in Phase /\ Allowed(cls, r.on, r.do)
  BY <1>1 DEF SoundRule, Rule
<1> QED BY <1>1, <1>2 DEF ScriptOK, Allowed

LEMMA TailScript ==
  ASSUME NEW cls, NEW x, ScriptOK(cls, x), x # <<>>
  PROVE  /\ ScriptOK(cls, Tail(x)) /\ Head(x) = x[1] /\ Fits(cls, x[1]) /\ x[1] \in Op
         /\ Len(x) \in Nat /\ Len(x) > 0 /\ 1 \in 1 .. Len(x) /\ Len(Tail(x)) = Len(x) - 1
         /\ \A k \in 1 .. Len(x) - 1 : Tail(x)[k] = x[k + 1]
<1>1. x \in Seq(Op)
  BY DEF ScriptOK
<1>2. Tail(x) \in Seq(Op) /\ Len(Tail(x)) = Len(x) - 1 /\ Len(x) \in Nat /\ Len(x) > 0 /\ Head(x) = x[1]
  BY <1>1, HeadTailProperties, LenProperties, EmptySeq
<1>3. \A k \in 1 .. Len(x) - 1 : Tail(x)[k] = x[k + 1] /\ k + 1 \in 1 .. Len(x)
  BY <1>1, <1>2, HeadTailProperties
<1>4. 1 \in 1 .. Len(x) /\ x[1] \in Op
  BY <1>1, <1>2, ElementOfSeq
<1> QED BY <1>2, <1>3, <1>4 DEF ScriptOK

LEMMA DoFrame ==
  ASSUME NEW os, NEW i \in Ids, NEW ops, ScriptOK(os[i].cls, ops), ops # <<>>
  PROVE  FrameOK(Frame("do", i, ops), os) /\ Frame("do", i, ops).f \notin Bottom
BY DEF FrameOK, Frame, FrameType, FrameName, Bottom, ScriptOK

LEMMA ScriptFrames ==
  ASSUME NEW os, NEW i \in Ids, NEW ops, ScriptOK(os[i].cls, ops)
  PROVE  PushOK(Script(i, ops), os)
<1>1. CASE ops = <<>>
  BY <1>1, PushNone DEF Script
<1>2. CASE ops # <<>>
  BY <1>2, DoFrame, PushOne DEF Script
<1> QED BY <1>1, <1>2

\* Frames without a script.
LEMMA PlainFrame ==
  ASSUME NEW os, NEW i \in Ids \cup {0}, NEW f \in {"lost", "try", "raise"}
  PROVE  FrameOK(Frame(f, i, <<>>), os) /\ Frame(f, i, <<>>).f \notin Bottom
<1>1. <<>> \in Seq(Op)
  OBVIOUS
<1>2. Frame(f, i, <<>>) \in FrameType
  BY <1>1 DEF Frame, FrameType, FrameName
<1> QED BY <1>2 DEF FrameOK, Frame, Bottom

LEMMA ShellFrame ==
  ASSUME NEW os, NEW i \in Ids, os[i].cls = "shell", NEW f \in {"run", "pop"}
  PROVE  FrameOK(Frame(f, i, <<>>), os) /\ Frame(f, i, <<>>).f \notin Bottom
<1>1. <<>> \in Seq(Op)
  OBVIOUS
<1>2. Frame(f, i, <<>>) \in FrameType
  BY <1>1 DEF Frame, FrameType, FrameName
<1> QED BY <1>2 DEF FrameOK, Frame, Bottom

LEMMA LexFrame ==
  ASSUME NEW os, NEW i \in Ids, os[i].cls = "shell", NEW line \in Seq(LineElement)
  PROVE  FrameOK(Frame("lex", i, line), os) /\ Frame("lex", i, line).f \notin Bottom
<1>1. Frame("lex", i, line) \in FrameType
  BY DEF Frame, FrameType, FrameName
<1> QED BY <1>1 DEF FrameOK, Frame, Bottom

LEMMA CallFrame ==
  ASSUME NEW os, NEW i \in Ids \cup {0}, NEW cmds \in Seq(Runnable), cmds # <<>>
  PROVE  FrameOK(Frame("call", i, cmds), os) /\ Frame("call", i, cmds).f \notin Bottom
<1>1. Frame("call", i, cmds) \in FrameType
  BY DEF Frame, FrameType, FrameName
<1> QED BY <1>1 DEF FrameOK, Frame, Bottom

LEMMA BottomFrame ==
  ASSUME NEW os, NEW i \in Ids \cup {0}, NEW f \in {"input", "later"},
         NEW line \in Lines \cup LaterLines \cup {<<>>}
  PROVE  FrameOK(Frame(f, i, line), os) /\ Frame(f, i, line).f \in Bottom
<1>1. line \in Seq(LineElement)
  <2>1. Lines \cup LaterLines \cup ExecLines \subseteq Seq(LineElement)
    BY ShellAssumption
  <2>2. <<>> \in Seq(LineElement)
    OBVIOUS
  <2> QED BY <2>1, <2>2
<1>2. Frame(f, i, line) \in FrameType
  BY <1>1 DEF Frame, FrameType, FrameName, Bottom
<1> QED BY <1>2 DEF FrameOK, Frame, Bottom

LEMMA DeferredFrame ==
  ASSUME NEW os, NEW i \in Ids, os[i].cls \in DOMAIN CommandTable
  PROVE  FrameOK(Frame("deferred", i, <<>>), os) /\ Frame("deferred", i, <<>>).f \in Bottom
<1>1. <<>> \in Seq(Op)
  OBVIOUS
<1>2. Frame("deferred", i, <<>>) \in FrameType
  BY <1>1 DEF Frame, FrameType, FrameName, Bottom
<1> QED BY <1>2 DEF FrameOK, Frame, Bottom

-----------------------------------------------------------------------------
(* What a step may change of the objects.                                  *)

SameClass(os, os2) == \A i \in Ids : os2[i].cls = os[i].cls

LEMMA PendingKept ==
  ASSUME NEW os, ObjectsOK(os), NEW i \in Ids, NEW p \in Seq(Seq(Invocations))
  PROVE  ObjectsOK([os EXCEPT ![i].pending = p]) /\ SameClass(os, [os EXCEPT ![i].pending = p])
BY DEF ObjectsOK, ObjectOK, ObjectType, SameClass

LEMMA TimersKept ==
  ASSUME NEW os, ObjectsOK(os), NEW i \in Ids, os[i].cls \in DOMAIN CommandTable, NEW n \in Nat
  PROVE  ObjectsOK([os EXCEPT ![i].timers = n]) /\ SameClass(os, [os EXCEPT ![i].timers = n])
BY DEF ObjectsOK, ObjectOK, ObjectType, SameClass

LEMMA PhaseKept ==
  ASSUME NEW os, ObjectsOK(os), NEW i \in Ids, NEW a \in Phase
  PROVE  ObjectsOK([os EXCEPT ![i].at = a]) /\ SameClass(os, [os EXCEPT ![i].at = a])
BY DEF ObjectsOK, ObjectOK, ObjectType, SameClass

LEMMA NewKept ==
  ASSUME NEW os, ObjectsOK(os), NEW i \in Ids, NEW o, ObjectOK(o)
  PROVE  /\ ObjectsOK([os EXCEPT ![i] = o])
         /\ [os EXCEPT ![i] = o][i] = o
         /\ \A j \in Ids : j # i => [os EXCEPT ![i] = o][j] = os[j]
BY DEF ObjectsOK, ObjectOK

LEMMA ShellObject ==
  ASSUME NEW inter \in BOOLEAN
  PROVE  ObjectOK(Shell(inter)) /\ Shell(inter).cls = "shell"
<1>1. Shell(inter) \in ObjectType
  BY DEF Shell, Object, ObjectType, Phase
<1>2. Shell(inter).cls = "shell" /\ Shell(inter).timers = 0
  BY DEF Shell, Object
<1> QED BY <1>1, <1>2 DEF ObjectOK

LEMMA NoneObject == ObjectOK(NoObject)
<1>1. NoObject \in ObjectType
  BY DEF NoObject, Object, ObjectType, Phase
<1>2. NoObject.cls = "none" /\ NoObject.timers = 0
  BY DEF NoObject, Object
<1> QED BY <1>1, <1>2 DEF ObjectOK

LEMMA CommandObject ==
  ASSUME NEW cmd \in Runnable, NEW fed \in BOOLEAN
  PROVE  /\ ObjectOK(Command(cmd, fed)) /\ Command(cmd, fed).cls \in DOMAIN CommandTable
         /\ Command(cmd, fed).cls # "none" /\ Command(cmd, fed).cls # "shell"
<1>1. cmd \in Invocations /\ cmd # NotFound
  BY DEF Runnable
<1>2. /\ cmd.name \in DOMAIN CommandTable
      /\ cmd.sub \in Seq(Invocations) \cup Seq(LineElement)
      /\ cmd.name \in {"sudo", "busybox"} => cmd.sub \in Seq(Runnable)
      /\ cmd.name \in {"sh", "sh_c"} => cmd.sub \in Seq(LineElement)
  BY <1>1, ShellAssumption
<1>3. Command(cmd, fed) \in ObjectType
  BY <1>2 DEF Command, Object, ObjectType, Phase
<1>4. cmd.name # "shell" /\ cmd.name # "none"
  BY <1>2 DEF CommandTable
<1> QED BY <1>2, <1>3, <1>4 DEF Command, Object, ObjectOK

LEMMA FramesKeep ==
  ASSUME TypeInv, NEW fs, NEW os, todo # <<>>, Head(todo).f \notin Bottom, PushOK(fs, os),
         SameClasses(todo, objs, os)
  PROVE  FramesOK(fs \o Rest, os)
<1>1. FramesOK(todo, os)
  BY FramesKept DEF TypeInv
<1> QED BY <1>1, ThenFrames DEF Rest

LEMMA Same ==
  /\ SameClass(objs, objs) /\ SameClasses(todo, objs, objs)
  /\ \A os : SameClass(objs, os) => SameClasses(todo, objs, os)
BY DEF SameClass, SameClasses

LEMMA FreshKeeps ==
  ASSUME TypeInv, Unused # {}, NEW o, ObjectOK(o), o.cls # "none"
  PROVE  LET os == [objs EXCEPT ![NewId] = o] IN
         /\ ObjectsOK(os) /\ SameClasses(todo, objs, os) /\ os[NewId] = o
         /\ \A j \in Ids : j # NewId => os[j] = objs[j]
         /\ StackOK(cmdstack, os) /\ StackOK(Append(cmdstack, NewId), os)
<1> DEFINE os == [objs EXCEPT ![NewId] = o]
<1>1. /\ NewId \in Ids /\ NewId \notin ToSet(cmdstack)
      /\ \A k \in DOMAIN todo : todo[k].id # NewId
  BY FreshId
<1>2. ObjectsOK(os) /\ os[NewId] = o /\ \A j \in Ids : j # NewId => os[j] = objs[j]
  BY <1>1, NewKept DEF TypeInv
<1> HIDE DEF os
<1>3. SameClasses(todo, objs, os)
  <2>1. DOMAIN todo = 1 .. Len(todo)
    BY LenProperties DEF TypeInv, FramesOK
  <2> QED BY <1>1, <1>2, <2>1 DEF SameClasses
<1>4. cmdstack \in Seq(Ids) /\ IsInjective(cmdstack) /\ (\A i \in ToSet(cmdstack) : objs[i].cls # "none")
      /\ ToSet(cmdstack) \subseteq Ids
  BY DEF TypeInv, StackOK, ToSet
<1>5. StackOK(cmdstack, os)
  BY <1>1, <1>2, <1>4 DEF StackOK
<1>6. StackOK(Append(cmdstack, NewId), os)
  <2>1. /\ Append(cmdstack, NewId) \in Seq(Ids) /\ IsInjective(Append(cmdstack, NewId))
        /\ ToSet(Append(cmdstack, NewId)) = ToSet(cmdstack) \cup {NewId}
    BY <1>1, <1>4, PushStack
  <2> QED BY <2>1, <1>1, <1>2, <1>4 DEF StackOK
<1> QED BY <1>2, <1>3, <1>5, <1>6 DEF os

LEMMA StackKept ==
  ASSUME NEW s, NEW os, NEW os2, StackOK(s, os), SameClass(os, os2)
  PROVE  StackOK(s, os2)
<1>1. ToSet(s) \subseteq Ids
  BY DEF StackOK, ToSet
<1> QED BY <1>1 DEF StackOK, SameClass

LEMMA StackWithout ==
  ASSUME NEW s, NEW r, NEW e, NEW os, StackOK(s, os), Without(s, r, e)
  PROVE  StackOK(r, os)
BY DEF StackOK, Without

LEMMA StackTop ==
  ASSUME TypeInv, cmdstack # <<>>
  PROVE  /\ Top \in Ids /\ Top \in ToSet(cmdstack) /\ objs[Top].cls # "none"
         /\ ~IsShell(Top) => objs[Top].cls \in DOMAIN CommandTable
         /\ cmdstack[1] \in ToSet(cmdstack) /\ cmdstack[1] \in Ids
         /\ cmdstack \in Seq(Ids) /\ IsInjective(cmdstack)
         /\ Len(cmdstack) \in Nat /\ Len(cmdstack) > 0 /\ Top = cmdstack[Len(cmdstack)]
<1>1. cmdstack \in Seq(Ids) /\ IsInjective(cmdstack) /\ \A i \in ToSet(cmdstack) : objs[i].cls # "none"
  BY DEF TypeInv, StackOK
<1>2. /\ Len(cmdstack) \in Nat /\ Len(cmdstack) > 0 /\ Top = cmdstack[Len(cmdstack)]
      /\ Len(cmdstack) \in 1 .. Len(cmdstack) /\ 1 \in 1 .. Len(cmdstack)
      /\ DOMAIN cmdstack = 1 .. Len(cmdstack)
  BY <1>1 DEF Top, Last
<1>3. Top \in Ids /\ Top \in ToSet(cmdstack) /\ cmdstack[1] \in ToSet(cmdstack) /\ cmdstack[1] \in Ids
  BY <1>1, <1>2, ElementOfSeq DEF ToSet
<1>4. objs[Top] \in ObjectType
  BY <1>3 DEF TypeInv, ObjectsOK
<1>5. objs[Top].cls \in DOMAIN CommandTable \cup {"shell", "none"}
  BY <1>4 DEF ObjectType
<1> QED BY <1>1, <1>2, <1>3, <1>5 DEF IsShell

\* What the frame of the running method is about.
LEMMA Running ==
  ASSUME TypeInv, todo # <<>>
  PROVE  /\ FrameOK(Head(todo), objs) /\ Self \in Ids \cup {0}
         /\ Head(todo).f \in {"lex", "run", "pop"} => Self \in Ids /\ IsShell(Self)
         /\ Head(todo).f = "do" => Self \in Ids /\ objs[Self].cls \in DOMAIN CommandTable
         /\ Self \in Ids => /\ objs[Self] \in ObjectType /\ objs[Self].pending \in Seq(Seq(Invocations))
                            /\ objs[Self].timers \in Nat /\ objs[Self].inter \in BOOLEAN
                            /\ ObjectOK(objs[Self])
<1>1. FrameOK(Head(todo), objs)
  BY HeadFrame DEF TypeInv
<1>2. Self \in Ids \cup {0}
  BY <1>1 DEF FrameOK, FrameType, Self
<1>3. Self \in Ids => objs[Self] \in ObjectType /\ ObjectOK(objs[Self])
  BY DEF TypeInv, ObjectsOK
<1>4. Self \in Ids => objs[Self].pending \in Seq(Seq(Invocations)) /\ objs[Self].timers \in Nat
                      /\ objs[Self].inter \in BOOLEAN
  BY <1>3 DEF ObjectType
<1> QED BY <1>1, <1>2, <1>3, <1>4 DEF FrameOK, Self, IsShell, ScriptOK

LEMMA PromptType ==
  ASSUME TypeInv, NEW i \in Ids
  PROVE  Prompts(i) \in BOOLEAN
<1>1. objs[i].inter \in BOOLEAN /\ prompt \in BOOLEAN
  BY DEF TypeInv, FlagsOK, ObjectsOK, ObjectType
<1> QED BY <1>1 DEF Prompts

LEMMA EndedType ==
  ASSUME TypeInv
  PROVE  ProcessEnded \in {"open", "closing", "closed"} /\ (conn = "closed" <=> ProcessEnded = "closed")
BY DEF TypeInv, FlagsOK, ProcessEnded

-----------------------------------------------------------------------------
(* Every step keeps the types.                                             *)

LEMMA LexTypes ==
  ASSUME TypeInv, LexCommand \/ LexSubshell \/ LexStops \/ LexFails \/ LexEnds
  PROVE  TypeInv'
<1>1. At("lex") /\ todo # <<>> /\ Head(todo).f = "lex" /\ Head(todo).f \notin Bottom
  BY DEF LexCommand, LexSubshell, LexStops, LexFails, LexEnds, Reads, At, Bottom
<1>2. /\ FrameOK(Head(todo), objs) /\ Self \in Ids /\ IsShell(Self)
      /\ objs[Self].pending \in Seq(Seq(Invocations))
  BY <1>1, Running
<1>3. Head(todo).x \in Seq(LineElement) /\ objs[Self].cls = "shell"
  BY <1>1, <1>2 DEF FrameOK, IsShell
<1>4. ASSUME Head(todo).x # <<>>
      PROVE  /\ Element.cmds \in Seq(Invocations) /\ Tail(Head(todo).x) \in Seq(LineElement)
             /\ \A os : os[Self].cls = "shell" => PushOK(<<NextElement>>, os) /\ FrameOK(NextElement, os)
                                                  /\ NextElement.f \notin Bottom
  <2>1. Element \in LineElement /\ Tail(Head(todo).x) \in Seq(LineElement)
    BY <1>3, <1>4, HeadTailProperties DEF Element
  <2>2. Element.cmds \in Seq(Invocations)
    BY <2>1 DEF LineElement
  <2> QED BY <2>1, <2>2, <1>2, LexFrame, PushOne DEF NextElement
<1>5. CASE LexCommand
  <2>1. Head(todo).x # <<>>
    BY <1>5 DEF LexCommand, Reads
  <2> DEFINE p == Append(objs[Self].pending, Element.cmds)
  <2>2. p \in Seq(Seq(Invocations))
    BY <2>1, <1>2, <1>4
  <2>3. objs' = [objs EXCEPT ![Self].pending = p] /\ Then(<<NextElement>>)
        /\ UNCHANGED <<conn, hist, cmdstack, pp, password_input, prompt, raised, stray, shared>>
    BY <1>5 DEF LexCommand
  <2> HIDE DEF p
  <2>4. ObjectsOK(objs') /\ SameClass(objs, objs')
    BY <2>2, <2>3, <1>2, PendingKept DEF TypeInv
  <2>5. FramesOK(<<NextElement>> \o Rest, objs')
    <3>1. objs'[Self].cls = "shell"
      BY <2>4, <1>2, <1>3 DEF SameClass
    <3> QED BY <3>1, <1>1, <1>4, <2>1, <2>4, Same, FramesKeep
  <2>6. StackOK(cmdstack, objs')
    BY <2>4, StackKept DEF TypeInv
  <2> QED BY <2>3, <2>4, <2>5, <2>6 DEF TypeInv, FlagsOK, Then, hist
<1>6. CASE LexSubshell
  <2>1. Head(todo).x # <<>> /\ Unused # {}
    BY <1>6 DEF LexSubshell, Reads
  <2> DEFINE line == <<[do |-> "add", cmds |-> Element.cmds]>>
  <2> DEFINE a == Frame("lex", NewId, line)
  <2> DEFINE b == Frame("pop", NewId, <<>>)
  <2>2. line \in Seq(LineElement)
    BY <2>1, <1>4 DEF LineElement
  <2>3. /\ objs' = [objs EXCEPT ![NewId] = Shell(FALSE)] /\ cmdstack' = Append(cmdstack, NewId)
        /\ Then(<<a, b, NextElement>>)
        /\ UNCHANGED <<conn, hist, pp, password_input, prompt, raised, stray, shared>>
    BY <1>6 DEF LexSubshell
  <2>4. /\ ObjectsOK(objs') /\ SameClasses(todo, objs, objs') /\ objs'[NewId].cls = "shell"
        /\ StackOK(cmdstack', objs') /\ NewId \in Ids
        /\ objs'[Self].cls = "shell"
    <3>1. Self # NewId /\ NewId \in Ids
      BY <1>1, <2>1, FreshId, HeadFrame DEF TypeInv, Self
    <3> QED BY <3>1, <2>1, <2>3, <1>2, <1>3, ShellObject, FreshKeeps
  <2> HIDE DEF line
  <2>5. FrameOK(a, objs') /\ a.f \notin Bottom /\ FrameOK(b, objs') /\ b.f \notin Bottom
    BY <2>2, <2>4, LexFrame, ShellFrame
  <2>6. FrameOK(NextElement, objs') /\ NextElement.f \notin Bottom
    BY <2>1, <2>4, <1>4
  <2> HIDE DEF a, b
  <2>7. PushOK(<<a, b, NextElement>>, objs')
    BY <2>5, <2>6 DEF PushOK, FrameOK
  <2>8. FramesOK(<<a, b, NextElement>> \o Rest, objs')
    BY <2>7, <2>4, <1>1, FramesKeep
  <2> QED BY <2>3, <2>4, <2>8 DEF TypeInv, FlagsOK, Then, hist
<1>7. CASE LexStops
  <2>1. PushOK(<<Frame("lex", Self, <<>>)>>, objs)
    <3>1. <<>> \in Seq(LineElement)
      OBVIOUS
    <3> QED BY <3>1, <1>2, <1>3, LexFrame, PushOne
  <2>2. FramesOK(<<Frame("lex", Self, <<>>)>> \o Rest, objs)
    BY <2>1, <1>1, Same, FramesKeep
  <2> QED BY <1>7, <2>2 DEF LexStops, TypeInv, FlagsOK, Then, hist
<1>8. CASE LexFails
  <2>1. <<>> \in Seq(Seq(Invocations))
    OBVIOUS
  <2>2. objs' = [objs EXCEPT ![Self].pending = <<>>] /\ Then(<<>>) /\ prompt' = Prompts(Self)
        /\ UNCHANGED <<conn, hist, cmdstack, pp, password_input, raised, stray, shared>>
    BY <1>8 DEF LexFails, Return
  <2>3. ObjectsOK(objs') /\ SameClass(objs, objs')
    BY <2>1, <2>2, <1>2, PendingKept DEF TypeInv
  <2>4. FramesOK(<<>> \o Rest, objs')
    BY <2>3, <1>1, PushNone, Same, FramesKeep
  <2>5. StackOK(cmdstack, objs') /\ prompt' \in BOOLEAN
    BY <2>2, <2>3, <1>2, StackKept, PromptType DEF TypeInv
  <2> QED BY <2>2, <2>3, <2>4, <2>5 DEF TypeInv, FlagsOK, Then, hist
<1>9. CASE LexEnds
  <2>1. PushOK(<<Frame("run", Self, <<>>)>>, objs)
    BY <1>2, <1>3, ShellFrame, PushOne
  <2>2. FramesOK(<<Frame("run", Self, <<>>)>> \o Rest, objs) /\ FramesOK(<<>> \o Rest, objs)
    BY <2>1, <1>1, PushNone, Same, FramesKeep
  <2>3. /\ todo' = <<Frame("run", Self, <<>>)>> \o Rest \/ todo' = <<>> \o Rest
        /\ prompt' = prompt \/ prompt' = Prompts(Self)
        /\ UNCHANGED <<conn, hist, objs, cmdstack, pp, password_input, raised, stray, shared>>
    BY <1>9 DEF LexEnds, Return, Then
  <2>4. prompt' \in BOOLEAN
    BY <2>3, <1>2, PromptType DEF TypeInv, FlagsOK
  <2> QED BY <2>2, <2>3, <2>4 DEF TypeInv, FlagsOK, hist
<1> QED BY <1>5, <1>6, <1>7, <1>8, <1>9

LEMMA RaiseFrames ==
  ASSUME TypeInv, todo # <<>>, Head(todo).f \notin Bottom
  PROVE  FramesOK(<<Frame("raise", 0, <<>>)>> \o Rest, objs) /\ FramesOK(<<>> \o Rest, objs)
<1>1. PushOK(<<Frame("raise", 0, <<>>)>>, objs)
  BY PlainFrame, PushOne
<1> QED BY <1>1, PushNone, Same, FramesKeep

LEMMA PopTypes ==
  ASSUME TypeInv, PopShell \/ PopNothing
  PROVE  TypeInv'
<1>1. todo # <<>> /\ Head(todo).f = "pop" /\ Head(todo).f \notin Bottom
  BY DEF PopShell, PopNothing, At, Bottom
<1>2. FramesOK(<<Frame("raise", 0, <<>>)>> \o Rest, objs) /\ FramesOK(<<>> \o Rest, objs)
  BY <1>1, RaiseFrames
<1>3. CASE PopShell
  <2>1. cmdstack # <<>> /\ cmdstack' = Front(cmdstack)
    BY <1>3 DEF PopShell
  <2>2. StackOK(cmdstack', objs)
    BY <2>1, FrontStack, StackWithout DEF TypeInv, StackOK
  <2>3. stray' \in BOOLEAN
    BY <1>3 DEF PopShell, TypeInv, FlagsOK
  <2> QED BY <1>2, <1>3, <2>2, <2>3 DEF PopShell, TypeInv, FlagsOK, Return, Then, hist
<1>4. CASE PopNothing
  BY <1>2, <1>4 DEF PopNothing, TypeInv, FlagsOK, Raise, Then, hist
<1> QED BY <1>3, <1>4

LEMMA RunTypes ==
  ASSUME TypeInv, RunNothing \/ RunAssignment \/ RunUnknown \/ RunPipe
  PROVE  TypeInv'
<1>1. todo # <<>> /\ Head(todo).f = "run" /\ Head(todo).f \notin Bottom
  BY DEF RunNothing, RunAssignment, RunUnknown, RunPipe, At, Bottom
<1>2. /\ Self \in Ids /\ IsShell(Self) /\ objs[Self].cls = "shell"
      /\ objs[Self].pending \in Seq(Seq(Invocations)) /\ Pending \in Seq(Seq(Invocations))
  BY <1>1, Running DEF IsShell, Pending
<1>3. Prompts(Self) \in BOOLEAN /\ ProcessEnded \in {"open", "closing", "closed"} /\ prompt \in BOOLEAN
      /\ conn \in {"open", "closing", "closed"}
  BY <1>2, PromptType, EndedType DEF TypeInv, FlagsOK
<1>4. ASSUME NEW os, ObjectsOK(os), SameClass(objs, os)
      PROVE  /\ FramesOK(<<Frame("run", Self, <<>>)>> \o Rest, os) /\ FramesOK(<<>> \o Rest, os)
             /\ \A cmds \in Seq(Runnable) : cmds # <<>> => FramesOK(<<Frame("call", 0, cmds)>> \o Rest, os)
  <2>1. os[Self].cls = "shell"
    BY <1>2, <1>4 DEF SameClass
  <2>2. PushOK(<<Frame("run", Self, <<>>)>>, os) /\ PushOK(<<>>, os)
    BY <1>2, <2>1, ShellFrame, PushOne, PushNone
  <2>3. \A cmds \in Seq(Runnable) : cmds # <<>> => PushOK(<<Frame("call", 0, cmds)>>, os)
    BY CallFrame, PushOne
  <2> QED BY <1>1, <1>4, <2>2, <2>3, Same, FramesKeep
<1>5. CASE RunNothing
  <2>1. FramesOK(<<>> \o Rest, objs)
    BY <1>4, Same DEF TypeInv
  <2>2. /\ prompt' \in {prompt, Prompts(Self)} /\ conn' \in {conn, ProcessEnded} /\ Then(<<>>)
        /\ UNCHANGED <<hist, objs, cmdstack, pp, password_input, raised, stray, shared>>
    BY <1>5 DEF RunNothing, Return
  <2> QED BY <2>1, <2>2, <1>3 DEF TypeInv, FlagsOK, Then, hist
<1>6. ASSUME Pending # <<>>, objs' = [objs EXCEPT ![Self].pending = Tail(@)]
      PROVE  ObjectsOK(objs') /\ SameClass(objs, objs') /\ StackOK(cmdstack, objs')
  <2>1. Tail(objs[Self].pending) \in Seq(Seq(Invocations))
    BY <1>2, <1>6, HeadTailProperties DEF Pending
  <2>2. ObjectsOK(objs') /\ SameClass(objs, objs')
    BY <2>1, <1>2, <1>6, PendingKept DEF TypeInv
  <2> QED BY <2>2, StackKept DEF TypeInv
<1>7. CASE RunAssignment \/ RunUnknown
  <2>1. /\ Pending # <<>> /\ objs' = [objs EXCEPT ![Self].pending = Tail(@)]
        /\ conn' \in {conn, ProcessEnded} /\ RunOrPrompt(Tail(Pending))
        /\ UNCHANGED <<hist, cmdstack, pp, password_input, raised, stray, shared>>
    BY <1>7 DEF RunAssignment, RunUnknown
  <2>2. /\ prompt' \in {prompt, Prompts(Self)}
        /\ todo' = <<Frame("run", Self, <<>>)>> \o Rest \/ todo' = <<>> \o Rest
    BY <2>1 DEF RunOrPrompt, Return, Then
  <2>3. ObjectsOK(objs') /\ SameClass(objs, objs') /\ StackOK(cmdstack, objs')
    BY <1>6, <2>1
  <2>4. FramesOK(todo', objs')
    BY <1>4, <2>2, <2>3
  <2> QED BY <2>1, <2>2, <2>3, <2>4, <1>3 DEF TypeInv, FlagsOK, hist
<1>8. CASE RunPipe
  <2>1. /\ Pending # <<>> /\ objs' = [objs EXCEPT ![Self].pending = Tail(@)]
        /\ Head(Pending) # <<>> /\ NotFound \notin ToSet(Head(Pending))
        /\ Then(<<Frame("call", 0, Head(Pending))>>)
        /\ UNCHANGED <<conn, hist, cmdstack, pp, password_input, prompt, raised, stray, shared>>
    BY <1>8 DEF RunPipe
  <2> DEFINE cmds == Head(Pending)
  <2>2. cmds \in Seq(Invocations)
    BY <1>2, <2>1, HeadTailProperties
  <2> HIDE DEF cmds
  <2>3. cmds \in Seq(Runnable)
    <3>1. \A k \in 1 .. Len(cmds) : cmds[k] \in ToSet(cmds) /\ cmds[k] \in Invocations
      BY <2>2 DEF ToSet
    <3>2. \A k \in 1 .. Len(cmds) : cmds[k] \in Runnable
      BY <3>1, <2>1 DEF Runnable, cmds
    <3>3. Len(cmds) \in Nat /\ cmds = [k \in 1 .. Len(cmds) |-> cmds[k]]
      BY <2>2
    <3> QED BY <3>2, <3>3
  <2>4. ObjectsOK(objs') /\ SameClass(objs, objs') /\ StackOK(cmdstack, objs')
    BY <1>6, <2>1
  <2>5. FramesOK(todo', objs')
    BY <1>4, <2>1, <2>3, <2>4 DEF cmds, Then
  <2> QED BY <2>1, <2>4, <2>5 DEF TypeInv, FlagsOK, hist
<1> QED BY <1>5, <1>7, <1>8

LEMMA CallTypes ==
  ASSUME TypeInv, CallCommand \/ CallOnNothing \/ OutConnectionLost
  PROVE  TypeInv'
<1>1. /\ todo # <<>> /\ Head(todo).f \in {"call", "lost"} /\ Head(todo).f \notin Bottom
      /\ Head(todo).f = "call" <=> ~OutConnectionLost
  BY DEF CallCommand, CallOnNothing, OutConnectionLost, At, Bottom
<1>2. FrameOK(Head(todo), objs)
  BY <1>1, Running
<1>3. ASSUME Head(todo).f = "call"
      PROVE  /\ Head(todo).x \in Seq(Runnable) /\ Head(todo).x # <<>>
             /\ Head(Head(todo).x) \in Runnable /\ Tail(Head(todo).x) \in Seq(Runnable)
  BY <1>2, <1>3, HeadTailProperties DEF FrameOK
<1>4. pp.owner \in Ids \cup {0} /\ pp.next \in Seq(Runnable) /\ pp.fed \in BOOLEAN
  BY DEF TypeInv, PipeOK
<1>5. CASE CallCommand
  <2> DEFINE new == Command(Head(Head(todo).x), pp.fed /\ Self = pp.owner)
  <2>1. /\ cmdstack # <<>> /\ Unused # {} /\ cmdstack' = Append(cmdstack, NewId) /\ pp' = Piped
        /\ UNCHANGED <<conn, hist, password_input, prompt, raised, stray>>
        /\ shared' = (shared \/ (new.cls \in Hiding /\ \E i \in Ids : Alive(i) /\ objs[i].cls \in Hiding))
    BY <1>5 DEF CallCommand
  <2>2. PICK r \in Rules(new.cls) :
          /\ objs' = [objs EXCEPT ![NewId] = [new EXCEPT !.at = IF r.to = "same" THEN @ ELSE r.to]]
          /\ Then(Script(NewId, r.do) \o <<Frame("lost", 0, <<>>)>>)
    BY <1>5 DEF CallCommand
  <2>3. Head(todo).f = "call"
    BY <1>5 DEF CallCommand, At
  <2>4. ObjectOK(new) /\ new.cls \in DOMAIN CommandTable /\ new.cls # "none"
    BY <2>3, <1>3, <1>4, CommandObject
  <2> DEFINE o == [new EXCEPT !.at = IF r.to = "same" THEN @ ELSE r.to]
  <2> HIDE DEF new
  <2>5. ScriptOK(new.cls, r.do) /\ r.to \in Phase
    BY <2>4, RuleScript
  <2>6. ObjectOK(o) /\ o.cls = new.cls
    BY <2>4, <2>5 DEF ObjectOK, ObjectType
  <2> HIDE DEF o
  <2>7. /\ ObjectsOK(objs') /\ SameClasses(todo, objs, objs') /\ objs'[NewId] = o
        /\ StackOK(cmdstack', objs') /\ NewId \in Ids
    BY <2>1, <2>2, <2>4, <2>6, FreshKeeps, FreshId DEF o
  <2>8. PushOK(Script(NewId, r.do), objs') /\ PushOK(<<Frame("lost", 0, <<>>)>>, objs')
    BY <2>5, <2>6, <2>7, ScriptFrames, PlainFrame, PushOne
  <2>9. FramesOK((Script(NewId, r.do) \o <<Frame("lost", 0, <<>>)>>) \o Rest, objs')
    BY <2>7, <2>8, <1>1, PushBoth, FramesKeep
  <2>10. PipeOK(pp')
    BY <2>1, <2>3, <2>7, <1>3 DEF Piped, PipeOK
  <2>11. shared' \in BOOLEAN
    BY <2>1 DEF TypeInv, FlagsOK
  <2> QED BY <2>1, <2>2, <2>7, <2>9, <2>10, <2>11 DEF TypeInv, FlagsOK, Then, hist
<1>6. CASE CallOnNothing
  <2>1. Head(todo).f = "call"
    BY <1>6 DEF CallOnNothing, At
  <2>2. PipeOK(pp')
    BY <2>1, <1>3, <1>6 DEF CallOnNothing, PipeOK
  <2> QED BY <2>2, <1>1, <1>6, RaiseFrames DEF CallOnNothing, TypeInv, FlagsOK, Raise, Then, hist
<1>7. CASE OutConnectionLost
  <2>1. pp.next # <<>> => PushOK(<<Frame("call", pp.owner, pp.next)>>, objs)
    BY <1>4, CallFrame, PushOne
  <2>2. FramesOK(todo', objs)
    <3>1. CASE pp.next = <<>>
      BY <3>1, <1>1, <1>7, RaiseFrames DEF OutConnectionLost, Then
    <3>2. CASE pp.next # <<>>
      <4>1. FramesOK(<<Frame("call", pp.owner, pp.next)>> \o Rest, objs)
        BY <3>2, <2>1, <1>1, Same, FramesKeep
      <4> QED BY <4>1, <3>2, <1>7 DEF OutConnectionLost, Then
    <3> QED BY <3>1, <3>2
  <2> QED BY <2>2, <1>7 DEF OutConnectionLost, TypeInv, FlagsOK, hist
<1> QED BY <1>5, <1>6, <1>7

\* A command does the first operation of what is left of its script.
LEMMA Doer ==
  ASSUME TypeInv, At("do")
  PROVE  /\ todo # <<>> /\ Head(todo).f = "do" /\ Head(todo).f \notin Bottom
         /\ Self \in Ids /\ objs[Self].cls \in DOMAIN CommandTable /\ ~IsShell(Self)
         /\ ObjectOK(objs[Self]) /\ objs[Self].timers \in Nat
         /\ ScriptOK(objs[Self].cls, Head(todo).x) /\ Head(todo).x # <<>>
         /\ Fits(objs[Self].cls, Head(Head(todo).x))
         /\ \A os : SameClasses(todo, objs, os) => FramesOK(After \o Rest, os) /\ PushOK(After, os)
<1>1. todo # <<>> /\ Head(todo).f = "do" /\ Head(todo).f \notin Bottom
  BY DEF At, Bottom
<1>2. /\ FrameOK(Head(todo), objs) /\ Self \in Ids /\ objs[Self].cls \in DOMAIN CommandTable
      /\ ObjectOK(objs[Self]) /\ objs[Self].timers \in Nat
  BY <1>1, Running
<1>3. ScriptOK(objs[Self].cls, Head(todo).x) /\ Head(todo).x # <<>>
  BY <1>1, <1>2 DEF FrameOK, Self
<1>4. Fits(objs[Self].cls, Head(Head(todo).x)) /\ ScriptOK(objs[Self].cls, Tail(Head(todo).x))
  BY <1>3, TailScript
<1>5. ~IsShell(Self)
  BY <1>2 DEF IsShell, CommandTable
<1>6. ASSUME NEW os, SameClasses(todo, objs, os)
      PROVE  FramesOK(After \o Rest, os) /\ PushOK(After, os)
  <2>1. os[Self].cls = objs[Self].cls
    BY <1>1, <1>2, <1>6, HeadFrame DEF SameClasses, TypeInv, Self
  <2>2. PushOK(After, os)
    BY <2>1, <1>2, <1>4, ScriptFrames DEF After
  <2> QED BY <2>2, <1>1, <1>6, FramesKeep
<1> QED BY <1>1, <1>2, <1>3, <1>4, <1>5, <1>6

LEMMA WriteTypes ==
  ASSUME TypeInv, DoWrite \/ DoEnd \/ DoTerminal \/ DoFail \/ DoUser \/ DoEcho \/ DoExitAlone \/ DoExitAgain
  PROVE  TypeInv'
<1>1. At("do")
  BY DEF DoWrite, DoEnd, DoTerminal, DoFail, DoUser, DoEcho, DoExitAlone, DoExitAgain, Doing
<1>2. FramesOK(After \o Rest, objs) /\ FramesOK(<<Frame("raise", 0, <<>>)>> \o Rest, objs)
  BY <1>1, Doer, Same, RaiseFrames
<1>3. ProcessEnded \in {"open", "closing", "closed"}
  BY EndedType
<1>4. CASE DoWrite
  <2>1. PipeOK([pp EXCEPT !.fed = TRUE])
    BY DEF TypeInv, PipeOK
  <2>2. PipeOK(pp')
    BY <2>1, <1>4 DEF DoWrite, TypeInv
  <2> QED BY <2>2, <1>2, <1>4 DEF DoWrite, Finish, Then, TypeInv, FlagsOK, hist
<1>5. CASE DoEnd
  BY <1>2, <1>3, <1>5 DEF DoEnd, Finish, Then, TypeInv, FlagsOK, hist
<1>6. CASE DoTerminal
  BY <1>2, <1>6 DEF DoTerminal, Finish, Then, TypeInv, FlagsOK, hist
<1>7. CASE DoFail
  BY <1>2, <1>7 DEF DoFail, Raise, Then, TypeInv, FlagsOK, hist
<1>8. CASE DoUser
  BY <1>2, <1>8 DEF DoUser, Finish, Then, TypeInv, FlagsOK, hist
<1>9. CASE DoEcho
  <2>1. password_input' \in BOOLEAN
    BY <1>9 DEF DoEcho
  <2> QED BY <2>1, <1>2, <1>9 DEF DoEcho, Finish, Then, TypeInv, FlagsOK, hist
<1>10. CASE DoExitAlone
  BY <1>2, <1>3, <1>10 DEF DoExitAlone, Finish, Then, TypeInv, FlagsOK, hist
<1>11. CASE DoExitAgain
  BY <1>2, <1>11 DEF DoExitAgain, Raise, Then, TypeInv, FlagsOK, hist
<1> QED BY <1>4, <1>5, <1>6, <1>7, <1>8, <1>9, <1>10, <1>11

LEMMA FrameTypes ==
  ASSUME TypeInv, DoTry \/ DoChain \/ DoTimer \/ DoQueue
  PROVE  TypeInv'
<1>1. At("do")
  BY DEF DoTry, DoChain, DoTimer, DoQueue, Doing
<1>2. /\ todo # <<>> /\ Head(todo).f \notin Bottom /\ PushOK(After, objs)
      /\ Self \in Ids /\ objs[Self].cls \in DOMAIN CommandTable /\ objs[Self].timers \in Nat
      /\ \A os : SameClasses(todo, objs, os) => FramesOK(After \o Rest, os)
  BY <1>1, Doer, Same
<1>3. CASE DoTry
  <2>1. PushOK(<<Frame("try", 0, <<>>)>>, objs)
    BY PlainFrame, PushOne
  <2>2. FramesOK((After \o <<Frame("try", 0, <<>>)>>) \o Rest, objs)
    BY <2>1, <1>2, PushBoth, Same, FramesKeep
  <2> QED BY <2>2, <1>3 DEF DoTry, Then, TypeInv, FlagsOK, hist
<1>4. CASE DoChain
  <2>1. PushOK(<<Frame("lost", 0, <<>>)>>, objs)
    BY PlainFrame, PushOne
  <2>2. FramesOK((<<Frame("lost", 0, <<>>)>> \o After) \o Rest, objs)
    BY <2>1, <1>2, PushBoth, Same, FramesKeep
  <2> QED BY <2>2, <1>4 DEF DoChain, Then, TypeInv, FlagsOK, hist
<1>5. CASE DoTimer
  <2>1. PICK n \in {objs[Self].timers + 1, 0} : objs' = [objs EXCEPT ![Self].timers = n]
    BY <1>5 DEF DoTimer
  <2>2. n \in Nat
    BY <2>1, <1>2
  <2>3. ObjectsOK(objs') /\ SameClass(objs, objs')
    BY <2>1, <2>2, <1>2, TimersKept DEF TypeInv
  <2>4. FramesOK(After \o Rest, objs') /\ StackOK(cmdstack, objs')
    BY <2>3, <1>2, Same, StackKept DEF TypeInv
  <2> QED BY <2>3, <2>4, <1>5 DEF DoTimer, Finish, Then, TypeInv, FlagsOK, hist
<1>6. CASE DoQueue
  <2> DEFINE b == cmdstack[1]
  <2> DEFINE q == Queued(Received)
  <2>1. q \in Seq(Invocations)
    <3>1. Received \in Lines \cup LaterLines \cup {<<>>}
      BY <1>2, LastFrame DEF Received, TypeInv, FrameOK
    <3> QED BY <3>1, ShellAssumption
  <2> HIDE DEF b, q
  <2>2. /\ \/ objs' = objs /\ Raise
           \/ objs' = [objs EXCEPT ![b].pending = Append(@, q)] /\ Finish
        /\ UNCHANGED <<conn, hist, cmdstack, pp, password_input, prompt, raised, stray, shared>>
    BY <1>6 DEF DoQueue, b, q
  <2>3. ObjectsOK(objs') /\ SameClass(objs, objs')
    <3>1. CASE objs' = objs
      BY <3>1, Same DEF TypeInv
    <3>2. CASE b \notin Ids /\ objs' = [objs EXCEPT ![b].pending = Append(@, q)]
      <4>1. objs' = objs
        BY <3>2 DEF TypeInv, ObjectsOK
      <4> QED BY <3>1, <4>1
    <3>3. CASE b \in Ids /\ objs' = [objs EXCEPT ![b].pending = Append(@, q)]
      <4>1. objs[b].pending \in Seq(Seq(Invocations))
        BY <3>3 DEF TypeInv, ObjectsOK, ObjectType
      <4>2. Append(objs[b].pending, q) \in Seq(Seq(Invocations))
        BY <4>1, <2>1
      <4> QED BY <4>2, <3>3, PendingKept DEF TypeInv
    <3> QED BY <2>2, <3>1, <3>2, <3>3
  <2>4. FramesOK(After \o Rest, objs') /\ StackOK(cmdstack, objs')
    BY <2>3, <1>2, Same, StackKept DEF TypeInv
  <2>5. FramesOK(todo', objs')
    <3>1. CASE Finish
      BY <3>1, <2>4 DEF Finish, Then
    <3>2. CASE Raise /\ objs' = objs
      BY <3>2, <1>2, RaiseFrames DEF Raise, Then
    <3> QED BY <3>1, <3>2, <2>2
  <2> QED BY <2>2, <2>3, <2>4, <2>5 DEF TypeInv, FlagsOK, hist
<1> QED BY <1>3, <1>4, <1>5, <1>6

LEMMA StackTypes ==
  ASSUME TypeInv, DoExit \/ DoPop \/ DoRun \/ DoInteractive \/ DoInsert
  PROVE  TypeInv'
<1>1. At("do")
  BY DEF DoExit, DoPop, DoRun, DoInteractive, DoInsert, Doing
<1>2. /\ todo # <<>> /\ Head(todo).f \notin Bottom /\ PushOK(After, objs)
      /\ Self \in Ids /\ objs[Self].cls \in DOMAIN CommandTable /\ ObjectOK(objs[Self])
      /\ Fits(objs[Self].cls, Head(Head(todo).x))
      /\ \A os : SameClasses(todo, objs, os) => FramesOK(After \o Rest, os) /\ PushOK(After, os)
  BY <1>1, Doer, Same
<1>3. cmdstack \in Seq(Ids) /\ IsInjective(cmdstack)
  BY DEF TypeInv, StackOK
<1>4. CASE DoExit
  <2>1. Without(cmdstack, cmdstack', Self)
    BY <1>3, <1>4, RemoveStack DEF DoExit
  <2>2. StackOK(cmdstack', objs)
    BY <2>1, StackWithout DEF TypeInv
  <2>3. FramesOK(todo', objs)
    <3>1. CASE cmdstack' # <<>> /\ IsShell(Last(cmdstack'))
      <4>1. Last(cmdstack') \in Ids
        BY <3>1, <2>1 DEF Without, Last
      <4>2. PushOK(<<Frame("run", Last(cmdstack'), <<>>)>>, objs)
        BY <3>1, <4>1, ShellFrame, PushOne DEF IsShell
      <4>3. FramesOK((<<Frame("run", Last(cmdstack'), <<>>)>> \o After) \o Rest, objs)
        BY <4>2, <1>2, PushBoth, Same, FramesKeep
      <4> QED BY <4>3, <3>1, <1>4 DEF DoExit, Then
    <3>2. CASE ~(cmdstack' # <<>> /\ IsShell(Last(cmdstack')))
      BY <3>2, <1>2, <1>4, Same DEF DoExit, Then
    <3> QED BY <3>1, <3>2
  <2> QED BY <2>2, <2>3, <1>4 DEF DoExit, TypeInv, FlagsOK, hist
<1>5. CASE DoPop
  <2> DEFINE below == Len(cmdstack) - 1
  <2>1. /\ Len(cmdstack) > 1 /\ Then(After) /\ cmdstack' = RemoveAt(cmdstack, below)
        /\ stray' = (stray \/ ~IsShell(cmdstack[below])) /\ conn' \in {conn, ProcessEnded}
        /\ UNCHANGED <<hist, objs, pp, password_input, prompt, raised, shared>>
    BY <1>5 DEF DoPop, Finish
  <2>2. below \in 1 .. Len(cmdstack)
    BY <2>1, <1>3
  <2>3. Without(cmdstack, cmdstack', cmdstack[below])
    BY <2>1, <2>2, <1>3, DropStack
  <2>4. StackOK(cmdstack', objs)
    BY <2>3, StackWithout DEF TypeInv
  <2>5. FramesOK(After \o Rest, objs)
    BY <1>2, Same
  <2>6. conn' \in {"open", "closing", "closed"} /\ stray' \in BOOLEAN
    BY <2>1, EndedType DEF TypeInv, FlagsOK
  <2> QED BY <2>1, <2>4, <2>5, <2>6 DEF TypeInv, FlagsOK, Then, hist
<1>6. CASE DoRun
  <2> DEFINE a == Frame("lex", NewId, objs[Self].sub)
  <2> DEFINE b == Frame("pop", NewId, <<>>)
  <2>1. /\ Unused # {} /\ objs' = [objs EXCEPT ![NewId] = Shell(FALSE)]
        /\ cmdstack' = Append(cmdstack, NewId) /\ Then(<<a, b>> \o After)
        /\ UNCHANGED <<conn, hist, pp, password_input, prompt, raised, stray, shared>>
    BY <1>6 DEF DoRun
  <2>2. /\ ObjectsOK(objs') /\ SameClasses(todo, objs, objs') /\ objs'[NewId].cls = "shell"
        /\ StackOK(cmdstack', objs') /\ NewId \in Ids
    BY <2>1, ShellObject, FreshKeeps, FreshId
  <2>3. objs[Self].sub \in Seq(LineElement)
    <3>1. Fits(objs[Self].cls, "run")
      BY <1>2, <1>6 DEF DoRun, Doing
    <3> QED BY <3>1, <1>2 DEF Fits, ObjectOK
  <2>4. FrameOK(a, objs') /\ a.f \notin Bottom /\ FrameOK(b, objs') /\ b.f \notin Bottom
    BY <2>2, <2>3, LexFrame, ShellFrame
  <2> HIDE DEF a, b
  <2>5. PushOK(<<a, b>>, objs')
    BY <2>4 DEF PushOK, FrameOK
  <2>6. FramesOK((<<a, b>> \o After) \o Rest, objs')
    BY <2>2, <2>5, <1>2, PushBoth, FramesKeep
  <2> QED BY <2>1, <2>2, <2>6 DEF TypeInv, FlagsOK, Then, hist
<1>7. CASE DoInteractive
  <2> DEFINE s == Append(cmdstack, NewId)
  <2>1. /\ Unused # {} /\ objs' = [objs EXCEPT ![NewId] = Shell(TRUE)]
        /\ cmdstack' = RemoveFirst(s, Self) /\ Then(After) /\ prompt' = TRUE
        /\ UNCHANGED <<conn, hist, pp, password_input, raised, stray, shared>>
    BY <1>7 DEF DoInteractive, Finish
  <2>2. ObjectsOK(objs') /\ SameClasses(todo, objs, objs') /\ StackOK(s, objs') /\ NewId \in Ids
    BY <2>1, ShellObject, FreshKeeps, FreshId
  <2> HIDE DEF s
  <2>3. StackOK(cmdstack', objs')
    <3>1. CASE Self \in ToSet(s)
      BY <3>1, <2>1, <2>2, RemoveStack, StackWithout DEF StackOK
    <3>2. CASE Self \notin ToSet(s)
      <4>1. cmdstack' = s
        <5>1. s \in Seq(Ids) /\ DOMAIN s = 1 .. Len(s)
          BY <2>2 DEF StackOK
        <5> QED BY <5>1, <3>2, <2>1 DEF RemoveFirst, ToSet
      <4> QED BY <4>1, <2>2
    <3> QED BY <3>1, <3>2
  <2>4. FramesOK(After \o Rest, objs')
    BY <2>2, <1>2
  <2> QED BY <2>1, <2>2, <2>3, <2>4 DEF TypeInv, FlagsOK, Then, hist
<1>8. CASE DoInsert
  <2>1. objs[Self].sub \in Seq(Runnable)
    <3>1. Fits(objs[Self].cls, "insert")
      BY <1>2, <1>8 DEF DoInsert, Doing
    <3> QED BY <3>1, <1>2 DEF Fits, ObjectOK
  <2>2. pp \in [owner : Ids \cup {0}, next : Seq(Runnable), fed : BOOLEAN]
    BY DEF TypeInv, PipeOK
  <2>3. objs[Self].sub \o pp.next \in Seq(Runnable)
    BY <2>1, <2>2, ConcatProperties
  <2>4. PipeOK(pp')
    BY <2>2, <2>3, <1>8 DEF DoInsert, PipeOK
  <2>5. FramesOK(After \o Rest, objs)
    BY <1>2, Same
  <2> QED BY <2>4, <2>5, <1>8 DEF DoInsert, Finish, Then, TypeInv, FlagsOK, hist
<1> QED BY <1>4, <1>5, <1>6, <1>7, <1>8

\* A rule that an object of the table has on an event.
LEMMA HandledTypes ==
  ASSUME TypeInv, NEW i \in Ids, objs[i].cls \in DOMAIN CommandTable, NEW event,
         NEW r \in Handlers(i, event)
  PROVE  /\ ObjectsOK(Handled(i, r)) /\ SameClass(objs, Handled(i, r))
         /\ r \in Rules(objs[i].cls) /\ r.on = event /\ SoundRule(objs[i].cls, r)
         /\ Allowed(objs[i].cls, event, r.do)
         /\ ScriptOK(objs[i].cls, r.do) /\ PushOK(Script(i, r.do), Handled(i, r))
         /\ StackOK(cmdstack, Handled(i, r))
<1>1. r \in Rules(objs[i].cls) /\ r.on = event
  BY DEF Handlers
<1>2. /\ ScriptOK(objs[i].cls, r.do) /\ r.to \in Phase
      /\ SoundRule(objs[i].cls, r) /\ Allowed(objs[i].cls, event, r.do)
  BY <1>1, RuleScript
<1>3. objs[i].at \in Phase
  BY DEF TypeInv, ObjectsOK, ObjectType
<1> DEFINE a == IF r.to = "same" THEN objs[i].at ELSE r.to
<1>4. a \in Phase /\ Handled(i, r) = [objs EXCEPT ![i].at = a]
  BY <1>2, <1>3 DEF Handled
<1> HIDE DEF a
<1>5. ObjectsOK(Handled(i, r)) /\ SameClass(objs, Handled(i, r))
  <2>1. ObjectsOK(objs)
    BY DEF TypeInv
  <2>2. ObjectsOK([objs EXCEPT ![i].at = a]) /\ SameClass(objs, [objs EXCEPT ![i].at = a])
    BY <2>1, <1>4, PhaseKept
  <2> QED BY <2>2, <1>4
<1>6. PushOK(Script(i, r.do), Handled(i, r))
  BY <1>2, <1>5, ScriptFrames DEF SameClass
<1>7. StackOK(cmdstack, Handled(i, r))
  BY <1>5, StackKept DEF TypeInv
<1> QED BY <1>1, <1>2, <1>5, <1>6, <1>7

\* The frames below one that has raised.
LEMMA Below ==
  ASSUME TypeInv, At("raise"), Rest # <<>>
  PROVE  /\ todo # <<>> /\ Head(todo).f \notin Bottom /\ Head(todo).f = "raise"
         /\ FramesOK(Rest, objs) /\ FrameOK(Head(Rest), objs) /\ FrameOK(Head(todo), objs)
         /\ Len(Rest) = Len(todo) - 1 /\ Len(todo) \in Nat /\ Head(Rest) = todo[2]
         /\ \A k \in 1 .. Len(Rest) : Rest[k] = todo[k + 1]
         /\ (Head(Rest).f \in Bottom <=> Tail(Rest) = <<>>)
         /\ Last(Rest) = Last(todo)
         /\ \A os : Head(Rest).f \notin Bottom /\ SameClass(objs, os) =>
              FramesOK(Tail(Rest), os)
<1>1. todo # <<>> /\ Head(todo).f = "raise" /\ Head(todo).f \notin Bottom
  BY DEF At, Bottom
<1>2. /\ todo \in Seq(FrameType) /\ Rest \in Seq(FrameType) /\ Len(todo) \in Nat /\ Len(todo) > 0
      /\ Len(Rest) = Len(todo) - 1 /\ FrameOK(Head(todo), objs)
      /\ \A k \in 1 .. Len(todo) - 1 : Rest[k] = todo[k + 1]
  BY <1>1, HeadFrame DEF TypeInv, Rest
<1>3. ASSUME NEW k \in 1 .. Len(Rest)
      PROVE  FrameOK(Rest[k], objs) /\ (Rest[k].f \in Bottom <=> k = Len(Rest))
  <2>1. Rest[k] = todo[k + 1] /\ k + 1 \in 1 .. Len(todo) /\ (k + 1 = Len(todo) <=> k = Len(Rest))
    BY <1>2
  <2> QED BY <2>1 DEF TypeInv, FramesOK
<1>4. FramesOK(Rest, objs)
  BY <1>2, <1>3 DEF FramesOK
<1>5. /\ FrameOK(Head(Rest), objs) /\ Head(Rest) = Rest[1] /\ 1 \in 1 .. Len(Rest)
      /\ Tail(Rest) \in Seq(FrameType) /\ Len(Rest) \in Nat /\ Len(Tail(Rest)) = Len(Rest) - 1
      /\ \A k \in 1 .. Len(Rest) - 1 : Tail(Rest)[k] = Rest[k + 1]
  BY <1>4, HeadFrame
<1>6. Head(Rest).f \in Bottom <=> Tail(Rest) = <<>>
  <2>1. Tail(Rest) = <<>> <=> Len(Tail(Rest)) = 0
    BY <1>5, EmptySeq
  <2>2. Rest[1].f \in Bottom <=> 1 = Len(Rest)
    BY <1>3, <1>5
  <2> QED BY <2>1, <2>2, <1>5
<1>7. ASSUME NEW os, Head(Rest).f \notin Bottom, SameClass(objs, os)
      PROVE  FramesOK(Tail(Rest), os)
  <2>1. SameClasses(Rest, objs, os)
    BY <1>7 DEF SameClass, SameClasses
  <2>2. FramesOK(Rest, os) /\ PushOK(<<>>, os)
    BY <1>4, <2>1, FramesKept, PushNone
  <2>3. FramesOK(<<>> \o Tail(Rest), os)
    BY <2>2, <1>7, ThenFrames
  <2>4. <<>> \o Tail(Rest) = Tail(Rest)
    BY <1>5, ConcatEmptySeq
  <2> QED BY <2>3, <2>4
<1>8. Last(Rest) = Last(todo)
  BY <1>2, <1>5 DEF Last
<1> QED BY <1>1, <1>2, <1>4, <1>5, <1>6, <1>7, <1>8

LEMMA RaiseTypes ==
  ASSUME TypeInv, Propagate \/ SyntaxError \/ Swallowed \/ TryEnds \/ Errback \/ Logged \/ Dropped
  PROVE  TypeInv'
<1>1. ASSUME Propagate \/ SyntaxError \/ Swallowed \/ Errback \/ Logged \/ Dropped
      PROVE  At("raise") /\ Rest # <<>>
  BY <1>1 DEF Propagate, SyntaxError, Swallowed, Errback, Logged, Dropped, Thrown
<1>2. CASE Propagate
  <2>1. /\ FramesOK(Tail(Rest), objs) /\ FrameOK(Head(todo), objs) /\ Head(todo).f \notin Bottom
        /\ FramesOK(Rest, objs) /\ Head(Rest).f \notin Bottom /\ Rest # <<>>
    <3>1. Head(Rest).f \notin Bottom
      BY <1>2 DEF Propagate, Bottom
    <3> QED BY <3>1, <1>1, <1>2, Below, Same
  <2>2. FramesOK(<<Head(todo)>> \o Tail(Rest), objs)
    BY <2>1, PushOne, ThenFrames
  <2> QED BY <2>2, <1>2 DEF Propagate, TypeInv, FlagsOK, hist
<1>3. CASE SyntaxError
  <2> DEFINE sh == Head(Rest).id
  <2>1. /\ Head(Rest).f = "lex" /\ objs' = [objs EXCEPT ![sh].pending = <<>>] /\ prompt' = Prompts(sh)
        /\ todo' = Tail(Rest) /\ raised' = TRUE
        /\ UNCHANGED <<conn, hist, cmdstack, pp, password_input, stray, shared>>
    BY <1>3 DEF SyntaxError, Thrown
  <2>2. sh \in Ids
    BY <2>1, <1>1, <1>3, Below DEF FrameOK
  <2> HIDE DEF sh
  <2>3. <<>> \in Seq(Seq(Invocations))
    OBVIOUS
  <2>4. ObjectsOK(objs') /\ SameClass(objs, objs')
    BY <2>1, <2>2, <2>3, PendingKept DEF TypeInv
  <2>5. FramesOK(todo', objs')
    <3>1. Head(Rest).f \notin Bottom
      BY <2>1 DEF Bottom
    <3> QED BY <3>1, <2>1, <2>4, <1>1, <1>3, Below
  <2>6. StackOK(cmdstack, objs') /\ prompt' \in BOOLEAN
    BY <2>1, <2>2, <2>4, StackKept, PromptType DEF TypeInv
  <2> QED BY <2>1, <2>4, <2>5, <2>6 DEF TypeInv, FlagsOK, hist
<1>4. CASE Swallowed
  <2>1. Head(Rest).f \notin Bottom
    BY <1>4 DEF Swallowed, Thrown, Bottom
  <2>2. FramesOK(Tail(Rest), objs)
    BY <2>1, <1>1, <1>4, Below, Same
  <2> QED BY <2>2, <1>4 DEF Swallowed, TypeInv, FlagsOK, hist
<1>5. CASE TryEnds
  <2>1. todo # <<>> /\ Head(todo).f \notin Bottom
    BY <1>5 DEF TryEnds, At, Bottom
  <2>2. FramesOK(<<>> \o Rest, objs)
    BY <2>1, RaiseFrames
  <2> QED BY <2>2, <1>5 DEF TryEnds, Return, Then, TypeInv, FlagsOK, hist
<1>6. CASE Errback
  <2> DEFINE i == Head(Rest).id
  <2>1. PICK r \in Handlers(i, "error") :
          /\ Head(Rest).f = "deferred" /\ objs' = Handled(i, r)
          /\ todo' = Script(i, r.do) \o <<Frame("later", i, <<>>)>>
          /\ UNCHANGED <<conn, hist, cmdstack, pp, password_input, prompt, raised, stray, shared>>
    BY <1>6 DEF Errback, Thrown
  <2>2. i \in Ids /\ objs[i].cls \in DOMAIN CommandTable
    BY <2>1, <1>1, <1>6, Below DEF FrameOK
  <2> HIDE DEF i
  <2>3. ObjectsOK(objs') /\ PushOK(Script(i, r.do), objs') /\ StackOK(cmdstack, objs')
    BY <2>1, <2>2, HandledTypes
  <2>4. FramesOK(todo', objs')
    BY <2>1, <2>2, <2>3, BottomFrame, EventFrames
  <2> QED BY <2>1, <2>3, <2>4 DEF TypeInv, FlagsOK, hist
<1>7. CASE Logged
  <2>1. FramesOK(Rest, objs)
    BY <1>1, <1>7, Below
  <2> QED BY <2>1, <1>7 DEF Logged, TypeInv, FlagsOK, hist
<1>8. CASE Dropped
  <2>1. FramesOK(Rest, objs)
    BY <1>1, <1>8, Below
  <2>2. StackOK(<<>>, objs) /\ PipeOK(NoPP)
    BY DEF StackOK, PipeOK, NoPP, IsInjective, ToSet
  <2> QED BY <2>1, <2>2, <1>8 DEF Dropped, ConnectionLost, TypeInv, FlagsOK, hist
<1> QED BY <1>2, <1>3, <1>4, <1>5, <1>6, <1>7, <1>8

LEMMA Forget ==
  ASSUME TypeInv, NEW os, \A i \in Ids : os[i] \in {objs[i], NoObject}, os = [i \in Ids |-> os[i]]
  PROVE  ObjectsOK(os)
BY NoneObject DEF TypeInv, ObjectsOK, ObjectOK

LEMMA EventTypes ==
  ASSUME TypeInv,
         \/ LineToShell \/ LineToCommand \/ LineDiscarded \/ ControlKey \/ CtrlCToShell \/ CtrlDToShell
         \/ EofOrTimeout \/ Disconnect \/ ToReactor
  PROVE  TypeInv'
<1>1. inputs < MaxInputs /\ inputs' = inputs + 1 => inputs' \in 0 .. MaxInputs
  BY Bounds DEF TypeInv, FlagsOK
<1>2. ProcessEnded \in {"open", "closing", "closed"} /\ FramesOK(<<>>, objs)
  BY EndedType DEF FramesOK
<1>3. ASSUME Receives
      PROVE  inputs' \in 0 .. MaxInputs /\ \A line \in Typed : line \in Lines \cup LaterLines \cup {<<>>}
  BY <1>1, <1>3 DEF Receives, Typed
<1>4. CASE LineToShell
  <2>1. PICK line \in Typed : todo' = <<Frame("lex", Top, line), Frame("input", 0, <<>>)>>
    BY <1>4 DEF LineToShell
  <2>2. Top \in Ids /\ objs[Top].cls = "shell"
    BY <1>4, StackTop DEF LineToShell, IsShell
  <2>3. line \in Seq(LineElement)
    BY <1>4, ShellAssumption DEF LineToShell, Typed
  <2> DEFINE a == Frame("lex", Top, line)
  <2> DEFINE b == Frame("input", 0, <<>>)
  <2>4. FrameOK(a, objs) /\ a.f \notin Bottom /\ FrameOK(b, objs) /\ b.f \in Bottom
    BY <2>2, <2>3, LexFrame, BottomFrame
  <2> HIDE DEF a, b
  <2>5. FramesOK(<<a, b>>, objs)
    BY <2>4 DEF FramesOK, FrameOK
  <2> QED BY <2>1, <2>5, <1>3, <1>4 DEF LineToShell, Receives, TypeInv, FlagsOK, a, b
<1>5. CASE LineToCommand
  <2>1. PICK line \in Typed, r \in Handlers(Top, "line") :
          objs' = Handled(Top, r) /\ todo' = Script(Top, r.do) \o <<Frame("input", 0, line)>>
    BY <1>5 DEF LineToCommand
  <2>2. Top \in Ids /\ objs[Top].cls \in DOMAIN CommandTable /\ Receives
    BY <1>5, StackTop DEF LineToCommand
  <2>3. ObjectsOK(objs') /\ PushOK(Script(Top, r.do), objs') /\ StackOK(cmdstack, objs')
    BY <2>1, <2>2, HandledTypes
  <2>4. FrameOK(Frame("input", 0, line), objs') /\ Frame("input", 0, line).f \in Bottom
    BY <2>2, <1>3, BottomFrame
  <2>5. FramesOK(todo', objs')
    BY <2>1, <2>3, <2>4, EventFrames
  <2> QED BY <2>2, <2>3, <2>5, <1>3, <1>5 DEF LineToCommand, Receives, TypeInv, FlagsOK
<1>6. CASE ControlKey
  <2>1. PICK event \in {"ctrlC", "ctrlD"} : Key(event)
    BY <1>6 DEF ControlKey
  <2>2. PICK r \in Handlers(Top, event) :
          /\ objs' = Handled(Top, r)
          /\ todo' = Script(Top, r.do) \o <<Frame("input", IF event = "ctrlC" THEN Top ELSE 0, <<>>)>>
    BY <2>1 DEF Key
  <2>3. Top \in Ids /\ objs[Top].cls \in DOMAIN CommandTable /\ Receives
    BY <1>6, StackTop DEF ControlKey
  <2>4. ObjectsOK(objs') /\ PushOK(Script(Top, r.do), objs') /\ StackOK(cmdstack, objs')
    BY <2>2, <2>3, HandledTypes
  <2> DEFINE i == IF event = "ctrlC" THEN Top ELSE 0
  <2>5. i \in Ids \cup {0}
    BY <2>3
  <2> HIDE DEF i
  <2>6. FrameOK(Frame("input", i, <<>>), objs') /\ Frame("input", i, <<>>).f \in Bottom
    BY <2>5, BottomFrame
  <2>7. FramesOK(todo', objs')
    BY <2>2, <2>4, <2>6, EventFrames DEF i
  <2> QED BY <2>3, <2>4, <2>7, <1>3, <1>6 DEF ControlKey, Receives, TypeInv, FlagsOK
<1>7. CASE LineDiscarded \/ CtrlDToShell
  <2>1. Receives /\ conn' = ProcessEnded /\
        UNCHANGED <<interactive, objs, cmdstack, pp, todo, password_input, prompt, raised, stray, shared>>
    BY <1>7 DEF LineDiscarded, CtrlDToShell
  <2> QED BY <2>1, <1>2, <1>3 DEF TypeInv, FlagsOK
<1>8. CASE CtrlCToShell
  <2>1. Top \in Ids /\ Receives /\ prompt' = Prompts(Top) /\
        UNCHANGED <<conn, interactive, objs, cmdstack, pp, todo, password_input, raised, stray, shared>>
    BY <1>8, StackTop DEF CtrlCToShell
  <2>2. prompt' \in BOOLEAN
    BY <2>1, PromptType
  <2> QED BY <2>1, <2>2, <1>3 DEF TypeInv, FlagsOK
<1>9. CASE EofOrTimeout
  BY <1>9 DEF EofOrTimeout, TypeInv, FlagsOK, hist
<1>10. CASE Disconnect
  <2>1. /\ objs' = [i \in Ids |-> IF objs[i].timers > 0 THEN objs[i] ELSE NoObject]
        /\ todo = <<>> /\ conn' = "closed" /\ cmdstack' = <<>> /\ pp' = NoPP
        /\ UNCHANGED <<hist, todo, password_input, prompt, raised, stray, shared>>
    BY <1>10 DEF Disconnect, Idle, ConnectionLost
  <2>2. ObjectsOK(objs')
    <3>1. (\A i \in Ids : objs'[i] \in {objs[i], NoObject}) /\ objs' = [i \in Ids |-> objs'[i]]
      BY <2>1
    <3> QED BY <3>1, Forget
  <2>3. StackOK(<<>>, objs') /\ PipeOK(NoPP) /\ FramesOK(<<>>, objs')
    BY DEF StackOK, PipeOK, NoPP, IsInjective, ToSet, FramesOK
  <2> QED BY <2>1, <2>2, <2>3 DEF TypeInv, FlagsOK, hist
<1>11. CASE ToReactor
  <2>1. /\ objs' = [i \in Ids |-> IF Alive(i) THEN objs[i] ELSE NoObject] /\ Return /\ Len(todo) = 1
        /\ pp' = IF pp.owner # 0 /\ Alive(pp.owner) THEN pp ELSE [pp EXCEPT !.owner = 0, !.fed = FALSE]
        /\ UNCHANGED <<conn, hist, cmdstack, password_input, prompt, raised, stray, shared>>
    BY <1>11 DEF ToReactor
  <2>2. ObjectsOK(objs')
    <3>1. (\A i \in Ids : objs'[i] \in {objs[i], NoObject}) /\ objs' = [i \in Ids |-> objs'[i]]
      BY <2>1
    <3> QED BY <3>1, Forget
  <2>3. todo' = <<>>
    <3>1. todo # <<>> /\ todo \in Seq(FrameType)
      <4>1. todo \in Seq(FrameType)
        BY DEF TypeInv, FramesOK
      <4> QED BY <4>1, <2>1
    <3>2. Rest \in Seq(FrameType) /\ Len(Rest) = 0
      BY <3>1, <2>1, HeadTailProperties DEF Rest
    <3>3. Rest = <<>>
      BY <3>2, EmptySeq
    <3> QED BY <2>1, <3>3 DEF Return, Then
  <2>4. FramesOK(todo', objs')
    BY <2>3 DEF FramesOK
  <2>5. StackOK(cmdstack, objs')
    <3>1. \A i \in ToSet(cmdstack) : i \in Ids /\ objs'[i] = objs[i]
      BY <2>1 DEF Alive, TypeInv, StackOK, ToSet
    <3> QED BY <3>1 DEF TypeInv, StackOK
  <2>6. PipeOK(pp')
    BY <2>1 DEF TypeInv, PipeOK
  <2> QED BY <2>1, <2>2, <2>4, <2>5, <2>6 DEF TypeInv, FlagsOK, hist
<1> QED BY <1>4, <1>5, <1>6, <1>7, <1>8, <1>9, <1>10, <1>11

LEMMA FireTypes ==
  ASSUME TypeInv, NEW i \in Ids, Fires(i)
  PROVE  TypeInv'
<1>1. PICK r \in Handlers(i, "fire") :
        /\ objs' = [Handled(i, r) EXCEPT ![i].timers = @ - 1]
        /\ todo' = Script(i, r.do)
                   \o <<Frame(IF Handlers(i, "error") = {} THEN "later" ELSE "deferred", i, <<>>)>>
  BY DEF Fires
<1>2. objs[i].timers > 0
  BY DEF Fires
<1>3. objs[i].cls \in DOMAIN CommandTable /\ objs[i].timers \in Nat
  BY <1>2 DEF TypeInv, ObjectsOK, ObjectOK, ObjectType
<1> DEFINE os == Handled(i, r)
<1>4. ObjectsOK(os) /\ SameClass(objs, os) /\ PushOK(Script(i, r.do), os) /\ StackOK(cmdstack, os)
      /\ ScriptOK(objs[i].cls, r.do)
  BY <1>3, HandledTypes
<1>5. os[i].timers = objs[i].timers
  BY DEF Handled, TypeInv, ObjectsOK, ObjectType
<1> HIDE DEF os
<1>6. os[i].cls = objs[i].cls
  BY <1>4 DEF SameClass
<1>7. objs' = [os EXCEPT ![i].timers = os[i].timers - 1] /\ os[i].timers - 1 \in Nat
  BY <1>1, <1>2, <1>3, <1>5 DEF os
<1>8. ObjectsOK(objs') /\ SameClass(os, objs')
  BY <1>3, <1>4, <1>6, <1>7, TimersKept
<1>9. objs'[i].cls = objs[i].cls /\ StackOK(cmdstack, objs')
  BY <1>4, <1>6, <1>8, StackKept DEF SameClass
<1>10. PushOK(Script(i, r.do), objs')
  BY <1>4, <1>9, ScriptFrames
<1> DEFINE b == Frame(IF Handlers(i, "error") = {} THEN "later" ELSE "deferred", i, <<>>)
<1>11. FrameOK(b, objs') /\ b.f \in Bottom
  <2>1. CASE Handlers(i, "error") = {}
    BY <2>1, BottomFrame
  <2>2. CASE Handlers(i, "error") # {}
    BY <2>2, <1>3, <1>9, DeferredFrame
  <2> QED BY <2>1, <2>2
<1> HIDE DEF b
<1>12. FramesOK(todo', objs')
  BY <1>1, <1>10, <1>11, EventFrames DEF b
<1>13. UNCHANGED <<conn, hist, cmdstack, pp, password_input, prompt, raised, stray, shared>>
  BY DEF Fires
<1> QED BY <1>8, <1>9, <1>12, <1>13 DEF TypeInv, FlagsOK, hist

LEMMA InitTypes ==
  ASSUME Init
  PROVE  TypeInv
<1>1. 1 \in Ids /\ 0 \in 0 .. MaxInputs
  BY Bounds DEF Ids
<1>2. ObjectsOK(objs) /\ objs[1].cls = "shell"
  BY <1>1, ShellObject, NoneObject DEF Init, ObjectsOK, ObjectOK
<1>3. StackOK(cmdstack, objs)
  <2>1. <<1>> \in Seq(Ids) /\ IsInjective(<<1>>) /\ ToSet(<<1>>) = {1}
    BY <1>1 DEF IsInjective, ToSet
  <2> QED BY <2>1, <1>2 DEF Init, StackOK
<1>4. PipeOK(pp)
  BY DEF Init, NoPP, PipeOK
<1>5. FramesOK(todo, objs)
  <2>1. FramesOK(<<>>, objs)
    BY DEF FramesOK
  <2>2. ASSUME NEW line \in ExecLines
        PROVE  FramesOK(<<Frame("lex", 1, line), Frame("later", 0, <<>>)>>, objs)
    <3> DEFINE a == Frame("lex", 1, line)
    <3> DEFINE b == Frame("later", 0, <<>>)
    <3>1. line \in Seq(LineElement)
      BY ShellAssumption
    <3>2. FrameOK(a, objs) /\ a.f \notin Bottom /\ FrameOK(b, objs) /\ b.f \in Bottom
      BY <3>1, <1>1, <1>2, LexFrame, BottomFrame
    <3> HIDE DEF a, b
    <3>3. FramesOK(<<a, b>>, objs)
      BY <3>2 DEF FramesOK, FrameOK
    <3> QED BY <3>3 DEF a, b
  <2> QED BY <2>1, <2>2 DEF Init
<1> QED BY <1>1, <1>2, <1>3, <1>4, <1>5 DEF Init, TypeInv, FlagsOK

LEMMA NextTypes ==
  ASSUME TypeInv, [Next]_vars
  PROVE  TypeInv'
<1>1. CASE Step
  BY <1>1, LexTypes, PopTypes, RunTypes, CallTypes, WriteTypes, FrameTypes, StackTypes, RaiseTypes,
     EventTypes DEF Step
<1>2. CASE UNCHANGED vars
  BY <1>2 DEF vars, hist, TypeInv, FlagsOK
<1>3. CASE Next /\ ~Step
  BY <1>3, EventTypes, FireTypes DEF Next
<1> QED BY <1>1, <1>2, <1>3

\* For any lines that may be typed: the stack holds objects that exist, each
\* once, so that exit finds its command with list.remove, and the pipe and
\* the running methods belong to some of them.
THEOREM ShellTypeOK == Spec => []TypeOK
<1>1. Spec => []TypeInv
  <2>1. Init => TypeInv
    BY InitTypes
  <2>2. TypeInv /\ [Next]_vars => TypeInv'
    BY NextTypes
  <2> QED BY <2>1, <2>2, PTL DEF Spec
<1>2. TypeInv => TypeOK
  <2> SUFFICES ASSUME TypeInv PROVE TypeOK
    OBVIOUS
  <2>1. \A i \in Ids : objs[i].cls \in DOMAIN CommandTable \cup {"shell", "none"} /\ objs[i].timers \in Nat
    BY DEF TypeInv, ObjectsOK, ObjectType
  <2>2. \A k \in DOMAIN todo : todo[k].id \in Ids \cup {0}
    <3>1. todo \in Seq(FrameType)
      BY DEF TypeInv, FramesOK
    <3>2. \A k \in DOMAIN todo : todo[k] \in FrameType
      BY <3>1
    <3> QED BY <3>2 DEF FrameType
  <2>3. pp.owner \in Ids \cup {0} /\ pp.fed \in BOOLEAN
    BY DEF TypeInv, PipeOK
  <2>4. {interactive, password_input, prompt, raised, stray, shared} \subseteq BOOLEAN
    BY DEF TypeInv, FlagsOK
  <2> QED BY <2>1, <2>2, <2>3, <2>4 DEF TypeInv, FlagsOK, StackOK, TypeOK
<1> QED BY <1>1, <1>2, PTL

-----------------------------------------------------------------------------
(* Where the scripts come from that are to be done after a step.           *)

OnlyDo(fs, fr, m) == \A k \in 1 .. Len(fs) : fs[k].f = "do" => k = m /\ fs[k] = fr
NoDo(fs) == \A k \in 1 .. Len(fs) : fs[k].f # "do"

Inherited(fr) == \E j \in 2 .. Len(todo) : fr = todo[j]
Continued(fr, k) ==
  /\ At("do") /\ Tail(Head(todo).x) # <<>> /\ fr = Frame("do", Self, Tail(Head(todo).x))
  /\ k = 1 \/ Head(Head(todo).x) \in {"exit", "run", "chain"}
Begun(fr, os) ==
  /\ At("call") /\ cmdstack # <<>> /\ fr.id = NewId /\ Unused # {}
  /\ os[NewId].cls \in DOMAIN CommandTable
  /\ \E r \in Rules(os[NewId].cls) :
       /\ r.on = "start" /\ fr = Frame("do", NewId, r.do)
       /\ r.to # "same" => os[NewId].at = r.to
Started(fr, os) ==
  /\ Idle \/ At("raise")
  /\ fr.id \in Ids /\ objs[fr.id].cls \in DOMAIN CommandTable
  /\ \E event \in Event \ {"start"} : \E r \in Handlers(fr.id, event) :
       /\ fr = Frame("do", fr.id, r.do)
       /\ os[fr.id].at = IF r.to = "same" THEN objs[fr.id].at ELSE r.to
       /\ event = "fire" => objs[fr.id].timers > 0
       /\ event \in {"line", "ctrlC", "ctrlD"} => cmdstack # <<>> /\ fr.id = Top
Origin(fr, k, os) ==
  \/ Inherited(fr)
  \/ Continued(fr, k)
  \/ k = 1 /\ Begun(fr, os)
  \/ k = 1 /\ Started(fr, os)

LEMMA OnlyDoCat ==
  ASSUME NEW S, NEW a \in Seq(S), NEW b \in Seq(S), NEW fr, NEW m \in Nat,
         \/ OnlyDo(a, fr, m) /\ NoDo(b)
         \/ m > Len(a) /\ NoDo(a) /\ OnlyDo(b, fr, m - Len(a))
  PROVE  a \o b \in Seq(S) /\ OnlyDo(a \o b, fr, m)
<1> DEFINE r == a \o b
<1>1. /\ r \in Seq(S) /\ Len(r) = Len(a) + Len(b) /\ Len(a) \in Nat /\ Len(b) \in Nat
      /\ \A k \in 1 .. Len(a) + Len(b) : r[k] = IF k <= Len(a) THEN a[k] ELSE b[k - Len(a)]
  BY ConcatProperties, LenProperties
<1> HIDE DEF r
<1>2. ASSUME NEW k \in 1 .. Len(r), r[k].f = "do" PROVE k = m /\ r[k] = fr
  <2>1. CASE k <= Len(a)
    <3>1. k \in 1 .. Len(a) /\ r[k] = a[k]
      BY <2>1, <1>1
    <3>2. CASE OnlyDo(a, fr, m) /\ NoDo(b)
      BY <3>1, <3>2, <1>2 DEF OnlyDo
    <3>3. CASE m > Len(a) /\ NoDo(a) /\ OnlyDo(b, fr, m - Len(a))
      BY <3>1, <3>3, <1>2 DEF NoDo
    <3> QED BY <3>2, <3>3
  <2>2. CASE ~(k <= Len(a))
    <3>1. k - Len(a) \in 1 .. Len(b) /\ r[k] = b[k - Len(a)]
      BY <2>2, <1>1
    <3>2. CASE OnlyDo(a, fr, m) /\ NoDo(b)
      BY <3>1, <3>2, <1>2 DEF NoDo
    <3>3. CASE m > Len(a) /\ NoDo(a) /\ OnlyDo(b, fr, m - Len(a))
      BY <3>1, <3>3, <1>1, <1>2 DEF OnlyDo
    <3> QED BY <3>2, <3>3
  <2> QED BY <2>1, <2>2
<1> QED BY <1>1, <1>2 DEF OnlyDo, r

LEMMA ThenIndex ==
  ASSUME TypeInv, todo # <<>>, NEW S, NEW fs \in Seq(S), Then(fs)
  PROVE  /\ Len(fs) \in Nat /\ Len(todo) \in Nat /\ Len(todo) > 0
         /\ Len(todo') = Len(fs) + Len(todo) - 1
         /\ \A k \in 1 .. Len(fs) : todo'[k] = fs[k]
         /\ \A k \in Len(fs) + 1 .. Len(fs) + Len(todo) - 1 : todo'[k] = todo[k - Len(fs) + 1]
<1> DEFINE T == S \cup FrameType
<1> DEFINE r == Rest
<1>1. /\ Rest \in Seq(FrameType) /\ Len(todo) \in Nat /\ Len(todo) > 0 /\ Len(Rest) = Len(todo) - 1
      /\ \A k \in 1 .. Len(todo) - 1 : Rest[k] = todo[k + 1]
  BY HeadFrame DEF TypeInv, Rest
<1>2. r \in Seq(T) /\ fs \in Seq(T) /\ Len(fs) \in Nat
  BY <1>1, SeqMonotonic, LenProperties
<1> HIDE DEF T, r
<1> DEFINE c == fs \o r
<1>3. /\ Len(c) = Len(fs) + Len(r)
      /\ \A k \in 1 .. Len(fs) + Len(r) : c[k] = IF k <= Len(fs) THEN fs[k] ELSE r[k - Len(fs)]
  BY <1>2, ConcatProperties
<1> HIDE DEF c
<1>4. todo' = c /\ Len(r) = Len(todo) - 1 /\ \A k \in 1 .. Len(todo) - 1 : r[k] = todo[k + 1]
  BY <1>1 DEF Then, c, r
<1>5. Len(c) = Len(fs) + Len(todo) - 1
  BY <1>1, <1>2, <1>3, <1>4
<1>6. ASSUME NEW k \in 1 .. Len(fs) PROVE c[k] = fs[k]
  <2>1. k \in 1 .. Len(fs) + Len(r) /\ k <= Len(fs)
    BY <1>1, <1>2, <1>4
  <2> QED BY <2>1, <1>3
<1>7. ASSUME NEW k \in Len(fs) + 1 .. Len(fs) + Len(todo) - 1 PROVE c[k] = todo[k - Len(fs) + 1]
  <2>1. k - Len(fs) \in 1 .. Len(todo) - 1 /\ ~(k <= Len(fs)) /\ k \in 1 .. Len(fs) + Len(r)
    BY <1>1, <1>2, <1>4
  <2> QED BY <2>1, <1>3, <1>4
<1> QED BY <1>1, <1>2, <1>4, <1>5, <1>6, <1>7

LEMMA ThenOrigin ==
  ASSUME TypeInv, todo # <<>>, NEW S, NEW fs \in Seq(S), Then(fs), NEW fr, NEW m, OnlyDo(fs, fr, m),
         NEW k \in 1 .. Len(todo'), todo'[k].f = "do"
  PROVE  Inherited(todo'[k]) \/ (k = m /\ todo'[k] = fr)
<1>1. /\ Len(fs) \in Nat /\ Len(todo) \in Nat /\ Len(todo) > 0
      /\ Len(todo') = Len(fs) + Len(todo) - 1
      /\ \A i \in 1 .. Len(fs) : todo'[i] = fs[i]
      /\ \A i \in Len(fs) + 1 .. Len(fs) + Len(todo) - 1 : todo'[i] = todo[i - Len(fs) + 1]
  BY ThenIndex
<1>2. CASE k <= Len(fs)
  BY <1>1, <1>2 DEF OnlyDo
<1>3. CASE ~(k <= Len(fs))
  <2>1. k - Len(fs) + 1 \in 2 .. Len(todo) /\ todo'[k] = todo[k - Len(fs) + 1]
    BY <1>1, <1>3
  <2> QED BY <2>1 DEF Inherited
<1> QED BY <1>2, <1>3

LEMMA ScriptOnly ==
  ASSUME NEW i, NEW ops
  PROVE  /\ Script(i, ops) \in Seq({Frame("do", i, ops)})
         /\ OnlyDo(Script(i, ops), Frame("do", i, ops), 1)
         /\ ops # <<>> => Script(i, ops) = <<Frame("do", i, ops)>>
         /\ ops = <<>> => Script(i, ops) = <<>>
<1> DEFINE fr == Frame("do", i, ops)
<1>1. CASE ops = <<>>
  BY <1>1 DEF Script, OnlyDo
<1>2. CASE ops # <<>>
  <2> HIDE DEF fr
  <2>1. <<fr>> \in Seq({fr}) /\ Len(<<fr>>) = 1 /\ <<fr>>[1] = fr
    OBVIOUS
  <2>2. OnlyDo(<<fr>>, fr, 1)
    BY <2>1 DEF OnlyDo
  <2> QED BY <1>2, <2>1, <2>2 DEF Script, fr
<1> QED BY <1>1, <1>2

\* The operations that push no script but what is left of their own.
LEMMA PlainOrigin ==
  ASSUME TypeInv, todo # <<>>, NEW S, NEW fs \in Seq(S), Then(fs), NoDo(fs),
         NEW k \in 1 .. Len(todo'), todo'[k].f = "do"
  PROVE  Inherited(todo'[k])
<1>1. OnlyDo(fs, 0, 0)
  BY DEF OnlyDo, NoDo
<1> QED BY <1>1, ThenOrigin

LEMMA AfterOrigin ==
  ASSUME TypeInv, At("do"), NEW S, NEW a \in Seq(S), NEW b \in Seq(S), NoDo(a), NoDo(b),
         \/ a = <<>> /\ Then(After)
         \/ a = <<>> /\ Then(After \o b)
         \/ Then(a \o After),
         a # <<>> => Head(Head(todo).x) \in {"exit", "run", "chain"},
         NEW k \in 1 .. Len(todo'), todo'[k].f = "do"
  PROVE  Inherited(todo'[k]) \/ Continued(todo'[k], k)
<1> DEFINE fr == Frame("do", Self, Tail(Head(todo).x))
<1> DEFINE T == S \cup {fr}
<1>1. todo # <<>>
  BY DEF At
<1>2. After \in Seq({fr}) /\ OnlyDo(After, fr, 1) /\ (Tail(Head(todo).x) = <<>> => After = <<>>)
  BY ScriptOnly DEF After
<1> HIDE DEF fr
<1>3. After \in Seq(T) /\ a \in Seq(T) /\ b \in Seq(T) /\ Len(a) \in Nat /\ (a = <<>> => Len(a) = 0)
  BY <1>2, SeqMonotonic, LenProperties
<1>4. Tail(Head(todo).x) = <<>> => NoDo(After)
  BY <1>2 DEF NoDo
<1> HIDE DEF T
<1>5. CASE a = <<>> /\ Then(After)
  <2>1. Inherited(todo'[k]) \/ (k = 1 /\ todo'[k] = fr)
    BY <1>1, <1>2, <1>3, <1>5, ThenOrigin
  <2>2. Tail(Head(todo).x) = <<>> => Inherited(todo'[k])
    BY <1>1, <1>3, <1>4, <1>5, PlainOrigin
  <2> QED BY <2>1, <2>2 DEF Continued, fr
<1>6. CASE a = <<>> /\ Then(After \o b)
  <2>1. After \o b \in Seq(T) /\ OnlyDo(After \o b, fr, 1)
    BY <1>2, <1>3, OnlyDoCat
  <2>2. Inherited(todo'[k]) \/ (k = 1 /\ todo'[k] = fr)
    BY <2>1, <1>1, <1>6, ThenOrigin
  <2>3. ASSUME Tail(Head(todo).x) = <<>> PROVE Inherited(todo'[k])
    <3>1. After \o b = b
      BY <2>3, <1>2, <1>3, ConcatEmptySeq
    <3> QED BY <3>1, <1>1, <1>3, <1>6, PlainOrigin
  <2> QED BY <2>2, <2>3 DEF Continued, fr
<1>7. CASE Then(a \o After)
  <2> DEFINE m == Len(a) + 1
  <2>1. m \in Nat /\ m > Len(a) /\ m - Len(a) = 1
    BY <1>3
  <2> HIDE DEF m
  <2>2. a \o After \in Seq(T) /\ OnlyDo(a \o After, fr, m)
    BY <2>1, <1>2, <1>3, OnlyDoCat
  <2>3. Inherited(todo'[k]) \/ (k = m /\ todo'[k] = fr)
    BY <2>2, <1>1, <1>7, ThenOrigin
  <2>4. ASSUME Tail(Head(todo).x) = <<>> PROVE Inherited(todo'[k])
    <3>1. a \o After = a
      BY <2>4, <1>2, <1>3, ConcatEmptySeq
    <3> QED BY <3>1, <1>1, <1>3, <1>7, PlainOrigin
  <2>5. a = <<>> => m = 1
    BY <1>3 DEF m
  <2> QED BY <2>3, <2>4, <2>5 DEF Continued, fr
<1> QED BY <1>5, <1>6, <1>7

LEMMA FewOrigin ==
  ASSUME TypeInv, todo # <<>>, NEW a, NEW b, NEW c, a.f # "do", b.f # "do", c.f # "do",
         Then(<<>>) \/ Then(<<a>>) \/ Then(<<a, b, c>>),
         NEW k \in 1 .. Len(todo'), todo'[k].f = "do"
  PROVE  Inherited(todo'[k])
<1> DEFINE S == {a, b, c}
<1>1. /\ <<>> \in Seq(S) /\ <<a>> \in Seq(S) /\ <<a, b, c>> \in Seq(S)
      /\ NoDo(<<>>) /\ NoDo(<<a>>) /\ NoDo(<<a, b, c>>)
  BY DEF NoDo
<1> HIDE DEF S
<1> QED BY <1>1, PlainOrigin

LEMMA FrameFields ==
  \A f, i, x : Frame(f, i, x).f = f /\ Frame(f, i, x).id = i /\ Frame(f, i, x).x = x
BY DEF Frame

\* Everything a method pushes besides scripts.
LEMMA MethodOrigin ==
  ASSUME TypeInv,
         \/ LexCommand \/ LexSubshell \/ LexStops \/ LexFails \/ LexEnds \/ PopShell \/ PopNothing
         \/ RunNothing \/ RunAssignment \/ RunUnknown \/ RunPipe \/ CallOnNothing \/ OutConnectionLost
         \/ DoExitAgain \/ DoFail \/ TryEnds \/ (DoQueue /\ Raise),
         NEW k \in 1 .. Len(todo'), todo'[k].f = "do"
  PROVE  Inherited(todo'[k])
<1>1. todo # <<>>
  BY DEF LexCommand, LexSubshell, LexStops, LexFails, LexEnds, PopShell, PopNothing, RunNothing,
         RunAssignment, RunUnknown, RunPipe, CallOnNothing, OutConnectionLost, DoExitAgain, DoFail,
         TryEnds, DoQueue, Reads, Doing, At
<1>2. ASSUME Then(<<>>) PROVE Inherited(todo'[k])
  <2>1. Frame("try", 0, <<>>).f # "do"
    BY FrameFields
  <2> QED BY <2>1, <1>1, <1>2, FewOrigin
<1>3. ASSUME NEW f, NEW i, NEW x, f # "do", Then(<<Frame(f, i, x)>>) PROVE Inherited(todo'[k])
  <2>1. Frame(f, i, x).f # "do"
    BY <1>3, FrameFields
  <2> QED BY <2>1, <1>1, <1>3, FewOrigin
<1>4. CASE LexCommand \/ LexStops
  BY <1>3, <1>4 DEF LexCommand, LexStops, NextElement
<1>5. CASE LexSubshell
  <2> DEFINE a == Frame("lex", NewId, <<[do |-> "add", cmds |-> Element.cmds]>>)
  <2> DEFINE b == Frame("pop", NewId, <<>>)
  <2> DEFINE c == NextElement
  <2>1. a.f # "do" /\ b.f # "do" /\ c.f # "do"
    BY FrameFields DEF NextElement
  <2>2. Then(<<a, b, c>>)
    BY <1>5 DEF LexSubshell
  <2> HIDE DEF a, b, c
  <2> QED BY <2>1, <2>2, <1>1, FewOrigin
<1>6. CASE LexFails \/ PopShell \/ RunNothing \/ TryEnds
  BY <1>2, <1>6 DEF LexFails, PopShell, RunNothing, TryEnds, Return
<1>7. CASE LexEnds
  BY <1>2, <1>3, <1>7 DEF LexEnds, Return
<1>8. CASE PopNothing \/ DoExitAgain \/ DoFail \/ CallOnNothing \/ (DoQueue /\ Raise)
  BY <1>3, <1>8 DEF PopNothing, DoExitAgain, DoFail, CallOnNothing, Raise
<1>9. CASE RunAssignment \/ RunUnknown
  BY <1>2, <1>3, <1>9 DEF RunAssignment, RunUnknown, RunOrPrompt, Return
<1>10. CASE RunPipe
  BY <1>3, <1>10 DEF RunPipe
<1>11. CASE OutConnectionLost
  <2>1. CASE pp.next = <<>>
    BY <2>1, <1>2, <1>11 DEF OutConnectionLost
  <2>2. CASE pp.next # <<>>
    BY <2>2, <1>3, <1>11 DEF OutConnectionLost
  <2> QED BY <2>1, <2>2
<1> QED BY <1>4, <1>5, <1>6, <1>7, <1>8, <1>9, <1>10, <1>11

\* What a command does leaves the rest of its script to be done.
LEMMA CommandOrigin ==
  ASSUME TypeInv,
         \/ DoWrite \/ DoExit \/ DoExitAlone \/ DoEnd \/ DoTerminal \/ DoUser \/ DoTry \/ DoEcho
         \/ DoTimer \/ (DoQueue /\ Finish) \/ DoPop \/ DoRun \/ DoInteractive \/ DoInsert \/ DoChain,
         NEW k \in 1 .. Len(todo'), todo'[k].f = "do"
  PROVE  Inherited(todo'[k]) \/ Continued(todo'[k], k)
<1>1. At("do")
  BY DEF DoWrite, DoExit, DoExitAlone, DoEnd, DoTerminal, DoUser, DoTry, DoEcho, DoTimer, DoQueue, DoPop,
         DoRun, DoInteractive, DoInsert, DoChain, Doing
<1>2. <<>> \in Seq({}) /\ NoDo(<<>>)
  BY DEF NoDo
<1>3. ASSUME Then(After) PROVE Inherited(todo'[k]) \/ Continued(todo'[k], k)
  BY <1>1, <1>2, <1>3, AfterOrigin
<1>4. ASSUME NEW f, NEW i, NEW x, f # "do"
      PROVE  <<Frame(f, i, x)>> \in Seq({Frame(f, i, x)}) /\ NoDo(<<Frame(f, i, x)>>)
  <2>1. Frame(f, i, x).f # "do"
    BY <1>4, FrameFields
  <2> DEFINE fr == Frame(f, i, x)
  <2> HIDE DEF fr
  <2>2. <<fr>> \in Seq({fr}) /\ (fr.f # "do" => NoDo(<<fr>>))
    BY DEF NoDo
  <2> QED BY <2>1, <2>2 DEF fr
<1>5. CASE DoWrite \/ DoExitAlone \/ DoEnd \/ DoTerminal \/ DoUser \/ DoEcho \/ DoTimer \/ (DoQueue /\ Finish)
           \/ DoPop \/ DoInteractive \/ DoInsert
  BY <1>3, <1>5 DEF DoWrite, DoExitAlone, DoEnd, DoTerminal, DoUser, DoEcho, DoTimer, DoPop, DoInteractive,
                    DoInsert, Finish
<1>6. CASE DoExit
  <2>1. CASE cmdstack' # <<>> /\ IsShell(Last(cmdstack'))
    <3> DEFINE fr == Frame("run", Last(cmdstack'), <<>>)
    <3>1. Then(<<fr>> \o After) /\ Head(Head(todo).x) = "exit"
      BY <2>1, <1>6 DEF DoExit, Doing
    <3>2. <<fr>> \in Seq({fr}) /\ NoDo(<<fr>>)
      BY <1>4
    <3> HIDE DEF fr
    <3>3. <<>> \in Seq({fr})
      OBVIOUS
    <3> QED BY <3>1, <3>2, <3>3, <1>1, <1>2, AfterOrigin
  <2>2. CASE ~(cmdstack' # <<>> /\ IsShell(Last(cmdstack')))
    BY <2>2, <1>3, <1>6 DEF DoExit
  <2> QED BY <2>1, <2>2
<1>7. CASE DoTry
  <2> DEFINE fr == Frame("try", 0, <<>>)
  <2>1. Then(After \o <<fr>>) /\ <<fr>> \in Seq({fr}) /\ NoDo(<<fr>>)
    BY <1>4, <1>7 DEF DoTry
  <2> HIDE DEF fr
  <2>2. <<>> \in Seq({fr})
    OBVIOUS
  <2> QED BY <2>1, <2>2, <1>1, <1>2, AfterOrigin
<1>8. CASE DoChain
  <2> DEFINE fr == Frame("lost", 0, <<>>)
  <2>1. Then(<<fr>> \o After) /\ <<fr>> \in Seq({fr}) /\ NoDo(<<fr>>) /\ Head(Head(todo).x) = "chain"
    BY <1>4, <1>8 DEF DoChain, Doing
  <2> HIDE DEF fr
  <2>2. <<>> \in Seq({fr})
    OBVIOUS
  <2> QED BY <2>1, <2>2, <1>1, <1>2, AfterOrigin
<1>9. CASE DoRun
  <2> DEFINE a == Frame("lex", NewId, objs[Self].sub)
  <2> DEFINE b == Frame("pop", NewId, <<>>)
  <2>1. Then(<<a, b>> \o After) /\ Head(Head(todo).x) = "run" /\ a.f # "do" /\ b.f # "do"
    BY <1>9, FrameFields DEF DoRun, Doing
  <2> HIDE DEF a, b
  <2>2. <<a, b>> \in Seq({a, b}) /\ <<>> \in Seq({a, b}) /\ NoDo(<<a, b>>)
    BY <2>1 DEF NoDo
  <2> QED BY <2>1, <2>2, <1>1, <1>2, AfterOrigin
<1> QED BY <1>5, <1>6, <1>7, <1>8, <1>9

LEMMA CallOrigin ==
  ASSUME TypeInv, CallCommand, NEW k \in 1 .. Len(todo'), todo'[k].f = "do"
  PROVE  Inherited(todo'[k]) \/ (k = 1 /\ Begun(todo'[k], objs'))
<1>1. todo # <<>> /\ At("call") /\ cmdstack # <<>> /\ Unused # {} /\ pp.fed \in BOOLEAN /\ NewId \in Ids
  BY FreshId DEF CallCommand, At, TypeInv, PipeOK
<1> DEFINE new == Command(Head(Head(todo).x), pp.fed /\ Self = pp.owner)
<1>2. PICK r \in Rules(new.cls) :
        /\ r.on = "start"
        /\ objs' = [objs EXCEPT ![NewId] = [new EXCEPT !.at = IF r.to = "same" THEN @ ELSE r.to]]
        /\ Then(Script(NewId, r.do) \o <<Frame("lost", 0, <<>>)>>)
  BY DEF CallCommand
<1>3. ObjectOK(new) /\ new.cls \in DOMAIN CommandTable
  <2>1. FrameOK(Head(todo), objs) /\ Head(todo).f = "call"
    BY <1>1, Running DEF At
  <2>2. Head(Head(todo).x) \in Runnable
    BY <2>1, HeadTailProperties DEF FrameOK
  <2> QED BY <2>2, <1>1, CommandObject
<1> DEFINE o == [new EXCEPT !.at = IF r.to = "same" THEN @ ELSE r.to]
<1> HIDE DEF new
<1>4. o.cls = new.cls /\ (r.to # "same" => o.at = r.to)
  BY <1>3 DEF ObjectOK, ObjectType
<1> HIDE DEF o
<1>5. objs'[NewId] = o
  BY <1>1, <1>2 DEF TypeInv, ObjectsOK, o
<1> DEFINE fr == Frame("do", NewId, r.do)
<1> DEFINE lost == Frame("lost", 0, <<>>)
<1>6. Script(NewId, r.do) \in Seq({fr}) /\ OnlyDo(Script(NewId, r.do), fr, 1)
  BY ScriptOnly
<1>7. lost.f # "do"
  BY FrameFields
<1>8. Begun(fr, objs')
  BY <1>1, <1>2, <1>3, <1>4, <1>5, FrameFields DEF Begun
<1>9. Then(Script(NewId, r.do) \o <<lost>>)
  BY <1>2
<1> HIDE DEF fr, lost
<1>10. <<lost>> \in Seq({lost}) /\ NoDo(<<lost>>)
  BY <1>7 DEF NoDo
<1> DEFINE S == {fr, lost}
<1>11. Script(NewId, r.do) \in Seq(S) /\ <<lost>> \in Seq(S)
  BY <1>6, <1>10, SeqMonotonic
<1> HIDE DEF S
<1>12. Script(NewId, r.do) \o <<lost>> \in Seq(S) /\ OnlyDo(Script(NewId, r.do) \o <<lost>>, fr, 1)
  BY <1>6, <1>10, <1>11, OnlyDoCat
<1>13. Inherited(todo'[k]) \/ (k = 1 /\ todo'[k] = fr)
  BY <1>1, <1>9, <1>12, ThenOrigin
<1> QED BY <1>8, <1>13

\* The handler an event of the reactor calls.
LEMMA HandlerOrigin ==
  ASSUME TypeInv, NEW i \in Ids, objs[i].cls \in DOMAIN CommandTable, NEW event \in Event \ {"start"},
         NEW r \in Handlers(i, event), Idle \/ At("raise"),
         objs'[i].at = IF r.to = "same" THEN objs[i].at ELSE r.to,
         event = "fire" => objs[i].timers > 0,
         event \in {"line", "ctrlC", "ctrlD"} => cmdstack # <<>> /\ i = Top,
         NEW fr, fr.f # "do", todo' = Script(i, r.do) \o <<fr>>,
         NEW k \in 1 .. Len(todo'), todo'[k].f = "do"
  PROVE  k = 1 /\ Started(todo'[k], objs')
<1> DEFINE d == Frame("do", i, r.do)
<1>1. Script(i, r.do) \in Seq({d}) /\ OnlyDo(Script(i, r.do), d, 1)
  BY ScriptOnly
<1>2. Started(d, objs')
  BY FrameFields DEF Started
<1> HIDE DEF d
<1>3. <<fr>> \in Seq({fr}) /\ NoDo(<<fr>>)
  BY DEF NoDo
<1> DEFINE S == {d, fr}
<1>4. Script(i, r.do) \in Seq(S) /\ <<fr>> \in Seq(S)
  BY <1>1, <1>3, SeqMonotonic
<1> HIDE DEF S
<1>5. OnlyDo(Script(i, r.do) \o <<fr>>, d, 1)
  BY <1>1, <1>3, <1>4, OnlyDoCat
<1>6. k = 1 /\ todo'[k] = d
  BY <1>5 DEF OnlyDo
<1> QED BY <1>2, <1>6

LEMMA RaiseOrigin ==
  ASSUME TypeInv, Propagate \/ SyntaxError \/ Swallowed \/ Errback \/ Logged \/ Dropped,
         NEW k \in 1 .. Len(todo'), todo'[k].f = "do"
  PROVE  Inherited(todo'[k]) \/ (k = 1 /\ Started(todo'[k], objs'))
<1>1. At("raise") /\ Rest # <<>>
  BY DEF Propagate, SyntaxError, Swallowed, Errback, Logged, Dropped, Thrown
<1>2. /\ todo # <<>> /\ Head(todo).f = "raise" /\ FramesOK(Rest, objs) /\ FrameOK(Head(Rest), objs)
      /\ Len(Rest) = Len(todo) - 1 /\ Len(todo) \in Nat
      /\ \A j \in 1 .. Len(Rest) : Rest[j] = todo[j + 1]
  BY <1>1, Below
<1>3. /\ Tail(Rest) \in Seq(FrameType) /\ Len(Rest) \in Nat /\ Len(Rest) > 0 /\ Len(Tail(Rest)) = Len(Rest) - 1
      /\ \A j \in 1 .. Len(Rest) - 1 : Tail(Rest)[j] = Rest[j + 1]
  BY <1>1, <1>2, HeadFrame
<1>4. ASSUME NEW j \in 1 .. Len(Rest) PROVE Inherited(Rest[j])
  <2>1. j + 1 \in 2 .. Len(todo) /\ Rest[j] = todo[j + 1]
    BY <1>2
  <2> QED BY <2>1 DEF Inherited
<1>5. ASSUME NEW j \in 1 .. Len(Tail(Rest)) PROVE Inherited(Tail(Rest)[j])
  <2>1. j + 1 \in 1 .. Len(Rest) /\ Tail(Rest)[j] = Rest[j + 1]
    BY <1>3
  <2> QED BY <2>1, <1>4
<1>6. CASE Propagate
  <2> DEFINE a == Head(todo)
  <2> DEFINE t == Tail(Rest)
  <2>1. todo' = <<a>> \o t
    BY <1>6 DEF Propagate
  <2>2. a.f # "do" /\ a \in FrameType /\ t \in Seq(FrameType)
    BY <1>2, <1>3, Running DEF FrameOK
  <2>3. \A j \in 1 .. Len(t) : Inherited(t[j])
    BY <1>5
  <2> HIDE DEF a, t
  <2>4. <<a>> \in Seq(FrameType) /\ Len(<<a>>) = 1 /\ <<a>>[1] = a /\ Len(t) \in Nat
    BY <2>2
  <2>5. /\ Len(<<a>> \o t) = 1 + Len(t)
        /\ \A j \in 1 .. 1 + Len(t) : (<<a>> \o t)[j] = IF j <= 1 THEN <<a>>[j] ELSE t[j - 1]
    BY <2>2, <2>4, ConcatProperties
  <2>6. CASE k <= 1
    <3>1. k = 1
      BY <2>6
    <3>2. todo'[1] = a
      BY <2>1, <2>4, <2>5
    <3> QED BY <3>1, <3>2, <2>2
  <2>7. CASE ~(k <= 1)
    <3>1. k - 1 \in 1 .. Len(t) /\ todo'[k] = t[k - 1]
      BY <2>1, <2>4, <2>5, <2>7
    <3> QED BY <3>1, <2>3
  <2> QED BY <2>6, <2>7
<1>7. CASE SyntaxError \/ Swallowed
  BY <1>5, <1>7 DEF SyntaxError, Swallowed
<1>8. CASE Logged \/ Dropped
  BY <1>4, <1>8 DEF Logged, Dropped
<1>9. CASE Errback
  <2> DEFINE i == Head(Rest).id
  <2>1. PICK r \in Handlers(i, "error") :
          /\ Head(Rest).f = "deferred" /\ objs' = Handled(i, r)
          /\ todo' = Script(i, r.do) \o <<Frame("later", i, <<>>)>>
    BY <1>9 DEF Errback, Thrown
  <2>2. i \in Ids /\ objs[i].cls \in DOMAIN CommandTable
    BY <2>1, <1>2 DEF FrameOK
  <2> HIDE DEF i
  <2>3. objs'[i].at = IF r.to = "same" THEN objs[i].at ELSE r.to
    BY <2>1, <2>2 DEF Handled, TypeInv, ObjectsOK, ObjectType
  <2>4. Frame("later", i, <<>>).f # "do" /\ "error" \in Event \ {"start"}
    BY FrameFields DEF Event
  <2> QED BY <2>1, <2>2, <2>3, <2>4, <1>1, HandlerOrigin
<1> QED BY <1>6, <1>7, <1>8, <1>9

LEMMA EventOrigin ==
  ASSUME TypeInv,
         \/ LineToShell \/ LineToCommand \/ LineDiscarded \/ ControlKey \/ CtrlCToShell \/ CtrlDToShell
         \/ EofOrTimeout \/ Disconnect \/ ToReactor \/ \E i \in Ids : Fires(i),
         NEW k \in 1 .. Len(todo'), todo'[k].f = "do"
  PROVE  k = 1 /\ Started(todo'[k], objs')
<1>1. ASSUME NEW i \in Ids, NEW r
      PROVE  Handled(i, r)[i].at = IF r.to = "same" THEN objs[i].at ELSE r.to
  BY DEF Handled, TypeInv, ObjectsOK, ObjectType
<1>2. CASE LineToShell
  <2>1. PICK line \in Typed : todo' = <<Frame("lex", Top, line), Frame("input", 0, <<>>)>>
    BY <1>2 DEF LineToShell
  <2> DEFINE a == Frame("lex", Top, line)
  <2> DEFINE b == Frame("input", 0, <<>>)
  <2>2. a.f # "do" /\ b.f # "do"
    BY FrameFields
  <2> HIDE DEF a, b
  <2>3. todo' = <<a, b>>
    BY <2>1 DEF a, b
  <2> QED BY <2>2, <2>3
<1>3. CASE LineToCommand
  <2>1. PICK line \in Typed, r \in Handlers(Top, "line") :
          objs' = Handled(Top, r) /\ todo' = Script(Top, r.do) \o <<Frame("input", 0, line)>>
    BY <1>3 DEF LineToCommand
  <2>2. Top \in Ids /\ objs[Top].cls \in DOMAIN CommandTable /\ cmdstack # <<>> /\ Idle
    BY <1>3, StackTop DEF LineToCommand, Receives
  <2>3. Frame("input", 0, line).f # "do" /\ "line" \in Event \ {"start"}
    BY FrameFields DEF Event
  <2> QED BY <2>1, <2>2, <2>3, <1>1, HandlerOrigin
<1>4. CASE ControlKey
  <2>1. PICK event \in {"ctrlC", "ctrlD"} : Key(event)
    BY <1>4 DEF ControlKey
  <2> DEFINE i == IF event = "ctrlC" THEN Top ELSE 0
  <2>2. PICK r \in Handlers(Top, event) :
          /\ objs' = Handled(Top, r)
          /\ todo' = Script(Top, r.do) \o <<Frame("input", i, <<>>)>>
    BY <2>1 DEF Key
  <2>3. Top \in Ids /\ objs[Top].cls \in DOMAIN CommandTable /\ cmdstack # <<>> /\ Idle
    BY <1>4, StackTop DEF ControlKey, Receives
  <2>4. Frame("input", i, <<>>).f # "do" /\ event \in Event \ {"start"} /\ event # "fire"
    BY <2>1, FrameFields DEF Event
  <2> HIDE DEF i
  <2> QED BY <2>1, <2>2, <2>3, <2>4, <1>1, HandlerOrigin
<1>5. CASE LineDiscarded \/ CtrlCToShell \/ CtrlDToShell \/ EofOrTimeout \/ Disconnect
  <2>1. todo' = <<>>
    BY <1>5 DEF LineDiscarded, CtrlCToShell, CtrlDToShell, EofOrTimeout, Disconnect, Receives, Idle
  <2> QED BY <2>1
<1>6. CASE ToReactor
  <2>1. todo # <<>> /\ Then(<<>>)
    <3>1. todo \in Seq(FrameType) /\ Len(todo) = 1
      BY <1>6 DEF ToReactor, TypeInv, FramesOK
    <3>2. todo # <<>>
      BY <3>1
    <3> QED BY <3>2, <1>6 DEF ToReactor, Return
  <2>2. Len(todo) = 1
    BY <1>6 DEF ToReactor
  <2>3. <<>> \in Seq({}) /\ Len(<<>>) = 0
    OBVIOUS
  <2>4. Len(todo') = Len(<<>>) + Len(todo) - 1
    BY <2>1, <2>3, ThenIndex
  <2> QED BY <2>2, <2>3, <2>4
<1>7. CASE \E i \in Ids : Fires(i)
  <2>1. PICK i \in Ids : Fires(i)
    BY <1>7
  <2> DEFINE f == IF Handlers(i, "error") = {} THEN "later" ELSE "deferred"
  <2>2. PICK r \in Handlers(i, "fire") :
          /\ objs' = [Handled(i, r) EXCEPT ![i].timers = @ - 1]
          /\ todo' = Script(i, r.do) \o <<Frame(f, i, <<>>)>>
    BY <2>1 DEF Fires
  <2>3. Idle /\ objs[i].timers > 0 /\ objs[i].cls \in DOMAIN CommandTable
    BY <2>1 DEF Fires, TypeInv, ObjectsOK, ObjectOK
  <2>4. objs'[i].at = IF r.to = "same" THEN objs[i].at ELSE r.to
    BY <2>2 DEF Handled, TypeInv, ObjectsOK, ObjectType
  <2>5. Frame(f, i, <<>>).f # "do" /\ "fire" \in Event \ {"start"}
    BY FrameFields DEF Event
  <2> HIDE DEF f
  <2> QED BY <2>2, <2>3, <2>4, <2>5, HandlerOrigin
<1> QED BY <1>2, <1>3, <1>4, <1>5, <1>6, <1>7

LEMMA Origins ==
  ASSUME TypeInv, Next, NEW k \in 1 .. Len(todo'), todo'[k].f = "do"
  PROVE  Origin(todo'[k], k, objs')
<1>1. CASE \/ LexCommand \/ LexSubshell \/ LexStops \/ LexFails \/ LexEnds \/ PopShell \/ PopNothing
           \/ RunNothing \/ RunAssignment \/ RunUnknown \/ RunPipe \/ CallOnNothing \/ OutConnectionLost
           \/ DoExitAgain \/ DoFail \/ TryEnds \/ (DoQueue /\ Raise)
  BY <1>1, MethodOrigin DEF Origin
<1>2. CASE \/ DoWrite \/ DoExit \/ DoExitAlone \/ DoEnd \/ DoTerminal \/ DoUser \/ DoTry \/ DoEcho
           \/ DoTimer \/ (DoQueue /\ Finish) \/ DoPop \/ DoRun \/ DoInteractive \/ DoInsert \/ DoChain
  BY <1>2, CommandOrigin DEF Origin
<1>3. CASE CallCommand
  BY <1>3, CallOrigin DEF Origin
<1>4. CASE Propagate \/ SyntaxError \/ Swallowed \/ Errback \/ Logged \/ Dropped
  BY <1>4, RaiseOrigin DEF Origin
<1>5. CASE \/ LineToShell \/ LineToCommand \/ LineDiscarded \/ ControlKey \/ CtrlCToShell \/ CtrlDToShell
           \/ EofOrTimeout \/ Disconnect \/ ToReactor \/ \E i \in Ids : Fires(i)
  BY <1>5, EventOrigin DEF Origin
<1>6. DoQueue => Raise \/ Finish
  BY DEF DoQueue
<1> QED BY <1>1, <1>2, <1>3, <1>4, <1>5, <1>6 DEF Next, Step

-----------------------------------------------------------------------------
(* What a step leaves alone.                                               *)

\* An object that is alive, or that a frame is about.
Known(i) == i \in Ids /\ i \notin Unused
SameObject(i) ==
  /\ objs'[i].cls = objs[i].cls /\ objs'[i].inter = objs[i].inter
  /\ ~Idle /\ ~At("raise") => objs'[i].at = objs[i].at
  /\ ~Idle /\ ~DoTimer => objs'[i].timers = objs[i].timers

LEMMA ObjectFields ==
  ASSUME TypeInv, NEW i \in Ids, NEW j \in Ids
  PROVE  /\ \A p : [objs EXCEPT ![j].pending = p][i].cls = objs[i].cls
                   /\ [objs EXCEPT ![j].pending = p][i].inter = objs[i].inter
                   /\ [objs EXCEPT ![j].pending = p][i].at = objs[i].at
                   /\ [objs EXCEPT ![j].pending = p][i].timers = objs[i].timers
         /\ \A n : [objs EXCEPT ![j].timers = n][i].cls = objs[i].cls
                   /\ [objs EXCEPT ![j].timers = n][i].inter = objs[i].inter
                   /\ [objs EXCEPT ![j].timers = n][i].at = objs[i].at
         /\ \A r : Handled(j, r)[i].cls = objs[i].cls /\ Handled(j, r)[i].timers = objs[i].timers
                   /\ Handled(j, r)[i].inter = objs[i].inter
         /\ \A r : [Handled(j, r) EXCEPT ![j].timers = @ - 1][i].cls = objs[i].cls
                   /\ [Handled(j, r) EXCEPT ![j].timers = @ - 1][i].inter = objs[i].inter
         /\ \A o : i # j => [objs EXCEPT ![j] = o][i] = objs[i]
BY DEF TypeInv, ObjectsOK, ObjectType, Handled

LEMMA Kept ==
  ASSUME TypeInv, Next, ~Disconnect, ~ToReactor, NEW i, Known(i)
  PROVE  SameObject(i)
<1>1. i \in Ids /\ i \notin Unused
  BY DEF Known
<1>2. ASSUME UNCHANGED objs PROVE SameObject(i)
  BY <1>2 DEF SameObject
<1>3. ASSUME NEW j \in Ids, NEW p, objs' = [objs EXCEPT ![j].pending = p] PROVE SameObject(i)
  BY <1>1, <1>3, ObjectFields DEF SameObject
<1>4. ASSUME Unused # {}, NEW o, objs' = [objs EXCEPT ![NewId] = o] PROVE SameObject(i)
  BY <1>1, <1>4, ObjectFields, FreshId DEF SameObject
<1>5. ASSUME NEW j \in Ids, NEW r, objs' = Handled(j, r), Idle \/ At("raise") PROVE SameObject(i)
  <2>1. At("raise") => ~DoTimer
    BY DEF At, DoTimer, Doing
  <2> QED BY <1>1, <1>5, ObjectFields DEF SameObject
<1>6. CASE \/ LexStops \/ LexEnds \/ PopShell \/ PopNothing \/ RunNothing \/ CallOnNothing \/ OutConnectionLost
           \/ DoWrite \/ DoExit \/ DoExitAlone \/ DoExitAgain \/ DoEnd \/ DoTerminal \/ DoFail \/ DoUser \/ DoTry
           \/ DoEcho \/ DoPop \/ DoInsert \/ DoChain
  BY <1>2, <1>6 DEF LexStops, LexEnds, PopShell, PopNothing, RunNothing, CallOnNothing, OutConnectionLost,
     DoWrite, DoExit, DoExitAlone, DoExitAgain, DoEnd, DoTerminal, DoFail, DoUser, DoTry, DoEcho, DoPop,
     DoInsert, DoChain
<1>7. CASE \/ Propagate \/ Swallowed \/ TryEnds \/ Logged \/ Dropped \/ LineToShell \/ LineDiscarded
           \/ CtrlCToShell \/ CtrlDToShell \/ EofOrTimeout
  BY <1>2, <1>7 DEF Propagate, Swallowed, TryEnds, Logged, Dropped, LineToShell, LineDiscarded, CtrlCToShell,
     CtrlDToShell, EofOrTimeout
<1>8. CASE LexCommand \/ LexFails \/ RunAssignment \/ RunUnknown \/ RunPipe
  <2>1. Self \in Ids
    BY <1>8, Running DEF LexCommand, LexFails, RunAssignment, RunUnknown, RunPipe, Reads, At
  <2>2. CASE LexCommand
    BY <2>1, <2>2, <1>3 DEF LexCommand
  <2>3. CASE LexFails
    BY <2>1, <2>3, <1>3 DEF LexFails
  <2>4. CASE RunAssignment \/ RunUnknown \/ RunPipe
    BY <2>1, <2>4, <1>3 DEF RunAssignment, RunUnknown, RunPipe
  <2> QED BY <1>8, <2>2, <2>3, <2>4
<1>9. CASE LexSubshell \/ DoRun \/ DoInteractive
  BY <1>4, <1>9 DEF LexSubshell, DoRun, DoInteractive
<1>10. CASE CallCommand
  BY <1>4, <1>10 DEF CallCommand
<1>11. CASE DoTimer
  <2>1. Self \in Ids /\ At("do")
    BY <1>11, Running DEF DoTimer, Doing, At
  <2>2. PICK n : objs' = [objs EXCEPT ![Self].timers = n]
    BY <1>11 DEF DoTimer
  <2> QED BY <2>1, <2>2, <1>1, <1>11, ObjectFields DEF SameObject
<1>12. CASE DoQueue
  <2>1. CASE cmdstack[1] \in Ids
    BY <2>1, <1>2, <1>3, <1>12 DEF DoQueue
  <2>2. CASE cmdstack[1] \notin Ids
    <3> DEFINE b == cmdstack[1]
    <3> DEFINE q == Queued(Received)
    <3>1. objs' = objs \/ objs' = [objs EXCEPT ![b].pending = Append(@, q)]
      BY <1>12 DEF DoQueue
    <3> HIDE DEF b, q
    <3>2. b \notin Ids
      BY <2>2 DEF b
    <3>3. objs' = objs
      BY <3>1, <3>2 DEF TypeInv, ObjectsOK
    <3> QED BY <3>3, <1>2
  <2> QED BY <2>1, <2>2
<1>13. CASE SyntaxError
  <2>1. At("raise") /\ Rest # <<>> /\ Head(Rest).f = "lex"
    BY <1>13 DEF SyntaxError, Thrown
  <2>2. Head(Rest).id \in Ids
    BY <2>1, Below DEF FrameOK
  <2> QED BY <2>2, <1>3, <1>13 DEF SyntaxError
<1>14. CASE Errback
  <2>1. At("raise") /\ Rest # <<>> /\ Head(Rest).f = "deferred"
    BY <1>14 DEF Errback, Thrown
  <2>2. Head(Rest).id \in Ids
    BY <2>1, Below DEF FrameOK
  <2> QED BY <2>1, <2>2, <1>5, <1>14 DEF Errback
<1>15. CASE LineToCommand \/ ControlKey
  <2>1. Top \in Ids /\ Idle
    BY <1>15, StackTop DEF LineToCommand, ControlKey, Receives
  <2> QED BY <2>1, <1>5, <1>15 DEF LineToCommand, ControlKey, Key
<1>16. CASE \E j \in Ids : Fires(j)
  <2>1. PICK j \in Ids : Fires(j)
    BY <1>16
  <2>2. PICK r : objs' = [Handled(j, r) EXCEPT ![j].timers = @ - 1]
    BY <2>1 DEF Fires
  <2>3. Idle
    BY <2>1 DEF Fires
  <2> QED BY <2>2, <2>3, <1>1, ObjectFields DEF SameObject
<1> QED BY <1>6, <1>7, <1>8, <1>9, <1>10, <1>11, <1>12, <1>13, <1>14, <1>15, <1>16 DEF Next, Step

LEMMA KnownOnes ==
  ASSUME TypeInv
  PROVE  /\ \A i \in ToSet(cmdstack) : Known(i)
         /\ \A k \in 1 .. Len(todo) : todo[k].id \in Ids => Known(todo[k].id)
         /\ \A i \in Ids : objs[i].timers > 0 => Known(i)
<1>1. DOMAIN todo = 1 .. Len(todo)
  BY LenProperties DEF TypeInv, FramesOK
<1>2. ToSet(cmdstack) \subseteq Ids
  BY DEF TypeInv, StackOK, ToSet
<1> QED BY <1>1, <1>2 DEF Known, Unused, Alive

\* The steps that change the stack.
LEMMA StackCases ==
  ASSUME Next
  PROVE  \/ UNCHANGED cmdstack \/ (cmdstack' = <<>> /\ (Dropped \/ Disconnect))
         \/ LexSubshell \/ CallCommand \/ DoRun \/ DoInteractive \/ PopShell \/ DoExit \/ DoPop
<1>1. CASE \/ LexCommand \/ LexStops \/ LexFails \/ LexEnds \/ PopNothing
           \/ RunNothing \/ RunAssignment \/ RunUnknown \/ RunPipe \/ CallOnNothing \/ OutConnectionLost
           \/ DoWrite \/ DoExitAlone \/ DoExitAgain \/ DoEnd \/ DoTerminal \/ DoFail \/ DoUser
           \/ DoTry \/ DoEcho \/ DoTimer \/ DoQueue \/ DoInsert \/ DoChain
  BY <1>1 DEF LexCommand, LexStops, LexFails, LexEnds, PopNothing, RunNothing, RunAssignment, RunUnknown,
     RunPipe, CallOnNothing, OutConnectionLost, DoWrite, DoExitAlone, DoExitAgain, DoEnd, DoTerminal, DoFail,
     DoUser, DoTry, DoEcho, DoTimer, DoQueue, DoInsert, DoChain
<1>2. CASE \/ Propagate \/ SyntaxError \/ Swallowed \/ TryEnds \/ Errback \/ Logged \/ ToReactor
           \/ LineToShell \/ LineToCommand \/ LineDiscarded \/ ControlKey \/ CtrlCToShell \/ CtrlDToShell
           \/ EofOrTimeout \/ \E j \in Ids : Fires(j)
  BY <1>2 DEF Propagate, SyntaxError, Swallowed, TryEnds, Errback, Logged, ToReactor, LineToShell,
     LineToCommand, LineDiscarded, ControlKey, CtrlCToShell, CtrlDToShell, EofOrTimeout, Fires
<1>3. CASE Dropped \/ Disconnect
  BY <1>3 DEF Dropped, Disconnect, ConnectionLost
<1> QED BY <1>1, <1>2, <1>3 DEF Next, Step

\* Only commands and new shells are put on the stack.
LEMMA StackGrows ==
  ASSUME TypeInv, Next, NEW i \in ToSet(cmdstack'), i \notin ToSet(cmdstack)
  PROVE  i = NewId /\ i \in Unused /\ Unused # {} /\ (CallCommand \/ objs'[i].cls = "shell")
<1>1. cmdstack \in Seq(Ids) /\ IsInjective(cmdstack)
  BY DEF TypeInv, StackOK
<1>2. ASSUME UNCHANGED cmdstack PROVE FALSE
  BY <1>2
<1>3. ASSUME NEW e, Without(cmdstack, cmdstack', e) PROVE FALSE
  BY <1>3 DEF Without
<1>4. ASSUME Unused # {}, cmdstack' = Append(cmdstack, NewId) PROVE i = NewId /\ i \in Unused
  BY <1>1, <1>4, FreshId, PushStack
<1>7. CASE cmdstack' = <<>>
  BY <1>7 DEF ToSet
<1>8. CASE PopShell
  BY <1>1, <1>3, <1>8, FrontStack DEF PopShell
<1>9. CASE DoExit
  BY <1>1, <1>3, <1>9, RemoveStack DEF DoExit
<1>10. CASE DoPop
  <2>1. Len(cmdstack) - 1 \in 1 .. Len(cmdstack) /\ cmdstack' = RemoveAt(cmdstack, Len(cmdstack) - 1)
    BY <1>1, <1>10 DEF DoPop
  <2> QED BY <2>1, <1>1, <1>3, DropStack
<1>11. CASE CallCommand
  BY <1>4, <1>11 DEF CallCommand
<1>12. CASE LexSubshell \/ DoRun
  <2>1. /\ Unused # {} /\ cmdstack' = Append(cmdstack, NewId)
        /\ objs' = [objs EXCEPT ![NewId] = Shell(FALSE)]
    BY <1>12 DEF LexSubshell, DoRun
  <2>2. objs'[NewId].cls = "shell"
    BY <2>1, ShellObject, FreshKeeps
  <2> QED BY <2>1, <2>2, <1>4
<1>13. CASE DoInteractive
  <2> DEFINE s == Append(cmdstack, NewId)
  <2>1. /\ Unused # {} /\ cmdstack' = RemoveFirst(s, Self)
        /\ objs' = [objs EXCEPT ![NewId] = Shell(TRUE)]
    BY <1>13 DEF DoInteractive
  <2>2. objs'[NewId].cls = "shell" /\ NewId \in Unused
    BY <2>1, ShellObject, FreshKeeps, FreshId
  <2>3. s \in Seq(Ids) /\ IsInjective(s) /\ ToSet(s) = ToSet(cmdstack) \cup {NewId}
    BY <2>1, <1>1, FreshId, PushStack
  <2> HIDE DEF s
  <2>4. ToSet(cmdstack') \subseteq ToSet(s)
    <3>1. CASE Self \in ToSet(s)
      BY <3>1, <2>1, <2>3, RemoveStack DEF Without
    <3>2. CASE Self \notin ToSet(s)
      <4>1. DOMAIN s = 1 .. Len(s)
        BY <2>3
      <4> QED BY <4>1, <3>2, <2>1 DEF RemoveFirst, ToSet
    <3> QED BY <3>1, <3>2
  <2> QED BY <2>1, <2>2, <2>3, <2>4
<1> QED BY <1>2, <1>7, <1>8, <1>9, <1>10, <1>11, <1>12, <1>13, StackCases

\* An object that stays on the stack stays what it is.
LEMMA StackClasses ==
  ASSUME TypeInv, Next, NEW i \in ToSet(cmdstack), i \in ToSet(cmdstack')
  PROVE  objs'[i].cls = objs[i].cls
<1>1. Known(i)
  BY KnownOnes
<1>2. CASE Disconnect
  BY <1>2 DEF Disconnect, ConnectionLost, ToSet
<1>3. CASE ToReactor
  BY <1>1, <1>3 DEF ToReactor, Alive, Known
<1> QED BY <1>1, <1>2, <1>3, Kept DEF SameObject

LEMMA TodoClasses ==
  ASSUME TypeInv, Next, todo' # <<>>, NEW k \in 1 .. Len(todo), todo[k].id \in Ids
  PROVE  objs'[todo[k].id].cls = objs[todo[k].id].cls
<1>1. Known(todo[k].id)
  BY KnownOnes
<1>2. todo # <<>>
  <2>1. todo = <<>> => Len(todo) = 0
    OBVIOUS
  <2> QED BY <2>1
<1>3. ~Disconnect
  BY <1>2 DEF Disconnect, Idle
<1>4. ASSUME ToReactor PROVE FALSE
  <2>1. todo' = <<>> \o Rest /\ Len(todo) = 1
    BY <1>4 DEF ToReactor, Return, Then
  <2>2. Rest \in Seq(FrameType) /\ Len(Rest) = 0
    BY <2>1, <1>2, HeadFrame DEF TypeInv, Rest
  <2>3. todo' = <<>>
    BY <2>1, <2>2, EmptySeq, ConcatEmptySeq
  <2> QED BY <2>3
<1> QED BY <1>1, <1>3, <1>4, Kept DEF SameObject

-----------------------------------------------------------------------------
(* Which steps there are from where.                                        *)

LEMMA Guards ==
  /\ LexCommand \/ LexSubshell \/ LexStops \/ LexFails \/ LexEnds => At("lex")
  /\ PopShell \/ PopNothing => At("pop")
  /\ RunNothing \/ RunAssignment \/ RunUnknown \/ RunPipe => At("run")
  /\ CallCommand \/ CallOnNothing => At("call")
  /\ OutConnectionLost => At("lost")
  /\ Propagate \/ SyntaxError \/ Swallowed \/ Errback \/ Logged \/ Dropped => At("raise")
  /\ TryEnds => At("try")
  /\ ToReactor => todo # <<>> /\ Head(todo).f \in Bottom
  /\ \/ LineToShell \/ LineToCommand \/ LineDiscarded \/ ControlKey \/ CtrlCToShell \/ CtrlDToShell
     \/ EofOrTimeout \/ Disconnect \/ \E i \in Ids : Fires(i)
     => Idle
<1>1. /\ LexCommand \/ LexSubshell \/ LexStops \/ LexFails \/ LexEnds => At("lex")
      /\ PopShell \/ PopNothing => At("pop")
  BY DEF LexCommand, LexSubshell, LexStops, LexFails, LexEnds, Reads, PopShell, PopNothing
<1>2. /\ RunNothing \/ RunAssignment \/ RunUnknown \/ RunPipe => At("run")
      /\ CallCommand \/ CallOnNothing => At("call")
      /\ OutConnectionLost => At("lost")
  BY DEF RunNothing, RunAssignment, RunUnknown, RunPipe, CallCommand, CallOnNothing, OutConnectionLost
<1>3. /\ Propagate \/ SyntaxError \/ Swallowed \/ Errback \/ Logged \/ Dropped => At("raise")
      /\ TryEnds => At("try")
  BY DEF Propagate, SyntaxError, Swallowed, Errback, Logged, Dropped, Thrown, TryEnds
<1>4. ToReactor => todo # <<>> /\ Head(todo).f \in Bottom
  <2>1. todo = <<>> => Len(todo) = 0
    OBVIOUS
  <2> QED BY <2>1 DEF ToReactor, Bottom
<1>5. \/ LineToShell \/ LineToCommand \/ LineDiscarded \/ ControlKey \/ CtrlCToShell \/ CtrlDToShell
      \/ EofOrTimeout \/ Disconnect \/ \E i \in Ids : Fires(i)
      => Idle
  BY DEF LineToShell, LineToCommand, LineDiscarded, ControlKey, CtrlCToShell, CtrlDToShell, Receives,
     EofOrTimeout, Disconnect, Fires
<1> QED BY <1>1, <1>2, <1>3, <1>4, <1>5

LEMMA OneGuard ==
  /\ \A f, g : At(f) /\ At(g) => f = g
  /\ \A f : At(f) => ~Idle
  /\ \A f \in Bottom : f # "do" /\ f # "call"
BY DEF At, Idle, Bottom

\* A frame "do" is for the operation its script begins with.
NextDoes(op) ==
  \/ op = "out" /\ DoWrite
  \/ op = "exit" /\ (DoExit \/ DoExitAlone \/ DoExitAgain)
  \/ op = "end" /\ (DoEnd \/ DoFail)
  \/ op = "term" /\ (DoTerminal \/ DoFail)
  \/ op = "user" /\ (DoUser \/ DoFail)
  \/ op = "raise" /\ DoFail
  \/ op = "try" /\ DoTry
  \/ op \in {"echoOff", "echoOn"} /\ DoEcho
  \/ op \in {"arm", "cancel"} /\ DoTimer
  \/ op = "queue" /\ DoQueue
  \/ op = "pop" /\ DoPop
  \/ op = "run" /\ (DoRun \/ DoFail)
  \/ op = "interactive" /\ DoInteractive
  \/ op = "insert" /\ DoInsert
  \/ op = "chain" /\ DoChain

LEMMA Operations ==
  ASSUME \/ DoWrite \/ DoExit \/ DoExitAlone \/ DoExitAgain \/ DoEnd \/ DoTerminal \/ DoFail \/ DoUser
         \/ DoTry \/ DoEcho \/ DoTimer \/ DoQueue \/ DoPop \/ DoRun \/ DoInteractive \/ DoInsert \/ DoChain
  PROVE  At("do") /\ NextDoes(Head(Head(todo).x))
<1>1. CASE DoWrite \/ DoExit \/ DoExitAlone \/ DoExitAgain \/ DoEnd \/ DoTerminal \/ DoUser
  BY <1>1 DEF DoWrite, DoExit, DoExitAlone, DoExitAgain, DoEnd, DoTerminal, DoUser, Doing, NextDoes
<1>2. CASE DoTry \/ DoQueue \/ DoPop \/ DoRun \/ DoInteractive \/ DoInsert \/ DoChain
  BY <1>2 DEF DoTry, DoQueue, DoPop, DoRun, DoInteractive, DoInsert, DoChain, Doing, NextDoes
<1>3. CASE DoFail \/ DoEcho \/ DoTimer
  BY <1>3 DEF DoFail, DoEcho, DoTimer, Doing, NextDoes
<1> QED BY <1>1, <1>2, <1>3

LEMMA DoesNext ==
  ASSUME Next, At("do")
  PROVE  NextDoes(Head(Head(todo).x))
<1>1. /\ ~At("lex") /\ ~At("pop") /\ ~At("run") /\ ~At("call") /\ ~At("lost") /\ ~At("raise") /\ ~At("try")
      /\ ~Idle /\ ~(Head(todo).f \in Bottom)
  BY DEF At, Idle, Bottom
<1> QED BY <1>1, Guards, Operations DEF Next, Step

LEMMA CallsNext ==
  ASSUME Next, At("call")
  PROVE  CallCommand \/ CallOnNothing
<1>1. /\ ~At("lex") /\ ~At("pop") /\ ~At("run") /\ ~At("do") /\ ~At("lost") /\ ~At("raise") /\ ~At("try")
      /\ ~Idle /\ ~(Head(todo).f \in Bottom)
  BY DEF At, Idle, Bottom
<1> QED BY <1>1, Guards, Operations DEF Next, Step

-----------------------------------------------------------------------------
(* Command_exit pops what is below it as soon as it is started.              *)

Includes(x, ops) == \E k \in 1 .. Len(x) : x[k] \in ops

Popping(fr, k, s) == k = 1 /\ fr.x = <<"pop", "exit">> /\ Len(s) > 1 /\ fr.id = Last(s)
PopInv ==
  \A k \in 1 .. Len(todo) :
    todo[k].f = "do" /\ Includes(todo[k].x, {"pop"}) => Popping(todo[k], k, cmdstack)

LEMMA TailIncludes ==
  ASSUME TypeInv, At("do"), NEW ops, Includes(Tail(Head(todo).x), ops)
  PROVE  Includes(Head(todo).x, ops)
<1> DEFINE x == Head(todo).x
<1>1. /\ Len(x) \in Nat /\ Len(Tail(x)) = Len(x) - 1
      /\ \A k \in 1 .. Len(x) - 1 : Tail(x)[k] = x[k + 1]
  BY Doer, TailScript
<1> HIDE DEF x
<1>2. PICK k \in 1 .. Len(Tail(x)) : Tail(x)[k] \in ops
  BY DEF Includes, x
<1>3. k + 1 \in 1 .. Len(x) /\ x[k + 1] \in ops
  BY <1>1, <1>2
<1> QED BY <1>3 DEF Includes, x

LEMMA TailOfTwo == \A a, b : Tail(<<a, b>>) = <<b>>
<1> SUFFICES ASSUME NEW a, NEW b PROVE Tail(<<a, b>>) = <<b>>
  OBVIOUS
<1> DEFINE S == {a, b}
<1> DEFINE s == <<a, b>>
<1> DEFINE r == <<b>>
<1>1. s \in Seq(S) /\ Len(s) = 2 /\ s[2] = b /\ r \in Seq(S) /\ Len(r) = 1 /\ r[1] = b
  OBVIOUS
<1> HIDE DEF S, s, r
<1>2. s # <<>>
  BY <1>1
<1>3. /\ Tail(s) \in Seq(S) /\ Len(Tail(s)) = Len(s) - 1
      /\ \A i \in 1 .. Len(Tail(s)) : Tail(s)[i] = s[i + 1]
  BY <1>1, <1>2, HeadTailProperties
<1>4. Len(Tail(s)) = 1 /\ \A i \in 1 .. 1 : Tail(s)[i] = r[i]
  <2>1. Len(Tail(s)) = 1 /\ 1 \in 1 .. Len(Tail(s)) /\ 1 + 1 = 2 /\ \A i \in 1 .. 1 : i = 1
    BY <1>1, <1>3
  <2>2. Tail(s)[1] = s[2]
    BY <2>1, <1>3
  <2> QED BY <2>1, <2>2, <1>1
<1>5. Tail(s) = r
  BY <1>1, <1>3, <1>4, SeqEqual
<1> QED BY <1>5 DEF s, r

LEMMA OneIncludes == \A a, ops : Includes(<<a>>, ops) <=> a \in ops
<1> SUFFICES ASSUME NEW a, NEW ops PROVE Includes(<<a>>, ops) <=> a \in ops
  OBVIOUS
<1>1. Len(<<a>>) = 1 /\ <<a>>[1] = a
  OBVIOUS
<1> QED BY <1>1 DEF Includes

LEMMA HeadDo ==
  ASSUME TypeInv, At("do")
  PROVE  1 \in 1 .. Len(todo) /\ todo[1] = Head(todo) /\ todo[1].f = "do" /\ todo[1].id = Self
BY HeadFrame DEF TypeInv, At, Self

\* Only the start of a command does anything to the stack but exit, or to the pipe but write.
LEMMA StartedScript ==
  ASSUME TypeInv, NEW fr, NEW os, Started(fr, os)
  PROVE  /\ ~Includes(fr.x, {"pop", "run", "interactive", "insert", "chain"})
         /\ fr.f = "do" /\ fr.id \in Ids
<1>1. PICK event \in Event \ {"start"} : \E r \in Handlers(fr.id, event) : fr = Frame("do", fr.id, r.do)
  BY DEF Started
<1>2. PICK r \in Handlers(fr.id, event) : fr = Frame("do", fr.id, r.do)
  BY <1>1
<1>3. r \in Rules(objs[fr.id].cls) /\ r.on # "start" /\ objs[fr.id].cls \in DOMAIN CommandTable
  BY <1>2 DEF Handlers, Started
<1>4. Allowed(objs[fr.id].cls, r.on, r.do)
  BY <1>3, RuleScript
<1>5. fr.x = r.do /\ fr.f = "do" /\ fr.id \in Ids
  BY <1>2, FrameFields DEF Started
<1> QED BY <1>3, <1>4, <1>5 DEF Allowed, Includes

LEMMA BegunScript ==
  ASSUME TypeInv, Next, NEW fr, Begun(fr, objs')
  PROVE  /\ CallCommand /\ cmdstack' = Append(cmdstack, NewId) /\ cmdstack # <<>>
         /\ fr.f = "do" /\ fr.id = NewId /\ NewId \in Ids /\ NewId \notin ToSet(cmdstack)
         /\ objs'[NewId].cls \in DOMAIN CommandTable
         /\ Allowed(objs'[NewId].cls, "start", fr.x)
         /\ Last(cmdstack') = NewId /\ Len(cmdstack') = Len(cmdstack) + 1
         /\ Len(cmdstack) \in Nat /\ Len(cmdstack) > 0
<1>1. CallCommand /\ cmdstack # <<>> /\ Unused # {}
  BY CallsNext DEF Begun, CallOnNothing
<1>2. cmdstack' = Append(cmdstack, NewId)
  BY <1>1 DEF CallCommand
<1>3. NewId \in Ids /\ NewId \notin ToSet(cmdstack)
  BY <1>1, FreshId
<1>4. objs'[NewId].cls \in DOMAIN CommandTable
  BY DEF Begun
<1>5. PICK r \in Rules(objs'[NewId].cls) : r.on = "start" /\ fr = Frame("do", NewId, r.do)
  BY DEF Begun
<1>6. Allowed(objs'[NewId].cls, r.on, r.do)
  BY <1>4, <1>5, RuleScript
<1>7. Allowed(objs'[NewId].cls, "start", fr.x) /\ fr.f = "do" /\ fr.id = NewId
  BY <1>5, <1>6, FrameFields
<1>8. cmdstack \in Seq(Ids) /\ IsInjective(cmdstack)
  BY DEF TypeInv, StackOK
<1>9. Last(cmdstack') = NewId /\ Len(cmdstack') = Len(cmdstack) + 1
  BY <1>2, <1>3, <1>8, PushStack
<1>10. Len(cmdstack) \in Nat /\ Len(cmdstack) > 0
  BY <1>1, <1>8, LenProperties, EmptySeq
<1> QED BY <1>1, <1>2, <1>3, <1>4, <1>7, <1>9, <1>10

LEMMA PopNext == TypeInv /\ PopInv /\ Next => PopInv'
<1> SUFFICES ASSUME TypeInv, PopInv, Next, NEW k \in 1 .. Len(todo'), todo'[k].f = "do",
                    Includes(todo'[k].x, {"pop"})
             PROVE  Popping(todo'[k], k, cmdstack')
  BY DEF PopInv
<1> DEFINE fr == todo'[k]
<1>1. Origin(fr, k, objs')
  BY Origins
<1>2. fr.f = "do" /\ Includes(fr.x, {"pop"})
  OBVIOUS
<1> HIDE DEF fr
<1>3. ~Inherited(fr)
  <2> SUFFICES ASSUME NEW j \in 2 .. Len(todo), fr = todo[j] PROVE FALSE
    BY DEF Inherited
  <2>1. j \in 1 .. Len(todo) /\ j # 1
    OBVIOUS
  <2> QED BY <1>2, <2>1 DEF PopInv, Popping
<1>4. ~Continued(fr, k)
  <2> SUFFICES ASSUME At("do"), fr = Frame("do", Self, Tail(Head(todo).x)) PROVE FALSE
    BY DEF Continued
  <2>1. Includes(Tail(Head(todo).x), {"pop"})
    BY <1>2, FrameFields
  <2>2. Head(todo).x = <<"pop", "exit">>
    BY <2>1, TailIncludes, HeadDo DEF PopInv, Popping
  <2>3. Tail(Head(todo).x) = <<"exit">>
    BY <2>2, TailOfTwo
  <2>4. ~Includes(<<"exit">>, {"pop"})
    BY OneIncludes
  <2> QED BY <2>1, <2>3, <2>4
<1>5. CASE k = 1 /\ Begun(fr, objs')
  <2>1. /\ Allowed(objs'[NewId].cls, "start", fr.x) /\ fr.id = NewId /\ Last(cmdstack') = NewId
        /\ Len(cmdstack') = Len(cmdstack) + 1 /\ Len(cmdstack) \in Nat /\ Len(cmdstack) > 0
    BY <1>5, BegunScript
  <2>2. fr.x = <<"pop", "exit">>
    BY <2>1, <1>2 DEF Allowed, Includes
  <2>3. Len(cmdstack') > 1
    BY <2>1
  <2> QED BY <2>1, <2>2, <2>3, <1>5 DEF Popping, fr
<1>6. ~Started(fr, objs')
  BY <1>2, StartedScript DEF Includes
<1> QED BY <1>1, <1>3, <1>4, <1>5, <1>6 DEF Origin

-----------------------------------------------------------------------------
(* The bottom of the stack.  Only Command_exit takes a shell from there, and  *)
(* it is about to leave the stack itself.                                     *)

Leaving ==
  /\ todo # <<>> /\ Head(todo).f = "do" /\ Head(todo).x = <<"exit">>
  /\ cmdstack = <<Head(todo).id>>
BottomInv == cmdstack # <<>> => IsShell(cmdstack[1]) \/ Leaving

LEMMA StackFacts ==
  ASSUME TypeInv
  PROVE  /\ cmdstack \in Seq(Ids) /\ IsInjective(cmdstack) /\ Len(cmdstack) \in Nat
         /\ cmdstack # <<>> <=> Len(cmdstack) > 0
         /\ cmdstack # <<>> => cmdstack[1] \in ToSet(cmdstack)
         /\ ToSet(cmdstack) \subseteq Ids
<1>1. cmdstack \in Seq(Ids) /\ IsInjective(cmdstack)
  BY DEF TypeInv, StackOK
<1>2. Len(cmdstack) \in Nat /\ (cmdstack # <<>> <=> Len(cmdstack) > 0) /\ DOMAIN cmdstack = 1 .. Len(cmdstack)
  BY <1>1, LenProperties, EmptySeq
<1>3. cmdstack # <<>> => cmdstack[1] \in ToSet(cmdstack)
  BY <1>2 DEF ToSet
<1>4. ToSet(cmdstack) \subseteq Ids
  BY <1>1 DEF ToSet
<1> QED BY <1>1, <1>2, <1>3, <1>4

LEMMA ExitRemoves ==
  ASSUME TypeInv, DoExit
  PROVE  Without(cmdstack, cmdstack', Self) /\ Self \in ToSet(cmdstack)
BY StackFacts, RemoveStack DEF DoExit

\* What is done of a script is what was left of it: the rest stays at the head.
LEMMA FinishHead ==
  ASSUME TypeInv, TypeInv', At("do"), Finish, Tail(Head(todo).x) # <<>>
  PROVE  /\ Len(todo') = Len(todo) /\ todo' # <<>>
         /\ Head(todo') = Frame("do", Self, Tail(Head(todo).x))
<1> DEFINE fr == Frame("do", Self, Tail(Head(todo).x))
<1>1. After = <<fr>>
  BY DEF After, Script
<1> HIDE DEF fr
<1>2. <<fr>> \in Seq({fr}) /\ Len(<<fr>>) = 1 /\ <<fr>>[1] = fr /\ todo # <<>> /\ Then(<<fr>>)
  BY <1>1 DEF At, Finish
<1>3. /\ Len(todo') = Len(<<fr>>) + Len(todo) - 1 /\ Len(todo) \in Nat /\ Len(todo) > 0
      /\ \A k \in 1 .. Len(<<fr>>) : todo'[k] = <<fr>>[k]
  BY <1>2, ThenIndex
<1>4. Len(todo') = Len(todo) /\ todo'[1] = fr
  BY <1>2, <1>3
<1>5. todo' # <<>>
  <2>1. todo' = <<>> => Len(todo') = 0
    OBVIOUS
  <2> QED BY <2>1, <1>3, <1>4
<1>6. Head(todo') = todo'[1]
  BY <1>5, HeadFrame DEF TypeInv
<1> QED BY <1>4, <1>5, <1>6 DEF fr

LEMMA HeadOfOne == \A a : Head(<<a>>) = a /\ <<a>>[1] = a /\ ToSet(<<a>>) = {a} /\ Len(<<a>>) = 1 /\ Tail(<<a>>) = <<>>
<1> SUFFICES ASSUME NEW a
             PROVE  Head(<<a>>) = a /\ <<a>>[1] = a /\ ToSet(<<a>>) = {a} /\ Len(<<a>>) = 1 /\ Tail(<<a>>) = <<>>
  OBVIOUS
<1> DEFINE s == <<a>>
<1>1. s \in Seq({a}) /\ Len(s) = 1 /\ s[1] = a /\ DOMAIN s = 1 .. 1
  OBVIOUS
<1> HIDE DEF s
<1>2. s # <<>> /\ Head(s) = a /\ ToSet(s) = {a}
  BY <1>1 DEF ToSet
<1>3. Tail(s) \in Seq({a}) /\ Len(Tail(s)) = 0
  BY <1>1, <1>2, HeadTailProperties
<1>4. Tail(s) = <<>>
  BY <1>3, EmptySeq
<1> QED BY <1>1, <1>2, <1>4 DEF s

LEMMA LeavingLeaves ==
  ASSUME TypeInv, Next, Leaving
  PROVE  cmdstack' = <<>>
<1>1. At("do") /\ Head(Head(todo).x) = "exit" /\ cmdstack = <<Self>>
  BY HeadOfOne DEF Leaving, At, Self
<1>2. DoExit \/ DoExitAlone \/ DoExitAgain
  BY <1>1, DoesNext DEF NextDoes
<1>3. cmdstack # <<>> /\ Self \in ToSet(cmdstack) /\ Len(cmdstack) = 1
  BY <1>1, HeadOfOne
<1>4. DoExit
  BY <1>2, <1>3 DEF DoExitAlone, DoExitAgain
<1>5. cmdstack' \in Seq(Ids) /\ Len(cmdstack') = 0
  BY <1>3, <1>4, ExitRemoves DEF Without
<1> QED BY <1>5, EmptySeq

\* As long as it is not left, the bottom of the stack stays what it was.
LEMMA BottomStays ==
  ASSUME TypeInv, TypeInv', PopInv, Next, cmdstack # <<>>, IsShell(cmdstack[1]), cmdstack' # <<>>
  PROVE  cmdstack'[1] = cmdstack[1] \/ Leaving'
<1> DEFINE b == cmdstack[1]
<1> HIDE DEF b
<1>1. cmdstack \in Seq(Ids) /\ IsInjective(cmdstack) /\ Len(cmdstack) \in Nat /\ Len(cmdstack) > 0
  BY StackFacts
<1>2. At("do") => Self # cmdstack[1] /\ Self \in Ids
  BY Doer
<1>3. CASE LexSubshell \/ CallCommand \/ DoRun
  <2>1. cmdstack' = Append(cmdstack, NewId) /\ Unused # {}
    BY <1>3 DEF LexSubshell, CallCommand, DoRun
  <2> QED BY <2>1, <1>1, FreshId, PushStack
<1>4. CASE DoInteractive
  <2> DEFINE s == Append(cmdstack, NewId)
  <2>1. Unused # {} /\ cmdstack' = RemoveFirst(s, Self) /\ At("do")
    BY <1>4 DEF DoInteractive, Doing
  <2>2. s \in Seq(Ids) /\ IsInjective(s) /\ s[1] = cmdstack[1]
    BY <2>1, <1>1, FreshId, PushStack
  <2> HIDE DEF s
  <2>3. CASE Self \in ToSet(s)
    BY <2>1, <2>2, <2>3, <1>2, RemoveStack DEF Without
  <2>4. CASE Self \notin ToSet(s)
    BY <2>1, <2>2, <2>4 DEF RemoveFirst, ToSet
  <2> QED BY <2>3, <2>4
<1>5. CASE PopShell
  <2>1. Without(cmdstack, cmdstack', Last(cmdstack))
    BY <1>1, <1>5, FrontStack DEF PopShell
  <2>2. Len(cmdstack') = Len(cmdstack) - 1 /\ cmdstack' \in Seq(Ids)
    BY <2>1 DEF Without
  <2>3. Len(cmdstack') > 0
    BY <2>2, EmptySeq, LenProperties
  <2>4. 1 \in 1 .. Len(cmdstack) /\ Len(cmdstack) \in 1 .. Len(cmdstack) /\ Len(cmdstack) # 1
    BY <2>2, <2>3, <1>1
  <2>5. Last(cmdstack) # cmdstack[1]
    <3>1. \A i, j \in 1 .. Len(cmdstack) : cmdstack[i] = cmdstack[j] => i = j
      BY <1>1 DEF IsInjective
    <3>2. cmdstack[Len(cmdstack)] # cmdstack[1]
      BY <2>4, <3>1
    <3> QED BY <3>2 DEF Last
  <2> QED BY <2>1, <2>5 DEF Without
<1>6. CASE DoExit
  <2>1. At("do")
    BY <1>6 DEF DoExit, Doing
  <2> QED BY <2>1, <1>2, <1>6, ExitRemoves DEF Without
<1>7. CASE DoPop
  <2> DEFINE below == Len(cmdstack) - 1
  <2>1. At("do") /\ Head(Head(todo).x) = "pop" /\ Len(cmdstack) > 1 /\ Finish /\ cmdstack' = RemoveAt(cmdstack, below)
    BY <1>7 DEF DoPop, Doing
  <2>2. below \in 1 .. Len(cmdstack) /\ 1 \in 1 .. Len(cmdstack)
    BY <2>1, <1>1
  <2> HIDE DEF below
  <2>3. Without(cmdstack, cmdstack', cmdstack[below])
    BY <2>1, <2>2, <1>1, DropStack
  <2>4. CASE below # 1
    <3>1. cmdstack[below] # cmdstack[1]
      BY <2>2, <2>4, <1>1 DEF IsInjective
    <3> QED BY <3>1, <2>3 DEF Without
  <2>5. CASE below = 1
    <3>1. Len(cmdstack) = 2 /\ Len(cmdstack) \in 1 .. Len(cmdstack)
      BY <2>5, <1>1 DEF below
    <3>2. Last(cmdstack) # cmdstack[below]
      BY <3>1, <2>2, <2>5, <1>1 DEF IsInjective, Last
    <3>3. Head(todo).x = <<"pop", "exit">> /\ Self = Last(cmdstack)
      <4>1. Head(todo).x # <<>> /\ ScriptOK(objs[Self].cls, Head(todo).x)
        BY <2>1, Doer
      <4>2. 1 \in 1 .. Len(Head(todo).x) /\ Head(todo).x[1] = "pop"
        BY <4>1, <2>1, TailScript
      <4>3. Includes(Head(todo).x, {"pop"})
        BY <4>2 DEF Includes
      <4> QED BY <4>3, <2>1, HeadDo DEF PopInv, Popping
    <3>4. Tail(Head(todo).x) = <<"exit">> /\ <<"exit">> # <<>>
      BY <3>3, TailOfTwo
    <3>5. todo' # <<>> /\ Head(todo') = Frame("do", Self, <<"exit">>)
      BY <3>4, <2>1, FinishHead
    <3>6. cmdstack' \in Seq(Ids) /\ Len(cmdstack') = 1 /\ Last(cmdstack') = Self
      BY <3>1, <3>2, <3>3, <2>3 DEF Without
    <3>7. cmdstack' = <<Self>>
      <4>1. cmdstack'[1] = Self
        BY <3>6 DEF Last
      <4>2. cmdstack' = <<cmdstack'[1]>>
        BY <3>6
      <4> QED BY <4>1, <4>2
    <3> QED BY <3>5, <3>7, FrameFields DEF Leaving
  <2> QED BY <2>4, <2>5
<1> QED BY <1>3, <1>4, <1>5, <1>6, <1>7, StackCases

LEMMA BottomNext == TypeInv /\ TypeInv' /\ PopInv /\ BottomInv /\ Next => BottomInv'
<1> SUFFICES ASSUME TypeInv, TypeInv', PopInv, BottomInv, Next, cmdstack' # <<>>, ~(Leaving')
             PROVE  objs'[cmdstack'[1]].cls = "shell"
  BY DEF BottomInv, IsShell
<1>1. ~Leaving
  BY LeavingLeaves
<1>2. cmdstack'[1] \in ToSet(cmdstack')
  <2>1. cmdstack' \in Seq(Ids) /\ Len(cmdstack') > 0 /\ DOMAIN cmdstack' = 1 .. Len(cmdstack')
    BY LenProperties, EmptySeq DEF TypeInv, StackOK
  <2> QED BY <2>1 DEF ToSet
<1>3. CASE cmdstack # <<>>
  <2>1. IsShell(cmdstack[1]) /\ cmdstack[1] \in ToSet(cmdstack)
    BY <1>1, <1>3, StackFacts DEF BottomInv
  <2>2. cmdstack'[1] = cmdstack[1]
    BY <2>1, <1>3, BottomStays
  <2> QED BY <2>1, <2>2, <1>2, StackClasses DEF IsShell
<1>4. CASE cmdstack = <<>>
  <2>1. cmdstack'[1] \notin ToSet(cmdstack)
    BY <1>4 DEF ToSet
  <2>2. CallCommand \/ objs'[cmdstack'[1]].cls = "shell"
    BY <2>1, <1>2, StackGrows
  <2> QED BY <2>2, <1>4 DEF CallCommand, IsShell
<1> QED BY <1>3, <1>4

-----------------------------------------------------------------------------
(* A session that is over: its stack is empty, and whatever is still to be   *)
(* done, by timers too, puts nothing on it.                                  *)

Special == {"pop", "run", "interactive", "insert", "chain"}
Quiet(fr) ==
  /\ fr.f \in {"do", "try", "raise"} \cup Bottom
  /\ fr.f = "do" => ~Includes(fr.x, Special)
QuietAll(t) == \A k \in 1 .. Len(t) : Quiet(t[k])
OverInv == conn = "closed" => cmdstack = <<>> /\ QuietAll(todo)

LEMMA QuietCat ==
  ASSUME NEW S, NEW T, NEW a \in Seq(S), NEW b \in Seq(T), QuietAll(a), QuietAll(b)
  PROVE  a \o b \in Seq(S \cup T) /\ QuietAll(a \o b)
<1> DEFINE U == S \cup T
<1> DEFINE r == a \o b
<1>1. a \in Seq(U) /\ b \in Seq(U)
  BY SeqMonotonic
<1> HIDE DEF U
<1>2. /\ r \in Seq(U) /\ Len(r) = Len(a) + Len(b) /\ Len(a) \in Nat /\ Len(b) \in Nat
      /\ \A k \in 1 .. Len(a) + Len(b) : r[k] = IF k <= Len(a) THEN a[k] ELSE b[k - Len(a)]
  BY <1>1, ConcatProperties, LenProperties
<1> HIDE DEF r
<1>3. ASSUME NEW k \in 1 .. Len(r) PROVE Quiet(r[k])
  <2>1. CASE k <= Len(a)
    BY <2>1, <1>2 DEF QuietAll
  <2>2. CASE ~(k <= Len(a))
    <3>1. k - Len(a) \in 1 .. Len(b) /\ r[k] = b[k - Len(a)]
      BY <2>2, <1>2
    <3> QED BY <3>1 DEF QuietAll
  <2> QED BY <2>1, <2>2
<1> QED BY <1>2, <1>3 DEF QuietAll, r, U

LEMMA QuietOne ==
  ASSUME NEW fr, Quiet(fr)
  PROVE  <<fr>> \in Seq({fr}) /\ QuietAll(<<fr>>)
<1>1. <<fr>> \in Seq({fr}) /\ Len(<<fr>>) = 1 /\ <<fr>>[1] = fr
  OBVIOUS
<1> QED BY <1>1 DEF QuietAll

LEMMA QuietNone == <<>> \in Seq({}) /\ QuietAll(<<>>)
BY DEF QuietAll

LEMMA QuietScript ==
  ASSUME NEW i, NEW ops, ~Includes(ops, Special)
  PROVE  Script(i, ops) \in Seq({Frame("do", i, ops)}) /\ QuietAll(Script(i, ops))
<1>1. Quiet(Frame("do", i, ops))
  BY FrameFields DEF Quiet
<1>2. CASE ops = <<>>
  BY <1>2, QuietNone DEF Script
<1>3. CASE ops # <<>>
  BY <1>1, <1>3, QuietOne DEF Script
<1> QED BY <1>2, <1>3

LEMMA QuietRest ==
  ASSUME TypeInv, todo # <<>>, QuietAll(todo)
  PROVE  /\ Rest \in Seq(FrameType) /\ QuietAll(Rest) /\ Quiet(Head(todo))
         /\ Rest # <<>> => Tail(Rest) \in Seq(FrameType) /\ QuietAll(Tail(Rest)) /\ Quiet(Head(Rest))
<1>1. /\ Rest \in Seq(FrameType) /\ Len(todo) \in Nat /\ Len(Rest) = Len(todo) - 1
      /\ \A k \in 1 .. Len(todo) - 1 : Rest[k] = todo[k + 1]
      /\ Head(todo) = todo[1] /\ 1 \in 1 .. Len(todo)
  BY HeadFrame DEF TypeInv, Rest
<1>2. QuietAll(Rest) /\ Quiet(Head(todo))
  <2>1. ASSUME NEW k \in 1 .. Len(Rest) PROVE Quiet(Rest[k])
    <3>1. k + 1 \in 1 .. Len(todo) /\ Rest[k] = todo[k + 1]
      BY <1>1
    <3> QED BY <3>1 DEF QuietAll
  <2> QED BY <2>1, <1>1 DEF QuietAll
<1>3. ASSUME Rest # <<>>
      PROVE  Tail(Rest) \in Seq(FrameType) /\ QuietAll(Tail(Rest)) /\ Quiet(Head(Rest))
  <2>1. /\ Tail(Rest) \in Seq(FrameType) /\ Len(Tail(Rest)) = Len(Rest) - 1 /\ Len(Rest) \in Nat
        /\ Len(Rest) > 0
        /\ \A k \in 1 .. Len(Tail(Rest)) : Tail(Rest)[k] = Rest[k + 1]
        /\ Head(Rest) = Rest[1]
    BY <1>1, <1>3, HeadTailProperties, LenProperties, EmptySeq
  <2>2. ASSUME NEW k \in 1 .. Len(Tail(Rest)) PROVE Quiet(Tail(Rest)[k])
    <3>1. k + 1 \in 1 .. Len(Rest) /\ Tail(Rest)[k] = Rest[k + 1]
      BY <2>1
    <3> QED BY <3>1, <1>2 DEF QuietAll
  <2>3. 1 \in 1 .. Len(Rest)
    BY <2>1
  <2> QED BY <2>1, <2>2, <2>3, <1>2 DEF QuietAll
<1> QED BY <1>1, <1>2, <1>3

\* What a handler of a rule does, and the frame below it.
LEMMA QuietHandler ==
  ASSUME NEW i, objs[i].cls \in DOMAIN CommandTable, NEW event \in Event \ {"start"},
         NEW r \in Handlers(i, event), NEW fr, fr.f \in Bottom
  PROVE  QuietAll(Script(i, r.do) \o <<fr>>)
<1>1. r \in Rules(objs[i].cls) /\ r.on # "start"
  BY DEF Handlers
<1>2. Allowed(objs[i].cls, r.on, r.do)
  BY <1>1, RuleScript
<1>3. ~Includes(r.do, Special)
  BY <1>1, <1>2 DEF Allowed, Includes, Special
<1>4. Quiet(fr)
  BY DEF Quiet, Bottom
<1> QED BY <1>3, <1>4, QuietScript, QuietOne, QuietCat

LEMMA QuietThen ==
  ASSUME TypeInv, todo # <<>>, QuietAll(todo), NEW S, NEW fs \in Seq(S), QuietAll(fs), Then(fs)
  PROVE  QuietAll(todo')
BY QuietRest, QuietCat DEF Then

LEMMA QuietAfter ==
  ASSUME TypeInv, At("do"), QuietAll(todo), NEW S, NEW b \in Seq(S), QuietAll(b),
         Then(After) \/ Then(After \o b)
  PROVE  QuietAll(todo')
<1>1. todo # <<>>
  BY DEF At
<1>2. ~Includes(Head(todo).x, Special)
  BY <1>1, QuietRest DEF At, Quiet
<1>3. ~Includes(Tail(Head(todo).x), Special)
  BY <1>2, TailIncludes
<1> DEFINE T == {Frame("do", Self, Tail(Head(todo).x))}
<1>4. After \in Seq(T) /\ QuietAll(After)
  BY <1>3, QuietScript DEF After
<1> HIDE DEF T
<1>5. After \o b \in Seq(T \cup S) /\ QuietAll(After \o b)
  BY <1>4, QuietCat
<1> QED BY <1>1, <1>4, <1>5, QuietThen

LEMMA QuietDoes ==
  ASSUME TypeInv, Next, At("do"), conn = "closed", cmdstack = <<>>, QuietAll(todo)
  PROVE  cmdstack' = <<>> /\ QuietAll(todo')
<1> DEFINE op == Head(Head(todo).x)
<1>1. op \notin Special
  <2>1. 1 \in 1 .. Len(Head(todo).x) /\ Head(Head(todo).x) = Head(todo).x[1]
    BY Doer, TailScript
  <2>2. ~Includes(Head(todo).x, Special)
    BY QuietRest DEF At, Quiet
  <2> QED BY <2>1, <2>2 DEF Includes
<1>2. NextDoes(op)
  BY DoesNext
<1> HIDE DEF op
<1>3. \/ DoWrite \/ DoExitAlone \/ DoEcho \/ DoTimer \/ DoQueue \/ DoTry \/ DoFail
  <2>1. ~DoExit /\ ~DoExitAgain /\ ~DoEnd /\ ~DoTerminal /\ ~DoUser
    BY DEF DoExit, DoExitAgain, DoEnd, DoTerminal, DoUser, ToSet
  <2> QED BY <1>1, <1>2, <2>1 DEF NextDoes, Special
<1>4. UNCHANGED cmdstack /\ (Finish \/ Raise \/ Then(After \o <<Frame("try", 0, <<>>)>>))
  BY <1>3 DEF DoWrite, DoExitAlone, DoEcho, DoTimer, DoQueue, DoTry, DoFail
<1>5. Quiet(Frame("try", 0, <<>>)) /\ Quiet(Frame("raise", 0, <<>>))
  BY FrameFields DEF Quiet
<1>6. ASSUME Finish \/ Then(After \o <<Frame("try", 0, <<>>)>>) PROVE QuietAll(todo')
  BY <1>5, <1>6, QuietOne, QuietAfter DEF Finish
<1>7. ASSUME Raise PROVE QuietAll(todo')
  BY <1>5, <1>7, QuietOne, QuietThen DEF Raise, At
<1> QED BY <1>4, <1>6, <1>7

LEMMA QuietRaises ==
  ASSUME TypeInv, Propagate \/ SyntaxError \/ Swallowed \/ Errback \/ Logged \/ Dropped, QuietAll(todo)
  PROVE  QuietAll(todo')
<1>1. At("raise") /\ Rest # <<>> /\ todo # <<>>
  BY DEF Propagate, SyntaxError, Swallowed, Errback, Logged, Dropped, Thrown, At
<1>2. /\ QuietAll(Rest) /\ Quiet(Head(todo)) /\ Tail(Rest) \in Seq(FrameType) /\ QuietAll(Tail(Rest))
  BY <1>1, QuietRest
<1>3. CASE Propagate
  <2>1. todo' = <<Head(todo)>> \o Tail(Rest)
    BY <1>3 DEF Propagate
  <2> QED BY <2>1, <1>2, QuietOne, QuietCat
<1>4. CASE SyntaxError \/ Swallowed \/ Logged \/ Dropped
  BY <1>2, <1>4 DEF SyntaxError, Swallowed, Logged, Dropped
<1>5. CASE Errback
  <2> DEFINE i == Head(Rest).id
  <2>1. PICK r \in Handlers(i, "error") :
          /\ Head(Rest).f = "deferred"
          /\ todo' = Script(i, r.do) \o <<Frame("later", i, <<>>)>>
    BY <1>5 DEF Errback, Thrown
  <2>2. objs[i].cls \in DOMAIN CommandTable
    BY <2>1, <1>1, Below DEF FrameOK
  <2> HIDE DEF i
  <2>3. Frame("later", i, <<>>).f \in Bottom /\ "error" \in Event \ {"start"}
    BY FrameFields DEF Event, Bottom
  <2> QED BY <2>1, <2>2, <2>3, QuietHandler
<1> QED BY <1>3, <1>4, <1>5

LEMMA QuietFires ==
  ASSUME TypeInv, NEW i \in Ids, Fires(i)
  PROVE  QuietAll(todo')
<1> DEFINE f == IF Handlers(i, "error") = {} THEN "later" ELSE "deferred"
<1>1. PICK r \in Handlers(i, "fire") : todo' = Script(i, r.do) \o <<Frame(f, i, <<>>)>>
  BY DEF Fires
<1>2. objs[i].cls \in DOMAIN CommandTable
  BY DEF Fires, TypeInv, ObjectsOK, ObjectOK
<1>3. Frame(f, i, <<>>).f \in Bottom /\ "fire" \in Event \ {"start"}
  BY FrameFields DEF Event, Bottom
<1> HIDE DEF f
<1> QED BY <1>1, <1>2, <1>3, QuietHandler

\* Only the reactor closes a session, between two events or when one of its own has raised.
LEMMA Closes ==
  ASSUME Next, conn # "closed", conn' = "closed"
  PROVE  Disconnect \/ Dropped
<1>1. CASE \/ LexCommand \/ LexSubshell \/ LexStops \/ LexFails \/ LexEnds \/ PopShell \/ PopNothing
           \/ RunAssignment \/ RunPipe \/ CallCommand \/ CallOnNothing \/ OutConnectionLost
  BY <1>1 DEF LexCommand, LexSubshell, LexStops, LexFails, LexEnds, PopShell, PopNothing,
     RunAssignment, RunPipe, CallCommand, CallOnNothing, OutConnectionLost
<1>2. CASE RunNothing \/ RunUnknown \/ DoExitAlone \/ DoEnd
  BY <1>2 DEF RunNothing, RunUnknown, DoExitAlone, DoEnd, ProcessEnded
<1>3. CASE DoPop
  <2>1. conn' = ProcessEnded \/ conn' = conn
    BY <1>3 DEF DoPop
  <2> QED BY <2>1 DEF ProcessEnded
<1>4. CASE \/ DoWrite \/ DoExit \/ DoExitAgain \/ DoTerminal \/ DoFail \/ DoUser \/ DoTry \/ DoEcho
           \/ DoTimer \/ DoQueue \/ DoRun \/ DoInteractive \/ DoInsert \/ DoChain
  BY <1>4 DEF DoWrite, DoExit, DoExitAgain, DoTerminal, DoFail, DoUser, DoTry, DoEcho,
     DoTimer, DoQueue, DoRun, DoInteractive, DoInsert, DoChain
<1>5. CASE Propagate \/ SyntaxError \/ Swallowed \/ TryEnds \/ Errback \/ Logged \/ ToReactor
  BY <1>5 DEF Propagate, SyntaxError, Swallowed, TryEnds, Errback, Logged, ToReactor
<1>6. CASE \/ LineToShell \/ LineToCommand \/ LineDiscarded \/ ControlKey \/ CtrlCToShell \/ CtrlDToShell
           \/ EofOrTimeout \/ \E i \in Ids : Fires(i)
  BY <1>6 DEF LineToShell, LineToCommand, LineDiscarded, ControlKey, CtrlCToShell, CtrlDToShell,
     EofOrTimeout, Fires, ProcessEnded
<1> QED BY <1>1, <1>2, <1>3, <1>4, <1>5, <1>6 DEF Next, Step

LEMMA OverNext == TypeInv /\ TypeInv' /\ OverInv /\ Next => OverInv'
<1> SUFFICES ASSUME TypeInv, OverInv, Next, conn' = "closed" PROVE cmdstack' = <<>> /\ QuietAll(todo')
  BY DEF OverInv
<1>1. CASE Disconnect
  <2>1. todo' = <<>> /\ cmdstack' = <<>>
    BY <1>1 DEF Disconnect, ConnectionLost, Idle
  <2> QED BY <2>1, QuietNone
<1>2. CASE Dropped
  <2>1. At("raise") /\ Rest # <<>> /\ Head(Rest).f \in Bottom /\ todo' = Rest /\ cmdstack' = <<>>
    BY <1>2 DEF Dropped, Thrown, ConnectionLost, Bottom
  <2>2. Tail(Rest) = <<>> /\ FramesOK(Rest, objs)
    BY <2>1, Below
  <2>3. Head(Rest) = Rest[1] /\ Len(Rest) \in Nat /\ Len(Rest) > 0 /\ Len(Tail(Rest)) = Len(Rest) - 1
    BY <2>1, <2>2, HeadFrame
  <2>4. Len(Rest) = 1
    <3>1. Len(<<>>) = 0
      OBVIOUS
    <3>2. Len(Tail(Rest)) = 0
      BY <3>1, <2>2
    <3> QED BY <3>2, <2>3
  <2>5. Rest[1].f \in Bottom
    BY <2>1, <2>3
  <2>6. Quiet(Rest[1])
    BY <2>5 DEF Quiet, Bottom
  <2>7. \A k \in 1 .. Len(Rest) : k = 1
    BY <2>4
  <2>8. QuietAll(Rest)
    BY <2>6, <2>7 DEF QuietAll
  <2> QED BY <2>1, <2>8
<1>3. CASE ~Disconnect /\ ~Dropped
  <2>1. conn = "closed" /\ cmdstack = <<>> /\ QuietAll(todo)
    BY <1>3, Closes DEF OverInv
  <2>2. CASE At("do")
    BY <2>1, <2>2, QuietDoes
  <2>3. CASE Propagate \/ SyntaxError \/ Swallowed \/ Errback \/ Logged
    <3>1. UNCHANGED cmdstack
      BY <2>3 DEF Propagate, SyntaxError, Swallowed, Errback, Logged
    <3> QED BY <3>1, <2>1, <2>3, QuietRaises
  <2>4. CASE TryEnds \/ ToReactor
    <3>1. UNCHANGED cmdstack /\ Then(<<>>) /\ todo # <<>>
      BY <2>4, Guards DEF TryEnds, ToReactor, Return, At
    <3> QED BY <3>1, <2>1, QuietThen, QuietNone
  <2>5. CASE \E i \in Ids : Fires(i)
    <3>1. UNCHANGED cmdstack
      BY <2>5 DEF Fires
    <3> QED BY <3>1, <2>1, <2>5, QuietFires
  <2>6. CASE ~At("do") /\ ~(\E i \in Ids : Fires(i)) /\ ~TryEnds /\ ~ToReactor /\ ~At("raise")
    <3>1. ~At("lex") /\ ~At("pop") /\ ~At("run") /\ ~At("call") /\ ~At("lost")
      <4>1. todo # <<>> => Quiet(Head(todo))
        BY <2>1, QuietRest
      <4> QED BY <4>1 DEF At, Quiet, Bottom
    <3>2. ~LineToShell /\ ~LineToCommand /\ ~LineDiscarded /\ ~ControlKey /\ ~CtrlCToShell /\ ~CtrlDToShell
          /\ ~EofOrTimeout
      BY <2>1 DEF LineToShell, LineToCommand, LineDiscarded, ControlKey, CtrlCToShell, CtrlDToShell, Receives,
         EofOrTimeout
    <3> QED BY <3>1, <3>2, <2>6, <1>3, Guards, Operations DEF Next, Step
  <2>7. At("raise") => Propagate \/ SyntaxError \/ Swallowed \/ Errback \/ Logged
    <3>1. ASSUME At("raise")
          PROVE  /\ ~At("lex") /\ ~At("pop") /\ ~At("run") /\ ~At("do") /\ ~At("lost") /\ ~At("call") /\ ~At("try")
                 /\ ~Idle /\ ~(Head(todo).f \in Bottom)
      BY <3>1 DEF At, Idle, Bottom
    <3> QED BY <3>1, <1>3, Guards, Operations DEF Next, Step
  <2> QED BY <2>2, <2>3, <2>4, <2>5, <2>6, <2>7
<1> QED BY <1>1, <1>2, <1>3

-----------------------------------------------------------------------------
(* gcc, whose CTRL-C does not exit, never waits on the stack: start exits.    *)

Compiling == {<<"exit">>, <<"out", "exit">>, <<"arm", "exit">>}
GccInv ==
  \A i \in ToSet(cmdstack) : objs[i].cls = "gcc" => At("do") /\ Self = i /\ Head(todo).x \in Compiling

LEMMA OneThen ==
  ASSUME NEW fr, NEW S, NEW b \in Seq(S)
  PROVE  /\ <<fr>> \o b \in Seq(S \cup {fr}) /\ Len(<<fr>> \o b) = 1 + Len(b) /\ Len(b) \in Nat
         /\ (<<fr>> \o b)[1] = fr /\ <<fr>> \o b # <<>> /\ Head(<<fr>> \o b) = fr
         /\ \A k \in 1 .. Len(b) : (<<fr>> \o b)[1 + k] = b[k]
<1> DEFINE a == <<fr>>
<1> DEFINE T == S \cup {fr}
<1>2. a \in Seq(T) /\ Len(a) = 1 /\ a[1] = fr /\ b \in Seq(T) /\ Len(b) \in Nat
  BY SeqMonotonic, LenProperties
<1> HIDE DEF a, T
<1> DEFINE fs == a \o b
<1>3. /\ fs \in Seq(T) /\ Len(fs) = Len(a) + Len(b)
      /\ \A k \in 1 .. Len(a) + Len(b) : fs[k] = IF k <= Len(a) THEN a[k] ELSE b[k - Len(a)]
  BY <1>2, ConcatProperties
<1> HIDE DEF fs
<1>4. Len(fs) = 1 + Len(b) /\ fs[1] = fr
  BY <1>2, <1>3
<1>5. ASSUME NEW k \in 1 .. Len(b) PROVE fs[1 + k] = b[k]
  <2>1. 1 + k \in 1 .. Len(a) + Len(b) /\ ~(1 + k <= Len(a)) /\ 1 + k - Len(a) = k
    BY <1>2
  <2> QED BY <2>1, <1>3
<1>6. fs # <<>> /\ Head(fs) = fs[1]
  BY <1>2, <1>3, <1>4, EmptySeq, HeadTailProperties
<1> QED BY <1>2, <1>3, <1>4, <1>5, <1>6 DEF T, fs, a

LEMMA ScriptHead ==
  ASSUME TypeInv, TypeInv', todo # <<>>, NEW i, NEW ops, ops # <<>>, NEW S, NEW b \in Seq(S),
         Then(Script(i, ops) \o b)
  PROVE  todo' # <<>> /\ Head(todo') = Frame("do", i, ops)
<1> DEFINE fr == Frame("do", i, ops)
<1> DEFINE T == S \cup {fr}
<1>1. Then(<<fr>> \o b)
  BY DEF Script
<1> HIDE DEF fr
<1> DEFINE fs == <<fr>> \o b
<1>2. fs \in Seq(T) /\ Len(fs) = 1 + Len(b) /\ Len(b) \in Nat /\ fs[1] = fr
  BY OneThen
<1>3. Then(fs)
  BY <1>1
<1> HIDE DEF fs, T
<1>4. /\ Len(todo') = Len(fs) + Len(todo) - 1 /\ Len(todo) \in Nat /\ Len(todo) > 0
      /\ \A k \in 1 .. Len(fs) : todo'[k] = fs[k]
  BY <1>2, <1>3, ThenIndex
<1>5. Len(todo') > 0 /\ todo'[1] = fs[1]
  BY <1>2, <1>4
<1>6. todo' # <<>>
  <2>1. Len(<<>>) = 0
    OBVIOUS
  <2> QED BY <2>1, <1>5
<1>7. Head(todo') = todo'[1]
  BY <1>6, HeadFrame DEF TypeInv
<1> QED BY <1>2, <1>5, <1>6, <1>7 DEF fr

\* The command that is called, and what its start is about to do.
Calls(r) ==
  /\ r \in Rules(objs'[NewId].cls) /\ r.on = "start"
  /\ r.to # "same" => objs'[NewId].at = r.to
  /\ Then(Script(NewId, r.do) \o <<Frame("lost", 0, <<>>)>>)
  /\ r.do # <<>> => todo' # <<>> /\ Head(todo') = Frame("do", NewId, r.do)

LEMMA CallStep ==
  ASSUME TypeInv, TypeInv', CallCommand
  PROVE  /\ NewId \in Ids /\ objs'[NewId].cls \in DOMAIN CommandTable /\ objs'[NewId].timers = 0
         /\ \A j \in Ids : j # NewId => objs'[j] = objs[j]
         /\ \E r : Calls(r)
         /\ shared' = (shared \/ (objs'[NewId].cls \in Hiding /\ \E i \in Ids : Alive(i) /\ objs[i].cls \in Hiding))
<1>1. todo # <<>> /\ At("call") /\ cmdstack # <<>> /\ Unused # {} /\ pp.fed \in BOOLEAN /\ NewId \in Ids
  BY FreshId DEF CallCommand, At, TypeInv, PipeOK
<1> DEFINE new == Command(Head(Head(todo).x), pp.fed /\ Self = pp.owner)
<1>2. PICK r \in Rules(new.cls) :
        /\ r.on = "start"
        /\ objs' = [objs EXCEPT ![NewId] = [new EXCEPT !.at = IF r.to = "same" THEN @ ELSE r.to]]
        /\ Then(Script(NewId, r.do) \o <<Frame("lost", 0, <<>>)>>)
        /\ shared' = (shared \/ (new.cls \in Hiding /\ \E i \in Ids : Alive(i) /\ objs[i].cls \in Hiding))
  BY DEF CallCommand
<1>3. ObjectOK(new) /\ new.cls \in DOMAIN CommandTable /\ new.timers = 0
  <2>1. FrameOK(Head(todo), objs) /\ Head(todo).f = "call"
    BY <1>1, Running DEF At
  <2>2. Head(Head(todo).x) \in Runnable
    BY <2>1, HeadTailProperties DEF FrameOK
  <2> QED BY <2>2, <1>1, CommandObject DEF Command, Object
<1> DEFINE o == [new EXCEPT !.at = IF r.to = "same" THEN @ ELSE r.to]
<1> HIDE DEF new
<1>4. o.cls = new.cls /\ o.timers = 0 /\ (r.to # "same" => o.at = r.to)
  BY <1>3 DEF ObjectOK, ObjectType
<1> HIDE DEF o
<1>5. objs'[NewId] = o /\ \A j \in Ids : j # NewId => objs'[j] = objs[j]
  BY <1>1, <1>2 DEF TypeInv, ObjectsOK, o
<1> DEFINE lost == Frame("lost", 0, <<>>)
<1>6. Then(Script(NewId, r.do) \o <<lost>>)
  BY <1>2
<1> HIDE DEF lost
<1>7. <<lost>> \in Seq({lost})
  OBVIOUS
<1>8. r.do # <<>> => todo' # <<>> /\ Head(todo') = Frame("do", NewId, r.do)
  BY <1>1, <1>6, <1>7, ScriptHead
<1>9. Calls(r)
  BY <1>2, <1>4, <1>5, <1>8 DEF Calls
<1> QED BY <1>1, <1>2, <1>3, <1>4, <1>5, <1>9

LEMMA HeadOfTwo == \A a, b : Head(<<a, b>>) = a
OBVIOUS

LEMMA GccNext == TypeInv /\ TypeInv' /\ GccInv /\ Next => GccInv'
<1> SUFFICES ASSUME TypeInv, TypeInv', GccInv, Next, NEW i \in ToSet(cmdstack'), objs'[i].cls = "gcc"
             PROVE  todo' # <<>> /\ Head(todo').f = "do" /\ Head(todo').id = i /\ Head(todo').x \in Compiling
  BY DEF GccInv, At, Self
<1>1. CASE i \notin ToSet(cmdstack)
  <2>1. i = NewId /\ CallCommand
    <3>1. i = NewId /\ (CallCommand \/ objs'[i].cls = "shell")
      BY <1>1, StackGrows
    <3> QED BY <3>1
  <2>2. PICK r : Calls(r)
    BY <2>1, CallStep
  <2>3. SoundRule("gcc", r)
    <3>1. r \in Rules("gcc") /\ "gcc" \in DOMAIN CommandTable
      BY <2>1, <2>2, CallStep DEF Calls
    <3> QED BY <3>1, RuleScript
  <2>4. r.do \in Compiling
    BY <2>2, <2>3 DEF SoundRule, Calls, Compiling
  <2>5. r.do # <<>>
    BY <2>4 DEF Compiling
  <2>6. todo' # <<>> /\ Head(todo') = Frame("do", NewId, r.do)
    BY <2>2, <2>5 DEF Calls
  <2> QED BY <2>1, <2>4, <2>6, FrameFields
<1>2. CASE i \in ToSet(cmdstack)
  <2>1. At("do") /\ Self = i /\ Head(todo).x \in Compiling
    BY <1>2, StackClasses DEF GccInv
  <2>2. NextDoes(Head(Head(todo).x))
    BY <2>1, DoesNext
  <2>3. CASE Head(todo).x = <<"exit">>
    <3>1. DoExit \/ DoExitAlone \/ DoExitAgain
      BY <2>2, <2>3, HeadOfOne DEF NextDoes
    <3>2. DoExit
      BY <3>1, <2>1, <1>2 DEF DoExitAlone, DoExitAgain, ToSet
    <3> QED BY <3>2, <2>1, ExitRemoves DEF Without
  <2>4. ASSUME Head(todo).x = <<"out", "exit">> \/ Head(todo).x = <<"arm", "exit">>
        PROVE  todo' # <<>> /\ Head(todo') = Frame("do", i, <<"exit">>)
    <3>1. Head(Head(todo).x) \in {"out", "arm"} /\ Tail(Head(todo).x) = <<"exit">>
      BY <2>4, TailOfTwo, HeadOfTwo
    <3>2. DoWrite \/ DoTimer
      BY <3>1, <2>2 DEF NextDoes
    <3>3. Finish
      BY <3>2 DEF DoWrite, DoTimer
    <3>4. Tail(Head(todo).x) # <<>>
      BY <3>1
    <3> QED BY <3>1, <3>3, <3>4, <2>1, FinishHead
  <2>5. CASE Head(todo).x \in {<<"out", "exit">>, <<"arm", "exit">>}
    BY <2>4, <2>5, FrameFields DEF Compiling
  <2> QED BY <2>1, <2>3, <2>5 DEF Compiling
<1> QED BY <1>1, <1>2

-----------------------------------------------------------------------------
(* An event of the reactor stays the one at the bottom of the frames.        *)

LEMMA ThenLast ==
  ASSUME TypeInv, todo # <<>>, Head(todo).f \notin Bottom, NEW S, NEW fs \in Seq(S), Then(fs)
  PROVE  Last(todo') = Last(todo)
<1>1. /\ Len(fs) \in Nat /\ Len(todo) \in Nat /\ Len(todo) > 0
      /\ Len(todo') = Len(fs) + Len(todo) - 1
      /\ \A k \in Len(fs) + 1 .. Len(fs) + Len(todo) - 1 : todo'[k] = todo[k - Len(fs) + 1]
  BY ThenIndex
<1>2. Len(todo) # 1
  <2>1. Head(todo) = todo[1] /\ 1 \in 1 .. Len(todo)
    BY HeadFrame DEF TypeInv
  <2> QED BY <2>1 DEF TypeInv, FramesOK
<1>3. /\ Len(todo') \in Len(fs) + 1 .. Len(fs) + Len(todo) - 1 /\ Len(todo') - Len(fs) + 1 = Len(todo)
  <2>1. ASSUME NEW m \in Nat, NEW n \in Nat, n > 0, n # 1, NEW l, l = m + n - 1
        PROVE  l \in m + 1 .. m + n - 1 /\ l - m + 1 = n
    BY <2>1
  <2> QED BY <2>1, <1>1, <1>2
<1> QED BY <1>1, <1>3 DEF Last

LEMMA SeqCat ==
  ASSUME NEW S, NEW T, NEW a \in Seq(S), NEW b \in Seq(T)
  PROVE  a \o b \in Seq(S \cup T)
<1> DEFINE U == S \cup T
<1>1. a \in Seq(U) /\ b \in Seq(U)
  BY SeqMonotonic
<1> HIDE DEF U
<1>2. a \o b \in Seq(U)
  BY <1>1, ConcatProperties
<1> QED BY <1>2 DEF U

LEMMA SmallSeqs ==
  /\ <<>> \in Seq({})
  /\ \A a : <<a>> \in Seq({a})
  /\ \A a, b : <<a, b>> \in Seq({a, b})
  /\ \A a, b, c : <<a, b, c>> \in Seq({a, b, c})
OBVIOUS

LEMMA FewLast ==
  ASSUME TypeInv, todo # <<>>, Head(todo).f \notin Bottom, NEW a, NEW b, NEW c,
         Then(<<>>) \/ Then(<<a>>) \/ Then(<<a, b, c>>)
  PROVE  Last(todo') = Last(todo)
<1>1. <<>> \in Seq({}) /\ <<a>> \in Seq({a}) /\ <<a, b, c>> \in Seq({a, b, c})
  BY SmallSeqs
<1> QED BY <1>1, ThenLast

LEMMA AfterLast ==
  ASSUME TypeInv, At("do"), NEW a, NEW b,
         \/ Then(After) \/ Then(After \o <<a>>) \/ Then(<<a>> \o After) \/ Then(<<a, b>> \o After)
  PROVE  Last(todo') = Last(todo)
<1>1. todo # <<>> /\ Head(todo).f \notin Bottom
  BY Doer
<1> DEFINE T == {Frame("do", Self, Tail(Head(todo).x))}
<1>2. After \in Seq(T)
  BY ScriptOnly DEF After
<1> HIDE DEF T
<1>3. <<a>> \in Seq({a}) /\ <<a, b>> \in Seq({a, b})
  BY SmallSeqs
<1>4. /\ After \o <<a>> \in Seq(T \cup {a}) /\ <<a>> \o After \in Seq({a} \cup T)
      /\ <<a, b>> \o After \in Seq({a, b} \cup T)
  BY <1>2, <1>3, SeqCat
<1> QED BY <1>1, <1>2, <1>4, ThenLast

LEMMA MethodLast ==
  ASSUME TypeInv,
         \/ LexCommand \/ LexSubshell \/ LexStops \/ LexFails \/ LexEnds \/ PopShell \/ PopNothing
         \/ RunNothing \/ RunAssignment \/ RunUnknown \/ RunPipe \/ CallOnNothing \/ OutConnectionLost
         \/ TryEnds
  PROVE  Last(todo') = Last(todo)
<1>1. todo # <<>> /\ Head(todo).f \notin Bottom
  BY Guards DEF At, Bottom
<1>2. ASSUME Then(<<>>) PROVE Last(todo') = Last(todo)
  BY <1>1, <1>2, FewLast
<1>3. ASSUME NEW a, Then(<<a>>) PROVE Last(todo') = Last(todo)
  BY <1>1, <1>3, FewLast
<1>4. CASE LexSubshell
  <2>1. PICK a, b, c : Then(<<a, b, c>>)
    BY <1>4 DEF LexSubshell
  <2> QED BY <1>1, <2>1, FewLast
<1>5. CASE LexCommand \/ LexStops \/ LexFails \/ LexEnds \/ PopShell \/ PopNothing
  BY <1>2, <1>3, <1>5 DEF LexCommand, LexStops, LexFails, LexEnds, PopShell, PopNothing, Return, Raise
<1>6. CASE RunNothing \/ RunAssignment \/ RunUnknown \/ RunPipe \/ CallOnNothing \/ OutConnectionLost \/ TryEnds
  BY <1>2, <1>3, <1>6 DEF RunNothing, RunAssignment, RunUnknown, RunOrPrompt, RunPipe, CallOnNothing,
     OutConnectionLost, TryEnds, Return, Raise
<1> QED BY <1>4, <1>5, <1>6

LEMMA CallLast ==
  ASSUME TypeInv, TypeInv', CallCommand
  PROVE  Last(todo') = Last(todo)
<1>1. todo # <<>> /\ Head(todo).f \notin Bottom
  BY Guards DEF At, Bottom
<1>2. PICK r : Then(Script(NewId, r.do) \o <<Frame("lost", 0, <<>>)>>)
  BY CallStep DEF Calls
<1> DEFINE s == Script(NewId, r.do)
<1> DEFINE T == {Frame("do", NewId, r.do)}
<1> DEFINE lost == Frame("lost", 0, <<>>)
<1>3. s \in Seq(T)
  BY ScriptOnly
<1>4. Then(s \o <<lost>>)
  BY <1>2
<1> HIDE DEF s, T, lost
<1>5. s \o <<lost>> \in Seq(T \cup {lost})
  BY <1>3, SmallSeqs, SeqCat
<1> QED BY <1>1, <1>4, <1>5, ThenLast

LEMMA DoLast ==
  ASSUME TypeInv, Next, At("do")
  PROVE  Last(todo') = Last(todo)
<1>1. NextDoes(Head(Head(todo).x))
  BY DoesNext
<1>2. todo # <<>> /\ Head(todo).f \notin Bottom
  BY Doer
<1>3. ASSUME Finish PROVE Last(todo') = Last(todo)
  BY <1>3, AfterLast DEF Finish
<1>4. ASSUME Raise PROVE Last(todo') = Last(todo)
  BY <1>2, <1>4, FewLast DEF Raise
<1>5. CASE \/ DoWrite \/ DoExitAlone \/ DoEnd \/ DoTerminal \/ DoUser \/ DoEcho
           \/ DoTimer \/ DoPop \/ DoInteractive \/ DoInsert
  BY <1>3, <1>5 DEF DoWrite, DoExitAlone, DoEnd, DoTerminal, DoUser, DoEcho, DoTimer, DoPop,
     DoInteractive, DoInsert
<1>6. CASE DoExitAgain \/ DoFail \/ DoQueue
  BY <1>3, <1>4, <1>6 DEF DoExitAgain, DoFail, DoQueue
<1>7. CASE DoExit
  <2>1. PICK a : Then(<<a>> \o After) \/ Then(After)
    BY <1>7 DEF DoExit
  <2> QED BY <2>1, AfterLast
<1>8. CASE DoTry \/ DoChain
  BY <1>8, AfterLast DEF DoTry, DoChain
<1>9. CASE DoRun
  <2>1. PICK a, b : Then(<<a, b>> \o After)
    BY <1>9 DEF DoRun
  <2> QED BY <2>1, AfterLast
<1> QED BY <1>1, <1>5, <1>6, <1>7, <1>8, <1>9 DEF NextDoes

LEMMA RaiseLast ==
  ASSUME TypeInv, Propagate \/ SyntaxError \/ Swallowed \/ Logged \/ Dropped
  PROVE  Last(todo') = Last(todo)
<1>1. At("raise") /\ Rest # <<>>
  BY DEF Propagate, SyntaxError, Swallowed, Logged, Dropped, Thrown
<1>2. /\ Last(Rest) = Last(todo) /\ FramesOK(Rest, objs) /\ (Head(Rest).f \in Bottom <=> Tail(Rest) = <<>>)
  BY <1>1, Below
<1>3. /\ Tail(Rest) \in Seq(FrameType) /\ Len(Rest) \in Nat /\ Len(Rest) > 0 /\ Len(Tail(Rest)) = Len(Rest) - 1
      /\ \A j \in 1 .. Len(Rest) - 1 : Tail(Rest)[j] = Rest[j + 1]
  BY <1>1, <1>2, HeadFrame
<1>4. CASE Logged \/ Dropped
  BY <1>2, <1>4 DEF Logged, Dropped
<1>5. ASSUME Head(Rest).f \notin Bottom
      PROVE  /\ Last(Tail(Rest)) = Last(todo) /\ Len(Tail(Rest)) \in Nat /\ Len(Tail(Rest)) > 0
             /\ Tail(Rest)[Len(Tail(Rest))] = Last(todo)
  <2>1. Tail(Rest) # <<>>
    BY <1>2, <1>5
  <2>2. Len(Tail(Rest)) > 0
    BY <2>1, <1>3, EmptySeq, LenProperties
  <2>3. Len(Rest) - 1 \in 1 .. Len(Rest) - 1 /\ Len(Rest) - 1 + 1 = Len(Rest)
    BY <2>2, <1>3
  <2>4. Tail(Rest)[Len(Rest) - 1] = Rest[Len(Rest)]
    BY <2>3, <1>3
  <2> QED BY <2>2, <2>4, <1>2, <1>3 DEF Last
<1>6. CASE SyntaxError \/ Swallowed
  <2>1. todo' = Tail(Rest) /\ Head(Rest).f \notin Bottom
    BY <1>6 DEF SyntaxError, Swallowed, Thrown, Bottom
  <2> QED BY <2>1, <1>5
<1>7. CASE Propagate
  <2> DEFINE a == Head(todo)
  <2> DEFINE t == Tail(Rest)
  <2>1. todo' = <<a>> \o t /\ Head(Rest).f \notin Bottom
    BY <1>7 DEF Propagate, Bottom
  <2>2. t \in Seq(FrameType) /\ Len(t) \in Nat /\ Len(t) > 0 /\ t[Len(t)] = Last(todo)
    BY <2>1, <1>3, <1>5
  <2> HIDE DEF a, t
  <2>3. /\ Len(<<a>> \o t) = 1 + Len(t) /\ \A k \in 1 .. Len(t) : (<<a>> \o t)[1 + k] = t[k]
    BY <2>2, OneThen
  <2>4. (<<a>> \o t)[1 + Len(t)] = t[Len(t)]
    BY <2>2, <2>3
  <2> QED BY <2>1, <2>2, <2>3, <2>4 DEF Last
<1> QED BY <1>4, <1>6, <1>7

LEMMA LastStays ==
  ASSUME TypeInv, TypeInv', Next, ~Idle, ~ToReactor, ~Errback
  PROVE  Last(todo') = Last(todo)
<1>1. CASE At("do")
  BY <1>1, DoLast
<1>2. CASE CallCommand
  BY <1>2, CallLast
<1>3. CASE Propagate \/ SyntaxError \/ Swallowed \/ Logged \/ Dropped
  BY <1>3, RaiseLast
<1>4. CASE \/ LexCommand \/ LexSubshell \/ LexStops \/ LexFails \/ LexEnds \/ PopShell \/ PopNothing
           \/ RunNothing \/ RunAssignment \/ RunUnknown \/ RunPipe \/ CallOnNothing \/ OutConnectionLost
           \/ TryEnds
  BY <1>4, MethodLast
<1> QED BY <1>1, <1>2, <1>3, <1>4, Guards, Operations DEF Next, Step

-----------------------------------------------------------------------------
(* The command CTRL-C was for: until its handler is through it is at its     *)
(* script, which exits; from then on it is not on the stack.                 *)

Freed(i) == i \notin ToSet(cmdstack) \/ objs[i].cls = "nc"
Freeing(i) == Len(todo) = 2 /\ At("do") /\ Self = i /\ Interrupts(Head(todo).x)
FreeInv ==
  todo # <<>> /\ Last(todo).f = "input" /\ Last(todo).id # 0
    => Freed(Last(todo).id) \/ Freeing(Last(todo).id)

LEMMA TailInterrupts ==
  ASSUME NEW cls, NEW x, ScriptOK(cls, x), x # <<>>, Interrupts(x), Head(x) # "exit"
  PROVE  Interrupts(Tail(x)) /\ Tail(x) # <<>> /\ Head(x) \in {"out", "cancel"}
<1>1. /\ Head(x) = x[1] /\ Len(x) \in Nat /\ 1 \in 1 .. Len(x) /\ Len(Tail(x)) = Len(x) - 1
      /\ \A k \in 1 .. Len(x) - 1 : Tail(x)[k] = x[k + 1]
  BY TailScript
<1>2. \A k \in 1 .. Len(x) : x[k] \in {"out", "cancel", "exit"}
  BY DEF Interrupts
<1>3. PICK k \in 1 .. Len(x) : x[k] = "exit"
  BY DEF Interrupts
<1>4. k - 1 \in 1 .. Len(Tail(x)) /\ Tail(x)[k - 1] = "exit"
  <2>1. k # 1
    BY <1>1, <1>3
  <2>2. k - 1 \in 1 .. Len(x) - 1 /\ k - 1 + 1 = k
    BY <1>1, <2>1
  <2> QED BY <2>2, <1>1, <1>3
<1>5. ASSUME NEW j \in 1 .. Len(Tail(x)) PROVE Tail(x)[j] \in {"out", "cancel", "exit"}
  <2>1. j + 1 \in 1 .. Len(x) /\ Tail(x)[j] = x[j + 1]
    BY <1>1
  <2> QED BY <2>1, <1>2
<1>6. Tail(x) # <<>>
  <2>1. Len(<<>>) = 0
    OBVIOUS
  <2>2. Len(Tail(x)) # 0
    BY <1>1, <1>4
  <2> QED BY <2>1, <2>2
<1> QED BY <1>1, <1>2, <1>4, <1>5, <1>6 DEF Interrupts

LEMMA LastOfCat ==
  ASSUME NEW S, NEW a \in Seq(S), NEW fr
  PROVE  Last(a \o <<fr>>) = fr /\ Len(a \o <<fr>>) = Len(a) + 1 /\ Len(a) \in Nat
<1> DEFINE b == <<fr>>
<1> DEFINE T == S \cup {fr}
<1>1. a \in Seq(T) /\ b \in Seq(T) /\ Len(b) = 1 /\ b[1] = fr /\ Len(a) \in Nat
  BY SeqMonotonic, LenProperties
<1> HIDE DEF b, T
<1> DEFINE r == a \o b
<1>2. /\ Len(r) = Len(a) + Len(b)
      /\ \A k \in 1 .. Len(a) + Len(b) : r[k] = IF k <= Len(a) THEN a[k] ELSE b[k - Len(a)]
  BY <1>1, ConcatProperties
<1> HIDE DEF r
<1>3. Len(a) + 1 \in 1 .. Len(a) + Len(b) /\ ~(Len(a) + 1 <= Len(a)) /\ Len(a) + 1 - Len(a) = 1
  BY <1>1
<1>4. r[Len(a) + 1] = fr /\ Len(r) = Len(a) + 1
  BY <1>1, <1>2, <1>3
<1>5. Last(r) = fr
  BY <1>4 DEF Last
<1> QED BY <1>1, <1>4, <1>5 DEF r, b

LEMMA ScriptLast ==
  \A i, ops, fr : Last(Script(i, ops) \o <<fr>>) = fr
<1> SUFFICES ASSUME NEW i, NEW ops, NEW fr PROVE Last(Script(i, ops) \o <<fr>>) = fr
  OBVIOUS
<1>1. Script(i, ops) \in Seq({Frame("do", i, ops)})
  BY ScriptOnly
<1> QED BY <1>1, LastOfCat

LEMMA LastOfTwo == \A a, b : Last(<<a, b>>) = b
BY DEF Last

\* What an event leaves at the bottom, and what CTRL-C puts above it.
LEMMA FreeEvent ==
  ASSUME TypeInv, GccInv, Next, Idle, todo' # <<>>, Last(todo').f = "input", Last(todo').id # 0
  PROVE  \/ objs'[Last(todo').id].cls = "nc"
         \/ \E r, fr : /\ Interrupts(r.do) /\ r.do # <<>>
                       /\ todo' = Script(Last(todo').id, r.do) \o <<fr>>
<1>1. CASE LineToShell
  <2>1. PICK a : todo' = <<a, Frame("input", 0, <<>>)>>
    BY <1>1 DEF LineToShell
  <2> QED BY <2>1, LastOfTwo, FrameFields
<1>2. CASE LineToCommand
  <2>1. PICK line, r : todo' = Script(Top, r.do) \o <<Frame("input", 0, line)>>
    BY <1>2 DEF LineToCommand
  <2> QED BY <2>1, ScriptLast, FrameFields
<1>3. CASE \E i \in Ids : Fires(i)
  <2>1. PICK i \in Ids : Fires(i)
    BY <1>3
  <2> DEFINE f == IF Handlers(i, "error") = {} THEN "later" ELSE "deferred"
  <2>2. PICK r \in Handlers(i, "fire") : todo' = Script(i, r.do) \o <<Frame(f, i, <<>>)>>
    BY <2>1 DEF Fires
  <2>3. Last(todo').f = f /\ f # "input"
    BY <2>2, ScriptLast, FrameFields
  <2> QED BY <2>3
<1>4. CASE LineDiscarded \/ CtrlCToShell \/ CtrlDToShell \/ EofOrTimeout \/ Disconnect
  BY <1>4 DEF LineDiscarded, CtrlCToShell, CtrlDToShell, EofOrTimeout, Disconnect, Receives, Idle
<1>5. CASE ControlKey
  <2>1. PICK event \in {"ctrlC", "ctrlD"} : Key(event)
    BY <1>5 DEF ControlKey
  <2> DEFINE fr == Frame("input", IF event = "ctrlC" THEN Top ELSE 0, <<>>)
  <2>2. PICK r \in Handlers(Top, event) :
          objs' = Handled(Top, r) /\ todo' = Script(Top, r.do) \o <<fr>>
    BY <2>1 DEF Key
  <2>3. Last(todo') = fr
    BY <2>2, ScriptLast
  <2>4. event = "ctrlC" /\ Last(todo').id = Top
    BY <2>1, <2>3, FrameFields
  <2>5. Top \in Ids /\ objs[Top].cls \in DOMAIN CommandTable /\ Top \in ToSet(cmdstack)
    BY <1>5, StackTop DEF ControlKey
  <2>6. objs'[Top].cls = objs[Top].cls
    BY <2>2, <2>5, ObjectFields
  <2>7. objs[Top].cls # "gcc"
    BY <2>5, OneGuard DEF GccInv
  <2>8. r \in Rules(objs[Top].cls) /\ r.on = "ctrlC"
    BY <2>2, <2>4 DEF Handlers
  <2>9. SoundRule(objs[Top].cls, r)
    BY <2>5, <2>8, RuleScript
  <2> HIDE DEF fr
  <2>10. CASE objs[Top].cls # "nc"
    <3>1. Interrupts(r.do)
      BY <2>7, <2>8, <2>9, <2>10 DEF SoundRule
    <3>2. r.do # <<>>
      <4>1. Len(<<>>) = 0 /\ ~(\E k \in 1 .. 0 : TRUE)
        OBVIOUS
      <4> QED BY <3>1, <4>1 DEF Interrupts
    <3> QED BY <3>1, <3>2, <2>2, <2>4
  <2> QED BY <2>4, <2>6, <2>10
<1>6. ~At("lex") /\ ~At("pop") /\ ~At("run") /\ ~At("do") /\ ~At("lost") /\ ~At("call") /\ ~At("try") /\ ~At("raise")
  BY OneGuard
<1>7. ~ToReactor
  BY Guards DEF Idle
<1> QED BY <1>1, <1>2, <1>3, <1>4, <1>5, <1>6, <1>7, Guards, Operations DEF Next, Step

LEMMA FreeStep ==
  ASSUME TypeInv, TypeInv', FreeInv, Next, ~Idle, todo' # <<>>, Last(todo') = Last(todo),
         Last(todo).f = "input", Last(todo).id # 0
  PROVE  \/ Last(todo).id \notin ToSet(cmdstack') \/ objs'[Last(todo).id].cls = "nc"
         \/ /\ Len(todo') = 2 /\ Head(todo').f = "do" /\ Head(todo').id = Last(todo).id
            /\ Interrupts(Head(todo').x)
<1> DEFINE i == Last(todo).id
<1>1. todo # <<>>
  BY DEF Idle
<1>2. /\ Last(todo) = todo[Len(todo)] /\ FrameOK(Last(todo), objs) /\ Len(todo) \in Nat /\ Len(todo) > 0
      /\ DOMAIN todo = 1 .. Len(todo)
  BY <1>1, LastFrame, HeadFrame DEF TypeInv
<1>3. i \in Ids /\ Len(todo) \in 1 .. Len(todo) /\ todo[Len(todo)].id = i
  BY <1>2 DEF FrameOK, FrameType
<1>4. objs'[i].cls = objs[i].cls
  BY <1>3, TodoClasses
<1>5. Freed(i) \/ Freeing(i)
  BY <1>1 DEF FreeInv
<1> HIDE DEF i
<1>6. CASE Freed(i)
  <2>1. i \notin ToSet(cmdstack) => i \notin ToSet(cmdstack')
    <3> SUFFICES ASSUME i \notin ToSet(cmdstack), i \in ToSet(cmdstack') PROVE FALSE
      OBVIOUS
    <3>1. i = NewId /\ Unused # {}
      BY StackGrows
    <3> QED BY <3>1, <1>2, <1>3, FreshId
  <2> QED BY <2>1, <1>4, <1>6 DEF Freed, i
<1>7. CASE Freeing(i)
  <2>1. At("do") /\ Self = i /\ Interrupts(Head(todo).x) /\ Len(todo) = 2
    BY <1>7 DEF Freeing
  <2>2. NextDoes(Head(Head(todo).x))
    BY <2>1, DoesNext
  <2>3. CASE Head(Head(todo).x) = "exit"
    <3>1. DoExit \/ DoExitAlone \/ DoExitAgain
      BY <2>2, <2>3 DEF NextDoes
    <3>2. CASE DoExit
      BY <3>2, <2>1, ExitRemoves DEF Without, i
    <3>3. CASE DoExitAlone
      BY <3>3 DEF DoExitAlone, ToSet, i
    <3>4. CASE DoExitAgain
      BY <3>4, <2>1 DEF DoExitAgain, i
    <3> QED BY <3>1, <3>2, <3>3, <3>4
  <2>4. CASE Head(Head(todo).x) # "exit"
    <3>1. Interrupts(Tail(Head(todo).x)) /\ Tail(Head(todo).x) # <<>> /\ Head(Head(todo).x) \in {"out", "cancel"}
      BY <2>1, <2>4, Doer, TailInterrupts
    <3>2. DoWrite \/ DoTimer
      BY <3>1, <2>2 DEF NextDoes
    <3>3. Finish
      BY <3>2 DEF DoWrite, DoTimer
    <3>4. Len(todo') = 2 /\ Head(todo') = Frame("do", Self, Tail(Head(todo).x))
      BY <3>1, <3>3, <2>1, FinishHead
    <3> QED BY <3>1, <3>4, <2>1, FrameFields DEF i
  <2> QED BY <2>3, <2>4
<1> QED BY <1>5, <1>6, <1>7

LEMMA FreeNext == TypeInv /\ TypeInv' /\ GccInv /\ FreeInv /\ Next => FreeInv'
<1> SUFFICES ASSUME TypeInv, TypeInv', GccInv, FreeInv, Next, todo' # <<>>, Last(todo').f = "input",
                    Last(todo').id # 0
             PROVE  \/ Last(todo').id \notin ToSet(cmdstack') \/ objs'[Last(todo').id].cls = "nc"
                    \/ /\ Len(todo') = 2 /\ Head(todo').f = "do" /\ Head(todo').id = Last(todo').id
                       /\ Interrupts(Head(todo').x)
  BY DEF FreeInv, Freed, Freeing, At, Self
<1>1. CASE Idle
  <2>1. CASE \E r, fr : /\ Interrupts(r.do) /\ r.do # <<>>
                        /\ todo' = Script(Last(todo').id, r.do) \o <<fr>>
    <3> DEFINE i == Last(todo').id
    <3>1. PICK r, fr : Interrupts(r.do) /\ r.do # <<>> /\ todo' = Script(i, r.do) \o <<fr>>
      BY <2>1
    <3> HIDE DEF i
    <3>2. todo' = <<Frame("do", i, r.do)>> \o <<fr>>
      BY <3>1 DEF Script
    <3>3. <<fr>> \in Seq({fr}) /\ Len(<<fr>>) = 1
      OBVIOUS
    <3>4. Len(todo') = 1 + Len(<<fr>>) /\ Head(todo') = Frame("do", i, r.do)
      <4> DEFINE d == Frame("do", i, r.do)
      <4>1. todo' = <<d>> \o <<fr>>
        BY <3>2
      <4> HIDE DEF d
      <4>2. Len(todo') = 1 + Len(<<fr>>) /\ Head(todo') = d
        BY <4>1, <3>3, OneThen
      <4> QED BY <4>2 DEF d
    <3> QED BY <3>1, <3>3, <3>4, FrameFields DEF i
  <2> QED BY <1>1, <2>1, FreeEvent
<1>2. CASE ToReactor
  <2>1. todo # <<>> /\ Then(<<>>) /\ Len(todo) = 1
    BY <1>2, Guards DEF ToReactor, Return
  <2>2. Len(<<>>) = 0 /\ <<>> \in Seq({})
    OBVIOUS
  <2>3. Len(todo') = 0
    <3>1. Len(todo') = Len(<<>>) + Len(todo) - 1
      BY <2>1, <2>2, ThenIndex
    <3> QED BY <3>1, <2>1, <2>2
  <2>4. todo' = <<>>
    BY <2>3, EmptySeq DEF TypeInv, FramesOK
  <2> QED BY <2>4
<1>3. CASE Errback
  <2>1. PICK i, r : todo' = Script(i, r.do) \o <<Frame("later", i, <<>>)>>
    BY <1>3 DEF Errback
  <2> QED BY <2>1, ScriptLast, FrameFields
<1>4. CASE ~Idle /\ ~ToReactor /\ ~Errback
  <2>1. Last(todo') = Last(todo)
    BY <1>4, LastStays
  <2> QED BY <1>4, <2>1, FreeStep
<1> QED BY <1>1, <1>2, <1>3, <1>4

-----------------------------------------------------------------------------
(* The bottom of the stack, and CTRL-C.                                      *)

SafeInv == TypeInv /\ PopInv /\ BottomInv /\ OverInv /\ GccInv /\ FreeInv

LEMMA SafeInit == Init => SafeInv
<1> SUFFICES ASSUME Init PROVE SafeInv
  OBVIOUS
<1>1. TypeInv
  BY InitTypes
<1>2. 1 \in Ids /\ objs[1].cls = "shell"
  <2>1. 1 \in Ids
    BY Bounds DEF Ids
  <2> QED BY <2>1, ShellObject, NoneObject DEF Init
<1>3. cmdstack = <<1>> /\ conn = "open"
  BY DEF Init
<1>4. todo = <<>> \/ \E line \in ExecLines : todo = <<Frame("lex", 1, line), Frame("later", 0, <<>>)>>
  BY DEF Init
<1>5. NoDo(todo) /\ (todo # <<>> => Last(todo).f = "later")
  <2>1. CASE todo = <<>>
    BY <2>1 DEF NoDo
  <2>2. CASE \E line \in ExecLines : todo = <<Frame("lex", 1, line), Frame("later", 0, <<>>)>>
    <3>1. PICK line : todo = <<Frame("lex", 1, line), Frame("later", 0, <<>>)>>
      BY <2>2
    <3> DEFINE a == Frame("lex", 1, line)
    <3> DEFINE b == Frame("later", 0, <<>>)
    <3>2. todo = <<a, b>> /\ a.f = "lex" /\ b.f = "later"
      BY <3>1, FrameFields
    <3> HIDE DEF a, b
    <3>3. NoDo(<<a, b>>)
      BY <3>2 DEF NoDo
    <3> QED BY <3>2, <3>3, LastOfTwo
  <2> QED BY <1>4, <2>1, <2>2
<1>6. PopInv
  BY <1>5 DEF PopInv, NoDo
<1>7. BottomInv
  BY <1>2, <1>3, HeadOfOne DEF BottomInv, IsShell
<1>8. OverInv
  BY <1>3 DEF OverInv
<1>9. GccInv
  <2>1. ToSet(cmdstack) = {1}
    BY <1>3, HeadOfOne
  <2> QED BY <2>1, <1>2 DEF GccInv
<1>10. FreeInv
  BY <1>5 DEF FreeInv
<1> QED BY <1>1, <1>6, <1>7, <1>8, <1>9, <1>10 DEF SafeInv

LEMMA SafeNext == SafeInv /\ [Next]_vars => SafeInv'
<1>1. ASSUME SafeInv, Next PROVE SafeInv'
  <2>1. TypeInv /\ TypeInv'
    BY <1>1, NextTypes DEF SafeInv
  <2> QED BY <1>1, <2>1, PopNext, BottomNext, OverNext, GccNext, FreeNext DEF SafeInv
<1>2. ASSUME SafeInv, UNCHANGED vars PROVE SafeInv'
  <2>1. TypeInv /\ TypeInv'
    BY <1>2, NextTypes DEF SafeInv
  <2>2. UNCHANGED <<conn, objs, cmdstack, todo>>
    BY <1>2 DEF vars
  <2>3. PopInv' /\ BottomInv'
    BY <1>2, <2>2 DEF SafeInv, PopInv, BottomInv, IsShell, Leaving
  <2>4. OverInv' /\ GccInv'
    BY <1>2, <2>2 DEF SafeInv, OverInv, GccInv, At, Self
  <2>5. FreeInv'
    BY <1>2, <2>2 DEF SafeInv, FreeInv, Freed, Freeing, At, Self
  <2> QED BY <2>1, <2>3, <2>4, <2>5 DEF SafeInv
<1> QED BY <1>1, <1>2

LEMMA SafeAlways == Spec => []SafeInv
<1> QED BY SafeInit, SafeNext, PTL DEF Spec

\* Between two events the bottom of the stack is a shell, which lines that are typed ahead are
\* queued for, and the stack of a session that is over is empty.
THEOREM ShellBottomIsShell == Spec => []BottomIsShell
<1>1. SafeInv => BottomIsShell
  BY DEF SafeInv, BottomInv, OverInv, BottomIsShell, Idle, Leaving
<1> QED BY <1>1, SafeAlways, PTL

\* Once the handler of CTRL-C is through, the command it was for is off the stack, unless it is nc.
THEOREM ShellInterruptFrees == Spec => []InterruptFrees
<1>1. SafeInv => InterruptFrees
  <2> SUFFICES ASSUME SafeInv, Len(todo) = 1, Head(todo).f = "input", Head(todo).id # 0
               PROVE  Head(todo).id \notin ToSet(cmdstack) \/ objs[Head(todo).id].cls = "nc"
    BY DEF InterruptFrees
  <2>1. TypeInv /\ FreeInv
    BY DEF SafeInv
  <2>2. todo # <<>>
    <3>1. Len(<<>>) = 0
      OBVIOUS
    <3> QED BY <3>1
  <2>3. Last(todo) = Head(todo)
    BY <2>1, <2>2, HeadFrame DEF TypeInv, Last
  <2> QED BY <2>1, <2>2, <2>3 DEF FreeInv, Freed, Freeing
<1> QED BY <1>1, SafeAlways, PTL

-----------------------------------------------------------------------------
(* The three classes that set password_input, and their rules.              *)

Asking == {"passwd", "ssh", "adduser"}
Loud == {"echoOn", "echoOff", "arm"}

\* Once a command has left the stack it does not touch the echo, and waits for nothing.
Orderly(x) == \A a, b \in 1 .. Len(x) : a < b /\ x[a] = "exit" => x[b] \notin Loud

PasswdRule(r) ==
  /\ Includes(r.do, {"echoOn"}) => r.to = "done"
  /\ r.on = "start" => r.do = <<"out", "echoOff">>
  /\ r.on # "start" /\ r.to \in {"new", "again"} => r.at = "new"
SshRule(r) ==
  /\ r.on = "start" => r.to \in {"new", "fed", "yesno"} /\ ~Includes(r.do, {"arm", "echoOn"})
  /\ r.on # "start" => \/ r.at = "yesno" /\ r.to = "wait" /\ r.do = <<"out", "echoOff">>
                       \/ r.to = "finish"
                       \/ r.to = "same" /\ (Includes(r.do, {"arm", "echoOn"}) => r.on = "fire")
AskingRule(cls, r) ==
  /\ r.on # "error" /\ Orderly(r.do)
  /\ cls = "passwd" => PasswdRule(r)
  /\ cls = "ssh" => SshRule(r)

LEMMA OrderlyScripts ==
  /\ Orderly(<<>>) /\ Orderly(<<"out">>) /\ Orderly(<<"exit">>) /\ Orderly(<<"arm">>) /\ Orderly(<<"queue">>)
  /\ Orderly(<<"out", "exit">>) /\ Orderly(<<"out", "arm">>) /\ Orderly(<<"out", "echoOff">>)
  /\ Orderly(<<"arm", "echoOn">>) /\ Orderly(<<"echoOn", "out", "exit">>)
  /\ Orderly(<<"out", "arm", "echoOn">>) /\ Orderly(<<"out", "exit", "out">>)
<1>1. /\ Orderly(<<>>) /\ Orderly(<<"out">>) /\ Orderly(<<"exit">>) /\ Orderly(<<"arm">>)
      /\ Orderly(<<"queue">>)
  BY OneToFour DEF Orderly
<1>2. /\ Orderly(<<"out", "exit">>) /\ Orderly(<<"out", "arm">>) /\ Orderly(<<"out", "echoOff">>)
      /\ Orderly(<<"arm", "echoOn">>)
  BY OneToFour DEF Orderly, Loud
<1>3. Orderly(<<"echoOn", "out", "exit">>) /\ Orderly(<<"out", "arm", "echoOn">>)
  BY OneToFour DEF Orderly, Loud
<1>4. Orderly(<<"out", "exit", "out">>)
  BY OneToFour DEF Orderly, Loud
<1> QED BY <1>1, <1>2, <1>3, <1>4

LEMMA ModestScripts ==
  /\ \A ops : ~Includes(<<>>, ops)
  /\ \A x \in {<<"out">>, <<"exit">>, <<"queue">>, <<"out", "exit">>, <<"out", "echoOff">>,
               <<"out", "exit", "out">>} :
       ~Includes(x, {"arm", "echoOn"}) /\ ~Includes(x, {"echoOn"})
<1>1. \A ops : ~Includes(<<>>, ops)
  BY DEF Includes
<1>2. \A x \in {<<"out">>, <<"exit">>, <<"queue">>} : ~Includes(x, {"arm", "echoOn"}) /\ ~Includes(x, {"echoOn"})
  BY OneIncludes
<1>3. \A x \in {<<"out", "exit">>, <<"out", "echoOff">>} :
        ~Includes(x, {"arm", "echoOn"}) /\ ~Includes(x, {"echoOn"})
  BY OneToFour DEF Includes
<1>4. ~Includes(<<"out", "exit", "out">>, {"arm", "echoOn"}) /\ ~Includes(<<"out", "exit", "out">>, {"echoOn"})
  BY OneToFour DEF Includes
<1> QED BY <1>1, <1>2, <1>3, <1>4

LEMMA OnFields ==
  \A e, a, s, t : LET r == On(e, a, s, t) IN r.on = e /\ r.at = a /\ r.do = s /\ r.to = t
BY DEF On

LEMMA InheritedAsks ==
  ASSUME NEW cls, NEW r \in HoneyPotCommand
  PROVE  AskingRule(cls, r)
<1>1. /\ r.on # "start" /\ r.on # "error" /\ r.to = "same"
      /\ r.do \in {<<"queue">>, <<"out", "exit">>, <<>>}
  BY DEF HoneyPotCommand, Always, On
<1>2. Orderly(r.do) /\ ~Includes(r.do, {"arm", "echoOn"}) /\ ~Includes(r.do, {"echoOn"})
  BY <1>1, OrderlyScripts, ModestScripts
<1> QED BY <1>1, <1>2 DEF AskingRule, PasswdRule, SshRule

LEMMA ClassAsks ==
  ASSUME NEW cls, NEW own, \A r \in own : AskingRule(cls, r)
  PROVE  \A r \in Class(own) : AskingRule(cls, r)
BY InheritedAsks DEF Class

LEMMA PasswdAsks == \A r \in Rules("passwd") : AskingRule("passwd", r)
<1> DEFINE own == {On("start", "any", <<"out", "echoOff">>, "new"),
                   On("line", "new", <<"out">>, "again"),
                   On("line", "again", <<"echoOn", "out", "exit">>, "done")}
<1>1. Rules("passwd") = Class(own)
  BY DEF Rules, CommandTable, Command_passwd
<1>2. AskingRule("passwd", On("start", "any", <<"out", "echoOff">>, "new"))
  BY OnFields, OrderlyScripts, ModestScripts DEF AskingRule, PasswdRule
<1>3. AskingRule("passwd", On("line", "new", <<"out">>, "again"))
  BY OnFields, OrderlyScripts, ModestScripts DEF AskingRule, PasswdRule
<1>4. AskingRule("passwd", On("line", "again", <<"echoOn", "out", "exit">>, "done"))
  BY OnFields, OrderlyScripts DEF AskingRule, PasswdRule
<1>5. \A r \in own : AskingRule("passwd", r)
  BY <1>2, <1>3, <1>4
<1> HIDE DEF own
<1> QED BY <1>1, <1>5, ClassAsks

LEMMA StartAsks ==
  ASSUME NEW cls \in {"ssh", "adduser"}, NEW r \in Start(Stops)
  PROVE  AskingRule(cls, r)
<1>1. r.on = "start" /\ r.to \in {"new", "fed"} /\ r.do = <<"out", "exit">>
  BY DEF Start, Bare, Fed, Stops, On
<1> QED BY <1>1, OrderlyScripts, ModestScripts DEF AskingRule, SshRule

LEMMA SshAsks == \A r \in Rules("ssh") : AskingRule("ssh", r)
<1> DEFINE begins == {On("start", "any", s, "yesno") : s \in {<<"out">>, <<"out", "exit", "out">>}}
<1> DEFINE goes == {On("line", "yesno", <<"out", "echoOff">>, "wait"),
                    On("line", "wait", <<"arm">>, "finish"),
                    On("line", "finish", <<>>, "finish"),
                    Always("fire", <<"echoOn", "out", "exit">>)}
<1> DEFINE own == Start(Stops) \cup begins \cup goes
<1>1. Rules("ssh") = Class(own)
  BY DEF Rules, CommandTable, Command_ssh
<1>2. \A r \in begins : AskingRule("ssh", r)
  BY OnFields, OrderlyScripts, ModestScripts DEF AskingRule, SshRule
<1>3. AskingRule("ssh", On("line", "yesno", <<"out", "echoOff">>, "wait"))
  BY OnFields, OrderlyScripts DEF AskingRule, SshRule
<1>4. AskingRule("ssh", On("line", "wait", <<"arm">>, "finish"))
      /\ AskingRule("ssh", On("line", "finish", <<>>, "finish"))
  BY OnFields, OrderlyScripts DEF AskingRule, SshRule
<1>5. AskingRule("ssh", Always("fire", <<"echoOn", "out", "exit">>))
  BY OnFields, OrderlyScripts DEF AskingRule, SshRule, Always
<1>6. \A r \in goes : AskingRule("ssh", r)
  BY <1>3, <1>4, <1>5
<1> HIDE DEF begins, goes
<1>7. \A r \in own : AskingRule("ssh", r)
  BY <1>2, <1>6, StartAsks
<1> HIDE DEF own
<1> QED BY <1>1, <1>7, ClassAsks

LEMMA AdduserAsks == \A r \in Rules("adduser") : AskingRule("adduser", r)
<1> DEFINE goes == {On("start", "any", <<"out", "arm">>, "adding"),
                    On("fire", "adding", <<"out", "arm">>, "adding"),
                    On("fire", "adding", <<"out", "echoOff">>, "password"),
                    On("fire", "password", <<"out", "echoOff">>, "password"),
                    On("fire", "password", <<"out">>, "question"),
                    On("fire", "question", <<"out">>, "question"),
                    On("fire", "question", <<"out", "arm">>, "adding"),
                    On("line", "adding", <<"arm", "echoOn">>, "adding"),
                    On("line", "password", <<"arm", "echoOn">>, "password"),
                    On("line", "question", <<"out", "arm", "echoOn">>, "question"),
                    On("line", "question", <<"exit">>, "done")}
<1> DEFINE own == Start(Stops) \cup goes
<1>1. Rules("adduser") = Class(own)
  BY DEF Rules, CommandTable, Command_adduser
<1>2. \A r \in goes : r.on \in {"start", "fire", "line"}
        /\ r.do \in {<<"out", "arm">>, <<"out", "echoOff">>, <<"out">>, <<"arm", "echoOn">>,
                     <<"out", "arm", "echoOn">>, <<"exit">>}
  BY OnFields
<1> HIDE DEF goes
<1>3. \A r \in goes : AskingRule("adduser", r)
  BY <1>2, OrderlyScripts DEF AskingRule
<1>4. \A r \in own : AskingRule("adduser", r)
  BY <1>3, StartAsks
<1> HIDE DEF own
<1> QED BY <1>1, <1>4, ClassAsks

LEMMA EveryAsks ==
  ASSUME NEW cls \in Asking, NEW r \in Rules(cls)
  PROVE  AskingRule(cls, r)
BY PasswdAsks, SshAsks, AdduserAsks DEF Asking

\* The classes that hide typing are these.
LEMMA HidingIsAsking == Hiding = Asking
<1>1. ASSUME NEW cls \in Hiding PROVE cls \in Asking
  <2>1. cls \in DOMAIN CommandTable
    BY <1>1 DEF Hiding
  <2>2. PICK r \in Rules(cls) : "echoOff" \in ToSet(r.do)
    BY <1>1 DEF Hiding
  <2>3. ScriptOK(cls, r.do)
    BY <2>1, RuleScript
  <2>4. DOMAIN r.do = 1 .. Len(r.do)
    BY <2>3, LenProperties DEF ScriptOK
  <2>5. PICK k \in 1 .. Len(r.do) : r.do[k] = "echoOff"
    BY <2>2, <2>4 DEF ToSet
  <2> QED BY <2>3, <2>5 DEF ScriptOK, Fits, Asking
<1>2. ToSet(<<"out", "echoOff">>) = {"out", "echoOff"}
  BY DEF ToSet
<1>3. Asking \subseteq DOMAIN CommandTable
  BY DEF Asking, CommandTable
<1>4. \E r \in Rules("passwd") : r.do = <<"out", "echoOff">>
  <2>1. On("start", "any", <<"out", "echoOff">>, "new") \in Rules("passwd")
    BY DEF Rules, CommandTable, Command_passwd, Class
  <2> QED BY <2>1, OnFields
<1>5. \E r \in Rules("ssh") : r.do = <<"out", "echoOff">>
  <2>1. On("line", "yesno", <<"out", "echoOff">>, "wait") \in Rules("ssh")
    BY DEF Rules, CommandTable, Command_ssh, Class
  <2> QED BY <2>1, OnFields
<1>6. \E r \in Rules("adduser") : r.do = <<"out", "echoOff">>
  <2>1. On("fire", "adding", <<"out", "echoOff">>, "password") \in Rules("adduser")
    BY DEF Rules, CommandTable, Command_adduser, Class
  <2> QED BY <2>1, OnFields
<1>7. ASSUME NEW cls \in Asking PROVE cls \in Hiding
  <2>1. PICK r \in Rules(cls) : r.do = <<"out", "echoOff">>
    BY <1>4, <1>5, <1>6 DEF Asking
  <2> QED BY <2>1, <1>2, <1>3 DEF Hiding
<1> QED BY <1>1, <1>7

-----------------------------------------------------------------------------
(* Who may still change the echo.                                           *)

Hides(i) == objs[i].cls \in Asking
Speaking(i) == At("do") /\ Self = i /\ Includes(Head(todo).x, Loud)
Live(i) == Alive(i) \/ Speaking(i)

Modest(fr, k) == Orderly(fr.x) /\ (k > 1 => ~Includes(fr.x, Loud))
HideInv ==
  \A k \in 1 .. Len(todo) :
    todo[k].f = "do" /\ objs[todo[k].id].cls \in Asking => Modest(todo[k], k)

LEMMA TailOrderly ==
  ASSUME TypeInv, At("do"), Orderly(Head(todo).x)
  PROVE  /\ Orderly(Tail(Head(todo).x))
         /\ Head(Head(todo).x) = "exit" => ~Includes(Tail(Head(todo).x), Loud)
<1> DEFINE x == Head(todo).x
<1>1. /\ Len(x) \in Nat /\ Len(x) > 0 /\ Head(x) = x[1] /\ Len(Tail(x)) = Len(x) - 1
      /\ \A k \in 1 .. Len(x) - 1 : Tail(x)[k] = x[k + 1]
  BY Doer, TailScript
<1>2. Orderly(x)
  OBVIOUS
<1> DEFINE y == Tail(x)
<1>3. Len(y) = Len(x) - 1 /\ \A k \in 1 .. Len(x) - 1 : y[k] = x[k + 1]
  BY <1>1
<1> HIDE DEF x, y
<1>4. ASSUME NEW a \in 1 .. Len(y), NEW b \in 1 .. Len(y), a < b, y[a] = "exit" PROVE y[b] \notin Loud
  <2>1. a + 1 \in 1 .. Len(x) /\ b + 1 \in 1 .. Len(x) /\ a + 1 < b + 1 /\ y[a] = x[a + 1] /\ y[b] = x[b + 1]
    BY <1>1, <1>3, <1>4
  <2> QED BY <2>1, <1>2, <1>4 DEF Orderly
<1>5. ASSUME x[1] = "exit", NEW b \in 1 .. Len(y) PROVE y[b] \notin Loud
  <2>1. 1 \in 1 .. Len(x) /\ b + 1 \in 1 .. Len(x) /\ 1 < b + 1 /\ y[b] = x[b + 1]
    BY <1>1, <1>3, <1>5
  <2> QED BY <2>1, <1>2, <1>5 DEF Orderly
<1>6. Orderly(y)
  BY <1>4 DEF Orderly
<1>7. x[1] = "exit" => ~Includes(y, Loud)
  BY <1>5 DEF Includes
<1> QED BY <1>1, <1>6, <1>7 DEF x, y

\* The rule behind a script that an event has started.
LEMMA StartedRule ==
  ASSUME TypeInv, NEW fr, NEW os, Started(fr, os), objs[fr.id].cls \in Asking
  PROVE  /\ fr.id \in Ids /\ Alive(fr.id)
         /\ \E r \in Rules(objs[fr.id].cls) :
              /\ r.on # "start" /\ r.at \in {"any", objs[fr.id].at} /\ fr.x = r.do
              /\ os[fr.id].at = IF r.to = "same" THEN objs[fr.id].at ELSE r.to
              /\ r.on = "fire" => objs[fr.id].timers > 0
<1> DEFINE i == fr.id
<1>10. PICK event \in Event \ {"start"} : \E r \in Handlers(i, event) :
        /\ fr = Frame("do", i, r.do)
        /\ os[i].at = IF r.to = "same" THEN objs[i].at ELSE r.to
        /\ event = "fire" => objs[i].timers > 0
        /\ event \in {"line", "ctrlC", "ctrlD"} => cmdstack # <<>> /\ i = Top
  BY DEF Started
<1>1. PICK r \in Handlers(i, event) :
        /\ fr = Frame("do", i, r.do)
        /\ os[i].at = IF r.to = "same" THEN objs[i].at ELSE r.to
        /\ event = "fire" => objs[i].timers > 0
        /\ event \in {"line", "ctrlC", "ctrlD"} => cmdstack # <<>> /\ i = Top
  BY <1>10
<1>2. i \in Ids
  BY DEF Started
<1>3. fr.x = r.do
  BY <1>1, FrameFields
<1>4. objs[i].cls \in Asking
  OBVIOUS
<1> HIDE DEF i
<1>5. r \in Rules(objs[i].cls) /\ r.on = event /\ r.at \in {"any", objs[i].at} /\ r.on # "start"
  BY <1>1 DEF Handlers
<1>6. r.on # "error"
  BY <1>4, <1>5, EveryAsks DEF AskingRule
<1>7. event \in {"line", "ctrlC", "ctrlD", "fire"}
  BY <1>5, <1>6 DEF Event
<1>8. Alive(i)
  <2>1. CASE event = "fire"
    BY <2>1, <1>1 DEF Alive
  <2>2. CASE event \in {"line", "ctrlC", "ctrlD"}
    BY <2>2, <1>1, StackTop DEF Alive
  <2> QED BY <2>1, <2>2, <1>7
<1>9. \E q \in Rules(objs[i].cls) :
        /\ q.on # "start" /\ q.at \in {"any", objs[i].at} /\ fr.x = q.do
        /\ os[i].at = IF q.to = "same" THEN objs[i].at ELSE q.to
        /\ q.on = "fire" => objs[i].timers > 0
  BY <1>1, <1>3, <1>5
<1> QED BY <1>2, <1>8, <1>9 DEF i

\* And that of a command that is called.
LEMMA BegunRule ==
  ASSUME TypeInv, Next, NEW fr, Begun(fr, objs')
  PROVE  /\ CallCommand /\ fr.id = NewId /\ NewId \in Ids /\ objs'[NewId].cls \in DOMAIN CommandTable
         /\ \E r \in Rules(objs'[NewId].cls) : r.on = "start" /\ fr.x = r.do
<1>1. PICK r \in Rules(objs'[NewId].cls) : r.on = "start" /\ fr = Frame("do", NewId, r.do)
  BY DEF Begun
<1>2. fr.x = r.do
  BY <1>1, FrameFields
<1> QED BY <1>1, <1>2, BegunScript

\* What the reactor and the handlers of exceptions do to the objects.
Moved(i) ==
  \E event \in Event \ {"start"} : \E r \in Handlers(i, event) :
    /\ objs'[i].at = IF r.to = "same" THEN objs[i].at ELSE r.to
    /\ event # "error" => Idle /\ \E fr : todo' = Script(i, r.do) \o <<fr>>
Stays(i) ==
  /\ objs'[i].cls = objs[i].cls
  /\ objs'[i].at = objs[i].at \/ Moved(i)
  /\ objs'[i].timers > 0 => objs[i].timers > 0

LEMMA HandledFields ==
  ASSUME TypeInv, NEW i \in Ids, NEW j \in Ids, NEW r, NEW os
  PROVE  /\ os = Handled(j, r) =>
              /\ os[i].cls = objs[i].cls /\ os[i].timers = objs[i].timers
              /\ os[i].at = IF i # j \/ r.to = "same" THEN objs[i].at ELSE r.to
         /\ os = [Handled(j, r) EXCEPT ![j].timers = @ - 1] =>
              /\ os[i].cls = objs[i].cls
              /\ os[i].at = IF i # j \/ r.to = "same" THEN objs[i].at ELSE r.to
              /\ i # j => os[i].timers = objs[i].timers
BY DEF TypeInv, ObjectsOK, ObjectType, Handled

LEMMA EventObjects ==
  ASSUME TypeInv, Next, ~Disconnect, Idle \/ At("raise"), NEW i \in Ids
  PROVE  Stays(i)
<1>1. ASSUME UNCHANGED objs PROVE Stays(i)
  BY <1>1 DEF Stays
<1>2. CASE Propagate \/ Swallowed \/ Logged \/ Dropped
  BY <1>1, <1>2 DEF Propagate, Swallowed, Logged, Dropped
<1>3. CASE SyntaxError
  <2>1. At("raise") /\ Rest # <<>> /\ Head(Rest).f = "lex"
    BY <1>3 DEF SyntaxError, Thrown
  <2>2. Head(Rest).id \in Ids
    BY <2>1, Below DEF FrameOK
  <2>3. PICK j \in Ids : objs' = [objs EXCEPT ![j].pending = <<>>]
    BY <2>2, <1>3 DEF SyntaxError
  <2> QED BY <2>3, ObjectFields DEF Stays
<1>4. ASSUME NEW j \in Ids, NEW event \in Event \ {"start"}, NEW r \in Handlers(j, event),
             objs' = Handled(j, r), event # "error" => Idle /\ \E fr : todo' = Script(j, r.do) \o <<fr>>
      PROVE  Stays(i)
  <2>1. /\ objs'[i].cls = objs[i].cls /\ objs'[i].timers = objs[i].timers
        /\ objs'[i].at = IF i # j \/ r.to = "same" THEN objs[i].at ELSE r.to
    BY <1>4, HandledFields
  <2>2. CASE i # j
    BY <2>1, <2>2 DEF Stays
  <2>3. CASE i = j
    BY <2>1, <2>3, <1>4 DEF Stays, Moved
  <2> QED BY <2>2, <2>3
<1>5. CASE Errback
  <2>1. At("raise") /\ Rest # <<>> /\ Head(Rest).f = "deferred"
    BY <1>5 DEF Errback, Thrown
  <2>2. Head(Rest).id \in Ids
    BY <2>1, Below DEF FrameOK
  <2>3. PICK j \in Ids : \E r \in Handlers(j, "error") : objs' = Handled(j, r)
    BY <2>2, <1>5 DEF Errback
  <2>4. "error" \in Event \ {"start"}
    BY DEF Event
  <2> QED BY <2>3, <2>4, <1>4
<1>6. CASE LineToShell \/ LineDiscarded \/ CtrlCToShell \/ CtrlDToShell \/ EofOrTimeout
  BY <1>1, <1>6 DEF LineToShell, LineDiscarded, CtrlCToShell, CtrlDToShell, EofOrTimeout
<1>7. CASE LineToCommand
  <2>1. Top \in Ids /\ Idle
    BY <1>7, StackTop DEF LineToCommand, Receives
  <2>2. PICK line \in Typed, r \in Handlers(Top, "line") :
          objs' = Handled(Top, r) /\ todo' = Script(Top, r.do) \o <<Frame("input", 0, line)>>
    BY <1>7 DEF LineToCommand
  <2>3. "line" \in Event \ {"start"}
    BY DEF Event
  <2> HIDE DEF Top
  <2> QED BY <2>1, <2>2, <2>3, <1>4
<1>8. CASE ControlKey
  <2>1. Top \in Ids /\ Idle
    BY <1>8, StackTop DEF ControlKey, Receives
  <2>2. PICK event \in {"ctrlC", "ctrlD"} : Key(event)
    BY <1>8 DEF ControlKey
  <2>3. PICK r \in Handlers(Top, event) :
          /\ objs' = Handled(Top, r)
          /\ todo' = Script(Top, r.do) \o <<Frame("input", IF event = "ctrlC" THEN Top ELSE 0, <<>>)>>
    BY <2>2 DEF Key
  <2>4. event \in Event \ {"start"}
    BY <2>2 DEF Event
  <2> QED BY <2>1, <2>3, <2>4, <1>4
<1>9. CASE \E j \in Ids : Fires(j)
  <2>1. PICK j \in Ids : Fires(j)
    BY <1>9
  <2>2. Idle /\ objs[j].timers > 0
    BY <2>1 DEF Fires
  <2>3. PICK r \in Handlers(j, "fire") :
          /\ objs' = [Handled(j, r) EXCEPT ![j].timers = @ - 1]
          /\ todo' = Script(j, r.do)
                     \o <<Frame(IF Handlers(j, "error") = {} THEN "later" ELSE "deferred", j, <<>>)>>
    BY <2>1 DEF Fires
  <2>4. "fire" \in Event \ {"start"}
    BY DEF Event
  <2>5. /\ objs'[i].cls = objs[i].cls
        /\ objs'[i].at = IF i # j \/ r.to = "same" THEN objs[i].at ELSE r.to
        /\ i # j => objs'[i].timers = objs[i].timers
    BY <2>3, HandledFields
  <2>6. CASE i # j
    BY <2>5, <2>6 DEF Stays
  <2>7. CASE i = j
    <3>1. Moved(i)
      BY <2>2, <2>3, <2>4, <2>5, <2>7 DEF Moved
    <3> QED BY <3>1, <2>2, <2>5, <2>7 DEF Stays
  <2> QED BY <2>6, <2>7
<1>10. \/ Propagate \/ SyntaxError \/ Swallowed \/ Errback \/ Logged \/ Dropped
       \/ LineToShell \/ LineToCommand \/ LineDiscarded \/ ControlKey \/ CtrlCToShell \/ CtrlDToShell
       \/ EofOrTimeout \/ \E j \in Ids : Fires(j)
  <2>1. ~At("lex") /\ ~At("pop") /\ ~At("run") /\ ~At("call") /\ ~At("lost") /\ ~At("do") /\ ~At("try")
    BY OneGuard
  <2>2. ~ToReactor
    <3>1. ASSUME ToReactor PROVE FALSE
      <4>1. todo # <<>> /\ Head(todo).f \in Bottom
        BY <3>1, Guards
      <4> QED BY <4>1 DEF Idle, At, Bottom
    <3> QED BY <3>1
  <2> QED BY <2>1, <2>2, Guards, Operations DEF Next, Step
<1> QED BY <1>2, <1>3, <1>5, <1>6, <1>7, <1>8, <1>9, <1>10

\* A frame with a script is of an object that stays what it is, or that is new.
LEMMA DoClasses ==
  ASSUME TypeInv, Next, NEW k \in 1 .. Len(todo'), todo'[k].f = "do",
         objs'[todo'[k].id].cls \in Asking
  PROVE  \/ k = 1 /\ Begun(todo'[k], objs')
         \/ /\ todo'[k].id \in Ids /\ Known(todo'[k].id) /\ objs[todo'[k].id].cls \in Asking
            /\ Inherited(todo'[k]) \/ Continued(todo'[k], k) \/ (k = 1 /\ Started(todo'[k], objs'))
            /\ ~Disconnect /\ ~ToReactor
<1> DEFINE fr == todo'[k]
<1>1. fr.f = "do" /\ objs'[fr.id].cls \in Asking /\ Origin(fr, k, objs')
  BY Origins
<1>2. todo' # <<>>
  <2>1. ASSUME todo' = <<>> PROVE FALSE
    <3>1. Len(<<>>) = 0
      OBVIOUS
    <3> QED BY <2>1, <3>1
  <2> QED BY <2>1
<1>3. ~Disconnect /\ ~ToReactor
  <2>1. ASSUME Disconnect PROVE FALSE
    BY <2>1, <1>2 DEF Disconnect, Idle
  <2>2. ASSUME ToReactor PROVE FALSE
    <3>1. todo # <<>> /\ Len(todo) = 1 /\ todo' = <<>> \o Rest
      BY <2>2, Guards DEF ToReactor, Return, Then
    <3>2. Rest \in Seq(FrameType) /\ Len(Rest) = 0
      BY <3>1, HeadFrame DEF TypeInv, Rest
    <3> QED BY <3>1, <3>2, <1>2
  <2> QED BY <2>1, <2>2
<1> HIDE DEF fr
<1>4. ASSUME fr.id \in Ids, Known(fr.id) PROVE objs[fr.id].cls \in Asking
  BY <1>1, <1>3, <1>4, Kept DEF SameObject
<1>5. CASE Inherited(fr)
  <2>1. PICK j \in 2 .. Len(todo) : fr = todo[j]
    BY <1>5 DEF Inherited
  <2>2. j \in 1 .. Len(todo) /\ FrameOK(todo[j], objs)
    BY <2>1, LenProperties DEF TypeInv, FramesOK
  <2>3. fr.id \in Ids /\ Known(fr.id)
    BY <2>1, <2>2, <1>1, KnownOnes DEF FrameOK
  <2> QED BY <2>3, <1>3, <1>4, <1>5 DEF fr
<1>6. CASE Continued(fr, k)
  <2>1. At("do") /\ fr.id = Self
    BY <1>6, FrameFields DEF Continued
  <2>2. 1 \in 1 .. Len(todo) /\ todo[1].id = Self /\ Self \in Ids
    BY <2>1, HeadDo, Doer
  <2>3. fr.id \in Ids /\ Known(fr.id)
    BY <2>1, <2>2, KnownOnes
  <2> QED BY <2>3, <1>3, <1>4, <1>6 DEF fr
<1>7. CASE k = 1 /\ Started(fr, objs')
  <2>1. fr.id \in Ids /\ (Idle \/ At("raise"))
    BY <1>7 DEF Started
  <2>2. objs[fr.id].cls \in Asking
    BY <1>1, <1>3, <2>1, EventObjects DEF Stays
  <2>3. Alive(fr.id)
    BY <1>7, <2>2, StartedRule
  <2> QED BY <2>1, <2>2, <2>3, <1>3, <1>7 DEF fr, Known, Unused
<1> QED BY <1>1, <1>5, <1>6, <1>7 DEF Origin, fr

LEMMA HideNext == TypeInv /\ HideInv /\ Next => HideInv'
<1> SUFFICES ASSUME TypeInv, HideInv, Next, NEW k \in 1 .. Len(todo'), todo'[k].f = "do",
                    objs'[todo'[k].id].cls \in Asking
             PROVE  Modest(todo'[k], k)
  BY DEF HideInv
<1> DEFINE fr == todo'[k]
<1>1. \/ k = 1 /\ Begun(fr, objs')
      \/ /\ fr.id \in Ids /\ objs[fr.id].cls \in Asking
         /\ Inherited(fr) \/ Continued(fr, k) \/ (k = 1 /\ Started(fr, objs'))
  BY DoClasses
<1>2. objs'[fr.id].cls \in Asking /\ fr.f = "do"
  OBVIOUS
<1> HIDE DEF fr
<1>3. CASE k = 1 /\ Begun(fr, objs')
  <2>1. PICK r \in Rules(objs'[NewId].cls) : fr.x = r.do
    BY <1>3, BegunRule
  <2>2. Orderly(fr.x)
    BY <1>2, <1>3, <2>1, BegunRule, EveryAsks DEF AskingRule
  <2> QED BY <1>3, <2>2 DEF Modest, fr
<1>4. CASE Inherited(fr)
  <2>1. PICK j \in 2 .. Len(todo) : fr = todo[j]
    BY <1>4 DEF Inherited
  <2>2. j \in 1 .. Len(todo) /\ j > 1
    BY <2>1, LenProperties DEF TypeInv, FramesOK
  <2>3. objs[todo[j].id].cls \in Asking
    <3>1. todo[j].id \in Ids
      BY <2>1, <2>2, <1>2 DEF TypeInv, FramesOK, FrameOK
    <3>2. todo' # <<>>
      <4>1. ASSUME todo' = <<>> PROVE FALSE
        <5>1. Len(<<>>) = 0
          OBVIOUS
        <5> QED BY <4>1, <5>1
      <4> QED BY <4>1
    <3> QED BY <3>1, <3>2, <2>1, <2>2, <1>2, TodoClasses
  <2>4. Modest(todo[j], j)
    BY <2>1, <2>2, <2>3, <1>2 DEF HideInv
  <2> QED BY <2>1, <2>2, <2>4 DEF Modest, fr
<1>5. CASE Continued(fr, k) /\ objs[fr.id].cls \in Asking
  <2>1. /\ At("do") /\ fr.id = Self /\ fr.x = Tail(Head(todo).x)
        /\ k = 1 \/ Head(Head(todo).x) \in {"exit", "run", "chain"}
    BY <1>5, FrameFields DEF Continued
  <2>2. 1 \in 1 .. Len(todo) /\ todo[1] = Head(todo) /\ Head(todo).f = "do"
    BY <2>1, HeadDo
  <2>3. Orderly(Head(todo).x)
    BY <2>1, <2>2, <1>5 DEF HideInv, Modest, Self
  <2>4. Fits(objs[Self].cls, Head(Head(todo).x))
    BY <2>1, Doer
  <2>5. k = 1 \/ Head(Head(todo).x) = "exit"
    BY <2>1, <2>4, <1>5 DEF Fits, Asking
  <2>6. Orderly(fr.x) /\ (Head(Head(todo).x) = "exit" => ~Includes(fr.x, Loud))
    BY <2>1, <2>3, TailOrderly
  <2> QED BY <2>5, <2>6 DEF Modest, fr
<1>6. CASE k = 1 /\ Started(fr, objs') /\ objs[fr.id].cls \in Asking
  <2>1. PICK r \in Rules(objs[fr.id].cls) : fr.x = r.do
    BY <1>6, StartedRule
  <2>2. Orderly(fr.x)
    BY <1>6, <2>1, EveryAsks DEF AskingRule
  <2> QED BY <1>6, <2>2 DEF Modest, fr
<1> QED BY <1>1, <1>3, <1>4, <1>5, <1>6

\* Timers are set by the command they are of.
LEMMA TimersGrow ==
  ASSUME TypeInv, TypeInv', Next, NEW i \in Ids, objs'[i].timers > 0
  PROVE  objs[i].timers > 0 \/ (Speaking(i) /\ DoTimer)
<1>1. CASE Disconnect \/ ToReactor
  <2>1. NoObject.timers = 0
    BY DEF NoObject, Object
  <2>2. objs'[i] = objs[i] \/ objs'[i] = NoObject
    BY <1>1 DEF Disconnect, ToReactor
  <2> QED BY <2>1, <2>2
<1>2. CASE ~Disconnect /\ (Idle \/ At("raise"))
  BY <1>2, EventObjects DEF Stays
<1>3. CASE ~Disconnect /\ ~ToReactor /\ ~Idle /\ Known(i) /\ ~DoTimer
  BY <1>3, Kept DEF SameObject
<1>4. CASE DoTimer
  <2>1. At("do") /\ Self \in Ids
    BY <1>4, Running DEF DoTimer, Doing, At
  <2>2. CASE i # Self
    <3>1. PICK n : objs' = [objs EXCEPT ![Self].timers = n]
      BY <1>4 DEF DoTimer
    <3>2. objs'[i] = objs[i]
      BY <3>1, <2>1, <2>2 DEF TypeInv, ObjectsOK
    <3> QED BY <3>2
  <2>3. CASE i = Self /\ Doing("arm")
    <3>1. /\ 1 \in 1 .. Len(Head(todo).x) /\ Head(Head(todo).x) = Head(todo).x[1]
      BY <2>1, Doer, TailScript
    <3>2. Includes(Head(todo).x, Loud)
      BY <3>1, <2>3 DEF Includes, Loud, Doing
    <3> QED BY <3>2, <2>1, <2>3, <1>4 DEF Speaking
  <2>4. CASE i = Self /\ ~Doing("arm")
    <3>1. objs' = [objs EXCEPT ![Self].timers = 0]
      BY <1>4, <2>4 DEF DoTimer
    <3>2. objs'[i].timers = 0
      BY <3>1, <2>1, <2>4 DEF TypeInv, ObjectsOK, ObjectType
    <3> QED BY <3>2
  <2> QED BY <2>2, <2>3, <2>4
<1>5. CASE ~Disconnect /\ ~ToReactor /\ ~Idle /\ ~At("raise") /\ ~Known(i) /\ ~DoTimer
  <2>1. ASSUME objs'[i] = objs[i] PROVE objs[i].timers > 0
    BY <2>1
  <2>2. ASSUME NEW j \in Ids, NEW p, objs' = [objs EXCEPT ![j].pending = p] PROVE objs[i].timers > 0
    BY <2>2, ObjectFields
  <2>3. ASSUME NEW inter \in BOOLEAN, Unused # {}, objs' = [objs EXCEPT ![NewId] = Shell(inter)]
        PROVE  objs[i].timers > 0
    <3>1. Shell(inter).timers = 0
      BY DEF Shell, Object
    <3>2. CASE i = NewId
      BY <2>3, <3>1, <3>2, ShellObject, FreshKeeps
    <3>3. CASE i # NewId
      BY <2>3, <3>3, ShellObject, FreshKeeps
    <3> QED BY <3>2, <3>3
  <2>4. CASE CallCommand
    BY <2>4, CallStep
  <2>5. CASE LexSubshell \/ DoRun \/ DoInteractive
    BY <2>5, <2>3 DEF LexSubshell, DoRun, DoInteractive
  <2>6. CASE LexCommand \/ LexFails \/ RunAssignment \/ RunUnknown \/ RunPipe
    <3>1. Self \in Ids
      BY <2>6, Running DEF LexCommand, LexFails, RunAssignment, RunUnknown, RunPipe, Reads, At
    <3>2. \E p : objs' = [objs EXCEPT ![Self].pending = p]
      BY <2>6 DEF LexCommand, LexFails, RunAssignment, RunUnknown, RunPipe
    <3> QED BY <3>1, <3>2, <2>2
  <2>7. CASE DoQueue
    <3> DEFINE b == cmdstack[1]
    <3> DEFINE q == Queued(Received)
    <3>1. objs' = objs \/ objs' = [objs EXCEPT ![b].pending = Append(@, q)]
      BY <2>7 DEF DoQueue
    <3> HIDE DEF b, q
    <3>2. b \notin Ids => objs' = objs
      BY <3>1 DEF TypeInv, ObjectsOK
    <3> QED BY <3>1, <3>2, <2>1, <2>2
  <2>8. CASE \/ LexStops \/ LexEnds \/ PopShell \/ PopNothing \/ RunNothing \/ CallOnNothing \/ OutConnectionLost
             \/ DoWrite \/ DoExit \/ DoExitAlone \/ DoExitAgain \/ DoEnd \/ DoTerminal \/ DoFail \/ DoUser \/ DoTry
             \/ DoEcho \/ DoPop \/ DoInsert \/ DoChain \/ TryEnds
    BY <2>1, <2>8 DEF LexStops, LexEnds, PopShell, PopNothing, RunNothing, CallOnNothing, OutConnectionLost,
       DoWrite, DoExit, DoExitAlone, DoExitAgain, DoEnd, DoTerminal, DoFail, DoUser, DoTry, DoEcho, DoPop,
       DoInsert, DoChain, TryEnds
  <2> QED BY <1>5, <2>4, <2>5, <2>6, <2>7, <2>8, Guards DEF Next, Step
<1> QED BY <1>1, <1>2, <1>3, <1>4, <1>5

\* The frame that is next, when it is a script.
LEMMA HeadNext ==
  ASSUME TypeInv', todo' # <<>>
  PROVE  1 \in 1 .. Len(todo') /\ todo'[1] = Head(todo')
<1> DEFINE t == todo'
<1>1. t \in Seq(FrameType) /\ t # <<>>
  BY DEF TypeInv, FramesOK
<1> HIDE DEF t
<1>2. 1 \in 1 .. Len(t) /\ t[1] = Head(t)
  BY <1>1
<1> QED BY <1>2 DEF t

\* Nobody comes to life but who is called.
LEMMA LiveStays ==
  ASSUME TypeInv, TypeInv', HideInv, Next, NEW i \in Ids, objs'[i].cls \in Asking,
         \/ i \in ToSet(cmdstack') \/ objs'[i].timers > 0
         \/ /\ todo' # <<>> /\ Head(todo').f = "do" /\ Head(todo').id = i
            /\ Includes(Head(todo').x, Loud)
  PROVE  (Hides(i) /\ Live(i)) \/ (CallCommand /\ i = NewId)
<1>1. CASE i \in ToSet(cmdstack')
  <2>1. CASE i \in ToSet(cmdstack)
    BY <1>1, <2>1, StackClasses DEF Hides, Live, Alive
  <2>2. CASE i \notin ToSet(cmdstack)
    BY <1>1, <2>2, StackGrows DEF Asking
  <2> QED BY <2>1, <2>2
<1>2. CASE objs'[i].timers > 0
  <2>1. CASE objs[i].timers > 0 /\ (Disconnect \/ ToReactor)
    <3>1. NoObject.timers = 0
      BY DEF NoObject, Object
    <3>2. objs'[i] = objs[i] \/ objs'[i] = NoObject
      BY <2>1 DEF Disconnect, ToReactor
    <3> QED BY <1>2, <2>1, <3>1, <3>2 DEF Hides, Live, Alive
  <2>2. CASE objs[i].timers > 0 /\ ~Disconnect /\ ~ToReactor
    <3>1. SameObject(i)
      BY <2>2, KnownOnes, Kept
    <3> QED BY <2>2, <3>1 DEF SameObject, Hides, Live, Alive
  <2>3. CASE Speaking(i) /\ DoTimer
    <3>1. Known(i)
      BY <2>3, HeadDo, KnownOnes DEF Speaking
    <3>2. ~Disconnect /\ ~ToReactor
      BY <2>3, Guards, OneGuard DEF Speaking, At
    <3>3. SameObject(i)
      BY <3>1, <3>2, Kept
    <3> QED BY <2>3, <3>3 DEF SameObject, Hides, Live
  <2> QED BY <1>2, <2>1, <2>2, <2>3, TimersGrow
<1>3. CASE /\ todo' # <<>> /\ Head(todo').f = "do" /\ Head(todo').id = i
           /\ Includes(Head(todo').x, Loud)
  <2> DEFINE fr == todo'[1]
  <2>1. 1 \in 1 .. Len(todo') /\ fr.f = "do" /\ fr.id = i /\ Includes(fr.x, Loud)
    BY <1>3, HeadNext
  <2>2. \/ Begun(fr, objs')
        \/ /\ Known(i) /\ objs[i].cls \in Asking
           /\ Inherited(fr) \/ Continued(fr, 1) \/ Started(fr, objs')
    BY <2>1, DoClasses
  <2> HIDE DEF fr
  <2>3. CASE Begun(fr, objs')
    BY <2>1, <2>3, BegunRule
  <2>4. CASE Inherited(fr) /\ objs[i].cls \in Asking
    <3>1. PICK j \in 2 .. Len(todo) : fr = todo[j]
      BY <2>4 DEF Inherited
    <3>2. j \in 1 .. Len(todo) /\ j > 1
      BY <3>1, LenProperties DEF TypeInv, FramesOK
    <3>3. Modest(todo[j], j)
      BY <2>1, <2>4, <3>1, <3>2 DEF HideInv
    <3> QED BY <2>1, <3>1, <3>2, <3>3 DEF Modest
  <2>5. CASE Continued(fr, 1) /\ objs[i].cls \in Asking
    <3>1. At("do") /\ fr.id = Self /\ fr.x = Tail(Head(todo).x)
      BY <2>5, FrameFields DEF Continued
    <3>2. Includes(Head(todo).x, Loud)
      BY <2>1, <3>1, TailIncludes
    <3> QED BY <2>1, <2>5, <3>1, <3>2 DEF Hides, Live, Speaking
  <2>6. CASE Started(fr, objs') /\ objs[i].cls \in Asking
    <3>1. Alive(i)
      BY <2>1, <2>6, StartedRule
    <3> QED BY <2>6, <3>1 DEF Hides, Live
  <2> QED BY <2>2, <2>3, <2>4, <2>5, <2>6
<1> QED BY <1>1, <1>2, <1>3

\* As long as no second one has been called, one command at most may touch the echo.
AloneInv == ~shared => \A i, j \in Ids : Hides(i) /\ Hides(j) /\ Live(i) /\ Live(j) => i = j

LEMMA SharedStays ==
  ASSUME Next, ~CallCommand
  PROVE  shared' = shared
<1>1. CASE \/ LexCommand \/ LexSubshell \/ LexStops \/ LexFails \/ LexEnds \/ PopShell \/ PopNothing
           \/ RunNothing \/ RunAssignment \/ RunUnknown \/ RunPipe \/ CallOnNothing \/ OutConnectionLost
  BY <1>1 DEF LexCommand, LexSubshell, LexStops, LexFails, LexEnds, PopShell, PopNothing,
     RunNothing, RunAssignment, RunUnknown, RunPipe, CallOnNothing, OutConnectionLost
<1>2. CASE \/ DoWrite \/ DoExit \/ DoExitAlone \/ DoExitAgain \/ DoEnd \/ DoTerminal \/ DoFail \/ DoUser
           \/ DoTry \/ DoEcho \/ DoTimer \/ DoQueue \/ DoPop \/ DoRun \/ DoInteractive \/ DoInsert \/ DoChain
  BY <1>2 DEF DoWrite, DoExit, DoExitAlone, DoExitAgain, DoEnd, DoTerminal, DoFail, DoUser,
     DoTry, DoEcho, DoTimer, DoQueue, DoPop, DoRun, DoInteractive, DoInsert, DoChain
<1>3. CASE \/ Propagate \/ SyntaxError \/ Swallowed \/ TryEnds \/ Errback \/ Logged \/ Dropped \/ ToReactor
           \/ LineToShell \/ LineToCommand \/ LineDiscarded \/ ControlKey \/ CtrlCToShell \/ CtrlDToShell
           \/ EofOrTimeout \/ Disconnect \/ \E j \in Ids : Fires(j)
  BY <1>3 DEF Propagate, SyntaxError, Swallowed, TryEnds, Errback, Logged, Dropped, ToReactor,
     LineToShell, LineToCommand, LineDiscarded, ControlKey, CtrlCToShell, CtrlDToShell, EofOrTimeout,
     Disconnect, Fires
<1> QED BY <1>1, <1>2, <1>3 DEF Next, Step

\* One that is called beside another one that is alive is seen.
LEMMA CalledBeside ==
  ASSUME TypeInv, TypeInv', HideInv, CallCommand, ~shared', objs'[NewId].cls \in Asking,
         NEW j \in Ids, Hides(j), Live(j)
  PROVE  FALSE
<1>1. At("call")
  BY Guards
<1>2. ~Speaking(j)
  BY <1>1, OneGuard DEF Speaking
<1>3. Alive(j) /\ objs[j].cls \in Hiding
  BY <1>2, HidingIsAsking DEF Live, Hides
<1>4. objs'[NewId].cls \in Hiding
  BY HidingIsAsking
<1>5. shared' = (shared \/ (objs'[NewId].cls \in Hiding /\ \E i \in Ids : Alive(i) /\ objs[i].cls \in Hiding))
  BY CallStep
<1> QED BY <1>3, <1>4, <1>5

LEMMA AloneNext == TypeInv /\ TypeInv' /\ HideInv /\ AloneInv /\ Next => AloneInv'
<1> SUFFICES ASSUME TypeInv, TypeInv', HideInv, AloneInv, Next, ~shared',
                    NEW i \in Ids, NEW j \in Ids,
                    Hides(i)', Hides(j)', Live(i)', Live(j)'
             PROVE  i = j
  BY DEF AloneInv
<1>1. (Hides(i) /\ Live(i)) \/ (CallCommand /\ i = NewId)
  BY LiveStays DEF Hides, Live, Alive, Speaking, At, Self
<1>2. (Hides(j) /\ Live(j)) \/ (CallCommand /\ j = NewId)
  BY LiveStays DEF Hides, Live, Alive, Speaking, At, Self
<1>3. objs'[i].cls \in Asking /\ objs'[j].cls \in Asking
  BY DEF Hides
<1>4. CASE Hides(i) /\ Live(i) /\ Hides(j) /\ Live(j)
  <2>1. CASE CallCommand
    <3>1. ~shared
      BY CallStep, <2>1
    <3> QED BY <3>1, <1>4 DEF AloneInv
  <2>2. CASE ~CallCommand
    <3>1. ~shared
      BY SharedStays, <2>2
    <3> QED BY <3>1, <1>4 DEF AloneInv
  <2> QED BY <2>1, <2>2
<1>5. CASE CallCommand /\ i = NewId /\ Hides(j) /\ Live(j)
  BY <1>3, <1>5, CalledBeside
<1>6. CASE CallCommand /\ j = NewId /\ Hides(i) /\ Live(i)
  BY <1>3, <1>6, CalledBeside
<1>7. CASE CallCommand /\ i = NewId /\ j = NewId
  BY <1>7
<1> QED BY <1>1, <1>2, <1>4, <1>5, <1>6, <1>7

\* ssh waits for nothing but its last timer, and only when they are through do it and passwd
\* show what is typed again.
Finishing(fr, os) ==
  /\ os[fr.id].cls = "ssh" /\ Includes(fr.x, {"arm", "echoOn"}) => os[fr.id].at = "finish"
  /\ os[fr.id].cls = "passwd" /\ Includes(fr.x, {"echoOn"}) => os[fr.id].at = "done"
PhaseInv ==
  /\ \A i \in Ids : objs[i].cls = "ssh" /\ objs[i].timers > 0 => objs[i].at = "finish"
  /\ \A k \in 1 .. Len(todo) : todo[k].f = "do" => Finishing(todo[k], objs)

\* The rule behind a change of phase.
LEMMA MovedRule ==
  ASSUME TypeInv, NEW i \in Ids, Moved(i), objs[i].cls \in Asking
  PROVE  \E r \in Rules(objs[i].cls) :
           /\ r.on # "start" /\ r.at \in {"any", objs[i].at}
           /\ objs'[i].at = IF r.to = "same" THEN objs[i].at ELSE r.to
           /\ Idle /\ \E fr : todo' = Script(i, r.do) \o <<fr>>
<1>1. PICK event \in Event \ {"start"} : \E r \in Handlers(i, event) :
        /\ objs'[i].at = IF r.to = "same" THEN objs[i].at ELSE r.to
        /\ event # "error" => Idle /\ \E fr : todo' = Script(i, r.do) \o <<fr>>
  BY DEF Moved
<1>2. PICK r \in Handlers(i, event) :
        /\ objs'[i].at = IF r.to = "same" THEN objs[i].at ELSE r.to
        /\ event # "error" => Idle /\ \E fr : todo' = Script(i, r.do) \o <<fr>>
  BY <1>1
<1>3. r \in Rules(objs[i].cls) /\ r.on = event /\ r.at \in {"any", objs[i].at} /\ r.on # "start"
  BY <1>2 DEF Handlers
<1>4. r.on # "error"
  BY <1>3, EveryAsks DEF AskingRule
<1> QED BY <1>2, <1>3, <1>4

\* Only between events does a command that asks for a password get another phase.
LEMMA PhaseStays ==
  ASSUME TypeInv, Next, ~Disconnect, ~ToReactor, ~Idle, NEW i, Known(i), objs[i].cls \in Asking
  PROVE  objs'[i].cls = objs[i].cls /\ objs'[i].at = objs[i].at
<1>1. i \in Ids
  BY DEF Known
<1>2. SameObject(i)
  BY Kept
<1>3. CASE At("raise")
  <2>1. Stays(i)
    BY <1>1, <1>3, EventObjects
  <2>2. ~Moved(i)
    BY <1>1, MovedRule
  <2> QED BY <1>2, <2>1, <2>2 DEF Stays, SameObject
<1> QED BY <1>2, <1>3 DEF SameObject

LEMMA SshTimers ==
  ASSUME TypeInv, TypeInv', PhaseInv, Next, NEW i \in Ids, objs'[i].cls = "ssh", objs'[i].timers > 0
  PROVE  objs'[i].at = "finish"
<1>1. CASE Disconnect \/ ToReactor
  <2>1. NoObject.timers = 0
    BY DEF NoObject, Object
  <2>2. objs'[i] = objs[i] \/ objs'[i] = NoObject
    BY <1>1 DEF Disconnect, ToReactor
  <2> QED BY <2>1, <2>2 DEF PhaseInv
<1>2. CASE ~Disconnect /\ ~ToReactor /\ objs[i].timers > 0
  <2>1. Known(i) /\ SameObject(i)
    BY <1>2, KnownOnes, Kept
  <2>2. objs[i].cls = "ssh" /\ objs[i].cls \in Asking
    BY <2>1 DEF SameObject, Asking
  <2>3. objs[i].at = "finish"
    BY <1>2, <2>2 DEF PhaseInv
  <2>4. CASE ~Idle
    BY <1>2, <2>1, <2>2, <2>3, <2>4, PhaseStays
  <2>5. CASE Idle
    <3>1. objs'[i].at = objs[i].at \/ Moved(i)
      BY <1>2, <2>5, EventObjects DEF Stays
    <3>2. CASE Moved(i)
      <4>1. PICK r \in Rules("ssh") :
              /\ r.on # "start" /\ r.at \in {"any", objs[i].at}
              /\ objs'[i].at = IF r.to = "same" THEN objs[i].at ELSE r.to
        BY <2>2, <3>2, MovedRule
      <4>2. SshRule(r)
        BY EveryAsks DEF AskingRule, Asking
      <4> QED BY <2>3, <4>1, <4>2 DEF SshRule
    <3> QED BY <2>3, <3>1, <3>2
  <2> QED BY <2>4, <2>5
<1>3. CASE ~Disconnect /\ ~ToReactor /\ Speaking(i) /\ DoTimer /\ ~(objs[i].timers > 0)
  <2>1. At("do") /\ Self = i /\ ~Idle /\ ~At("raise")
    BY <1>3, OneGuard DEF Speaking
  <2>2. 1 \in 1 .. Len(todo) /\ todo[1] = Head(todo) /\ todo[1].f = "do" /\ todo[1].id = i
    BY <2>1, HeadDo
  <2>3. SameObject(i)
    BY <1>3, <2>2, KnownOnes, Kept
  <2>4. objs[i].cls = "ssh" /\ objs'[i].at = objs[i].at
    BY <2>1, <2>3 DEF SameObject
  <2>5. Doing("arm")
    <3>1. ASSUME ~Doing("arm") PROVE FALSE
      <4>1. objs' = [objs EXCEPT ![i].timers = 0]
        BY <1>3, <2>1, <3>1 DEF DoTimer
      <4>2. objs'[i].timers = 0
        BY <4>1 DEF TypeInv, ObjectsOK, ObjectType
      <4> QED BY <4>2
    <3> QED BY <3>1
  <2>6. Includes(Head(todo).x, {"arm", "echoOn"})
    <3>1. 1 \in 1 .. Len(Head(todo).x) /\ Head(Head(todo).x) = Head(todo).x[1]
      BY <2>1, Doer, TailScript
    <3> QED BY <3>1, <2>5 DEF Includes, Doing
  <2>7. Finishing(todo[1], objs)
    BY <2>2 DEF PhaseInv
  <2> QED BY <2>2, <2>4, <2>6, <2>7 DEF Finishing
<1> QED BY <1>1, <1>2, <1>3, TimersGrow

LEMMA ScriptPhases ==
  ASSUME TypeInv, TypeInv', PhaseInv, Next, NEW k \in 1 .. Len(todo'), todo'[k].f = "do"
  PROVE  Finishing(todo'[k], objs')
<1> DEFINE fr == todo'[k]
<1> SUFFICES ASSUME objs'[fr.id].cls \in Asking
             PROVE  Finishing(fr, objs')
  BY DEF Finishing, Asking
<1>1. \/ k = 1 /\ Begun(fr, objs')
      \/ /\ fr.id \in Ids /\ Known(fr.id) /\ objs[fr.id].cls \in Asking
         /\ Inherited(fr) \/ Continued(fr, k) \/ (k = 1 /\ Started(fr, objs'))
         /\ ~Disconnect /\ ~ToReactor
  BY DoClasses
<1>2. objs'[fr.id].cls \in Asking /\ fr.f = "do"
  OBVIOUS
<1> HIDE DEF fr
<1> DEFINE cls == objs'[fr.id].cls
<1>3. CASE k = 1 /\ Begun(fr, objs')
  <2>1. fr.id = NewId
    BY <1>3, BegunRule
  <2>2. PICK r \in Rules(cls) : r.on = "start" /\ fr.x = r.do
    BY <1>3, <2>1, BegunRule
  <2>3. AskingRule(cls, r)
    BY <1>2, <2>2, EveryAsks
  <2>4. cls = "ssh" => ~Includes(fr.x, {"arm", "echoOn"})
    BY <2>2, <2>3 DEF AskingRule, SshRule
  <2>5. cls = "passwd" => ~Includes(fr.x, {"echoOn"})
    <3>1. cls = "passwd" => fr.x = <<"out", "echoOff">>
      BY <2>2, <2>3 DEF AskingRule, PasswdRule
    <3> QED BY <3>1, ModestScripts
  <2> QED BY <2>4, <2>5 DEF Finishing
<1>4. CASE Inherited(fr) /\ Known(fr.id) /\ objs[fr.id].cls \in Asking /\ ~Disconnect /\ ~ToReactor
  <2>1. PICK j \in 2 .. Len(todo) : fr = todo[j]
    BY <1>4 DEF Inherited
  <2>2. j \in 1 .. Len(todo)
    BY <2>1, LenProperties DEF TypeInv, FramesOK
  <2>3. ~Idle
    <3>1. Len(<<>>) = 0
      OBVIOUS
    <3> QED BY <3>1, <2>2 DEF Idle
  <2>4. cls = objs[fr.id].cls /\ objs'[fr.id].at = objs[fr.id].at
    BY <1>4, <2>3, PhaseStays
  <2>5. Finishing(fr, objs)
    BY <1>2, <2>1, <2>2 DEF PhaseInv
  <2> QED BY <2>4, <2>5 DEF Finishing
<1>5. CASE Continued(fr, k) /\ Known(fr.id) /\ objs[fr.id].cls \in Asking /\ ~Disconnect /\ ~ToReactor
  <2>1. At("do") /\ fr.id = Self /\ fr.x = Tail(Head(todo).x)
    BY <1>5, FrameFields DEF Continued
  <2>2. 1 \in 1 .. Len(todo) /\ todo[1] = Head(todo) /\ Head(todo).f = "do" /\ todo[1].id = fr.id
    BY <2>1, HeadDo
  <2>3. ~Idle
    BY <2>1, OneGuard
  <2>4. cls = objs[fr.id].cls /\ objs'[fr.id].at = objs[fr.id].at
    BY <1>5, <2>3, PhaseStays
  <2>5. Finishing(todo[1], objs)
    BY <2>2 DEF PhaseInv
  <2>6. \A ops : Includes(fr.x, ops) => Includes(todo[1].x, ops)
    BY <2>1, <2>2, TailIncludes
  <2> QED BY <2>2, <2>4, <2>5, <2>6 DEF Finishing
<1>6. CASE Started(fr, objs') /\ objs[fr.id].cls \in Asking /\ ~Disconnect /\ ~ToReactor /\ Known(fr.id)
  <2>1. PICK r \in Rules(objs[fr.id].cls) :
          /\ r.on # "start" /\ r.at \in {"any", objs[fr.id].at} /\ fr.x = r.do
          /\ objs'[fr.id].at = IF r.to = "same" THEN objs[fr.id].at ELSE r.to
          /\ r.on = "fire" => objs[fr.id].timers > 0
    BY <1>6, StartedRule
  <2>2. fr.id \in Ids /\ SameObject(fr.id)
    BY <1>6, Kept DEF Known
  <2>3. cls = objs[fr.id].cls
    BY <2>2 DEF SameObject
  <2>4. AskingRule(cls, r)
    BY <1>2, <2>1, <2>3, EveryAsks
  <2>5. ASSUME cls = "ssh", Includes(fr.x, {"arm", "echoOn"}) PROVE objs'[fr.id].at = "finish"
    <3>1. ~Includes(<<"out", "echoOff">>, {"arm", "echoOn"})
      BY ModestScripts
    <3>2. r.to = "finish" \/ (r.to = "same" /\ r.on = "fire")
      BY <2>1, <2>4, <2>5, <3>1 DEF AskingRule, SshRule
    <3>3. r.on = "fire" => objs[fr.id].at = "finish"
      BY <2>1, <2>2, <2>3, <2>5 DEF PhaseInv
    <3> QED BY <2>1, <3>2, <3>3
  <2>6. ASSUME cls = "passwd", Includes(fr.x, {"echoOn"}) PROVE objs'[fr.id].at = "done"
    BY <2>1, <2>4, <2>6 DEF AskingRule, PasswdRule
  <2> QED BY <2>5, <2>6 DEF Finishing
<1> QED BY <1>1, <1>3, <1>4, <1>5, <1>6

LEMMA PhaseNext == TypeInv /\ TypeInv' /\ PhaseInv /\ Next => PhaseInv'
<1> SUFFICES ASSUME TypeInv, TypeInv', PhaseInv, Next PROVE PhaseInv'
  OBVIOUS
<1>1. \A i \in Ids : objs'[i].cls = "ssh" /\ objs'[i].timers > 0 => objs'[i].at = "finish"
  BY SshTimers
<1>2. \A k \in 1 .. Len(todo') : todo'[k].f = "do" => Finishing(todo'[k], objs')
  BY ScriptPhases
<1> QED BY <1>1, <1>2 DEF PhaseInv

-----------------------------------------------------------------------------
(* What is typed while a password is asked for.                              *)

\* The command is about to hide it.
AboutToHide(i) == At("do") /\ Self = i /\ Head(todo).x \in {<<"out", "echoOff">>, <<"echoOff">>}
AskInv ==
  ~shared => \A i \in ToSet(cmdstack) : AsksPassword(i) => password_input \/ AboutToHide(i)

LEMMA OnlyEcho ==
  ASSUME Next
  PROVE  DoEcho \/ password_input' = password_input
<1>1. CASE \/ LexCommand \/ LexSubshell \/ LexStops \/ LexFails \/ LexEnds \/ PopShell \/ PopNothing
           \/ RunNothing \/ RunAssignment \/ RunUnknown \/ RunPipe \/ CallCommand \/ CallOnNothing
           \/ OutConnectionLost
  BY <1>1 DEF LexCommand, LexSubshell, LexStops, LexFails, LexEnds, PopShell, PopNothing,
     RunNothing, RunAssignment, RunUnknown, RunPipe, CallCommand, CallOnNothing, OutConnectionLost
<1>2. CASE \/ DoWrite \/ DoExit \/ DoExitAlone \/ DoExitAgain \/ DoEnd \/ DoTerminal \/ DoFail \/ DoUser
           \/ DoTry \/ DoTimer \/ DoQueue \/ DoPop \/ DoRun \/ DoInteractive \/ DoInsert \/ DoChain
  BY <1>2 DEF DoWrite, DoExit, DoExitAlone, DoExitAgain, DoEnd, DoTerminal, DoFail, DoUser,
     DoTry, DoTimer, DoQueue, DoPop, DoRun, DoInteractive, DoInsert, DoChain
<1>3. CASE \/ Propagate \/ SyntaxError \/ Swallowed \/ TryEnds \/ Errback \/ Logged \/ Dropped \/ ToReactor
           \/ LineToShell \/ LineToCommand \/ LineDiscarded \/ ControlKey \/ CtrlCToShell \/ CtrlDToShell
           \/ EofOrTimeout \/ Disconnect \/ \E j \in Ids : Fires(j)
  BY <1>3 DEF Propagate, SyntaxError, Swallowed, TryEnds, Errback, Logged, Dropped, ToReactor,
     LineToShell, LineToCommand, LineDiscarded, ControlKey, CtrlCToShell, CtrlDToShell, EofOrTimeout,
     Disconnect, Fires
<1> QED BY <1>1, <1>2, <1>3 DEF Next, Step

\* Only whoever asks could show it again, and is not through yet.
LEMMA StaysHidden ==
  ASSUME TypeInv, AloneInv, PhaseInv, Next, ~shared, NEW i \in ToSet(cmdstack), AsksPassword(i),
         password_input
  PROVE  password_input'
<1>1. CASE ~DoEcho
  BY <1>1, OnlyEcho
<1>2. CASE DoEcho
  <2>1. PICK op \in {"echoOff", "echoOn"} : Doing(op) /\ password_input' = (op = "echoOff")
    BY <1>2 DEF DoEcho
  <2>2. CASE op = "echoOff"
    BY <2>1, <2>2
  <2>3. CASE op = "echoOn"
    <3>1. At("do") /\ Head(Head(todo).x) = "echoOn"
      BY <2>1, <2>3 DEF Doing
    <3>2. /\ Self \in Ids /\ Fits(objs[Self].cls, "echoOn")
          /\ 1 \in 1 .. Len(Head(todo).x) /\ Head(todo).x[1] = "echoOn"
      BY <3>1, Doer, TailScript
    <3>3. Hides(Self)
      BY <3>2 DEF Fits, Hides, Asking
    <3>4. Includes(Head(todo).x, {"echoOn"}) /\ Includes(Head(todo).x, {"arm", "echoOn"})
          /\ Includes(Head(todo).x, Loud)
      BY <3>2 DEF Includes, Loud
    <3>5. Live(Self)
      BY <3>1, <3>4 DEF Live, Speaking
    <3>6. i \in Ids /\ Live(i) /\ Hides(i)
      BY StackFacts DEF Live, Alive, Hides, AsksPassword, Asking
    <3>7. i = Self
      BY <3>2, <3>3, <3>5, <3>6 DEF AloneInv
    <3>8. 1 \in 1 .. Len(todo) /\ todo[1] = Head(todo) /\ todo[1].f = "do" /\ todo[1].id = i
      BY <3>1, <3>7, HeadDo
    <3>9. Finishing(todo[1], objs)
      BY <3>8 DEF PhaseInv
    <3> QED BY <3>4, <3>8, <3>9 DEF Finishing, AsksPassword
  <2> QED BY <2>1, <2>2, <2>3
<1> QED BY <1>1, <1>2

\* The two steps in which a command hides what is typed.
LEMMA Hidden ==
  ASSUME TypeInv, TypeInv', Next, NEW i, AboutToHide(i)
  PROVE  \/ password_input'
         \/ todo' # <<>> /\ Head(todo') = Frame("do", i, <<"echoOff">>)
<1>1. At("do") /\ Self = i
  BY DEF AboutToHide
<1>2. CASE Head(todo).x = <<"out", "echoOff">>
  <2>1. Head(Head(todo).x) = "out" /\ Tail(Head(todo).x) = <<"echoOff">>
    BY <1>2, HeadOfTwo, TailOfTwo
  <2>2. DoWrite
    BY <1>1, <2>1, DoesNext DEF NextDoes
  <2>3. Finish /\ <<"echoOff">> # <<>>
    BY <2>2 DEF DoWrite
  <2> QED BY <1>1, <2>1, <2>3, FinishHead
<1>3. CASE Head(todo).x = <<"echoOff">>
  <2>1. Head(Head(todo).x) = "echoOff"
    BY <1>3, HeadOfOne
  <2>2. DoEcho
    BY <1>1, <2>1, DoesNext DEF NextDoes
  <2> QED BY <2>1, <2>2 DEF DoEcho, Doing
<1> QED BY <1>2, <1>3 DEF AboutToHide

LEMMA AskNext == TypeInv /\ TypeInv' /\ AloneInv /\ PhaseInv /\ AskInv /\ Next => AskInv'
<1> SUFFICES ASSUME TypeInv, TypeInv', AloneInv, PhaseInv, AskInv, Next, ~shared',
                    NEW i \in ToSet(cmdstack'), AsksPassword(i)'
             PROVE  password_input' \/ AboutToHide(i)'
  BY DEF AskInv
<1>1. objs'[i].cls \in Asking /\ (objs'[i].cls = "passwd" \/ objs'[i].cls = "ssh")
      /\ (objs'[i].cls = "passwd" => objs'[i].at \in {"new", "again"})
      /\ (objs'[i].cls = "ssh" => objs'[i].at = "wait")
  BY DEF AsksPassword, Asking
<1>2. ~shared
  BY SharedStays, CallStep
<1>3. ASSUME NEW x, todo' # <<>>, Head(todo') = Frame("do", i, x), x \in {<<"out", "echoOff">>, <<"echoOff">>}
      PROVE  AboutToHide(i)'
  BY <1>3, FrameFields DEF AboutToHide, At, Self
<1>4. CASE i \notin ToSet(cmdstack)
  <2>1. CallCommand /\ i = NewId
    BY <1>1, <1>4, StackGrows DEF Asking
  <2>2. PICK r : Calls(r)
    BY <2>1, CallStep
  <2>3. AskingRule(objs'[i].cls, r) /\ r.on = "start"
    BY <1>1, <2>1, <2>2, EveryAsks DEF Calls
  <2>4. CASE objs'[i].cls = "passwd"
    <3>1. r.do = <<"out", "echoOff">>
      BY <2>3, <2>4 DEF AskingRule, PasswdRule
    <3>2. todo' # <<>> /\ Head(todo') = Frame("do", i, <<"out", "echoOff">>)
      BY <2>1, <2>2, <3>1 DEF Calls
    <3> QED BY <3>2, <1>3
  <2>5. CASE objs'[i].cls = "ssh"
    <3>1. r.to \in {"new", "fed", "yesno"}
      BY <2>3, <2>5 DEF AskingRule, SshRule
    <3> QED BY <1>1, <2>1, <2>2, <2>5, <3>1 DEF Calls
  <2> QED BY <1>1, <2>4, <2>5
<1>5. CASE i \in ToSet(cmdstack)
  <2>1. Known(i) /\ i \in Ids
    BY <1>5, KnownOnes DEF Known
  <2>2. objs'[i].cls = objs[i].cls
    BY <1>5, StackClasses
  <2>3. CASE AsksPassword(i)
    <3>1. password_input \/ AboutToHide(i)
      BY <1>2, <1>5, <2>3 DEF AskInv
    <3>2. CASE password_input
      BY <1>2, <1>5, <2>3, <3>2, StaysHidden
    <3>3. CASE AboutToHide(i)
      BY <3>3, Hidden, <1>3
    <3> QED BY <3>1, <3>2, <3>3
  <2>4. CASE ~AsksPassword(i)
    <3>1. objs'[i].at # objs[i].at
      BY <1>1, <2>2, <2>4 DEF AsksPassword
    <3>2. ~Disconnect
      BY DEF Disconnect, ConnectionLost, ToSet
    <3>3. ~ToReactor
      BY <1>5, <2>1, <3>1 DEF ToReactor, Alive
    <3>4. Idle
      BY <1>1, <2>1, <2>2, <3>1, <3>2, <3>3, PhaseStays
    <3>5. Moved(i)
      BY <2>1, <3>1, <3>2, <3>4, EventObjects DEF Stays
    <3>6. PICK r \in Rules(objs[i].cls) :
            /\ r.on # "start" /\ r.at \in {"any", objs[i].at}
            /\ objs'[i].at = IF r.to = "same" THEN objs[i].at ELSE r.to
            /\ Idle /\ \E fr : todo' = Script(i, r.do) \o <<fr>>
      BY <1>1, <2>1, <2>2, <3>5, MovedRule
    <3>7. AskingRule(objs[i].cls, r) /\ objs'[i].at = r.to
      BY <1>1, <2>2, <3>1, <3>6, EveryAsks
    <3>8. CASE objs[i].cls = "passwd"
      <4>1. r.at = "new"
        BY <1>1, <2>2, <3>6, <3>7, <3>8 DEF AskingRule, PasswdRule
      <4> QED BY <2>4, <3>6, <3>8, <4>1 DEF AsksPassword
    <3>9. CASE objs[i].cls = "ssh"
      <4>1. r.do = <<"out", "echoOff">>
        BY <1>1, <2>2, <3>1, <3>6, <3>7, <3>9 DEF AskingRule, SshRule
      <4>2. PICK fr : todo' = <<Frame("do", i, <<"out", "echoOff">>)>> \o <<fr>>
        BY <3>6, <4>1, ScriptOnly
      <4> DEFINE b == <<fr>>
      <4>3. b \in Seq({fr})
        OBVIOUS
      <4> DEFINE g == Frame("do", i, <<"out", "echoOff">>)
      <4>4. todo' = <<g>> \o b
        BY <4>2
      <4> HIDE DEF b, g
      <4>5. todo' # <<>> /\ Head(todo') = g
        BY <4>3, <4>4, OneThen
      <4> QED BY <4>5, <1>3 DEF g
    <3> QED BY <1>1, <2>2, <3>8, <3>9
  <2> QED BY <2>3, <2>4
<1> QED BY <1>4, <1>5

HiddenInv == TypeInv /\ HideInv /\ AloneInv /\ PhaseInv /\ AskInv

LEMMA HiddenInit == Init => HiddenInv
<1> SUFFICES ASSUME Init PROVE HiddenInv
  OBVIOUS
<1>1. TypeInv
  BY InitTypes
<1>2. \A k \in 1 .. Len(todo) : todo[k].f # "do"
  <2>1. CASE todo = <<>>
    <3>1. Len(<<>>) = 0
      OBVIOUS
    <3> QED BY <2>1, <3>1
  <2>2. CASE \E line \in ExecLines : todo = <<Frame("lex", 1, line), Frame("later", 0, <<>>)>>
    <3>1. PICK line : todo = <<Frame("lex", 1, line), Frame("later", 0, <<>>)>>
      BY <2>2
    <3> DEFINE a == Frame("lex", 1, line)
    <3> DEFINE b == Frame("later", 0, <<>>)
    <3>2. todo = <<a, b>> /\ a.f = "lex" /\ b.f = "later"
      BY <3>1, FrameFields
    <3> HIDE DEF a, b
    <3> QED BY <3>2
  <2> QED BY <2>1, <2>2 DEF Init
<1>3. \A i \in Ids : ~Hides(i) /\ ~AsksPassword(i)
  <2>1. NoObject.cls = "none"
    BY DEF NoObject, Object
  <2>2. \A i \in Ids : objs[i].cls \in {"shell", "none"}
    BY <2>1, ShellObject DEF Init
  <2> QED BY <2>2 DEF Hides, Asking, AsksPassword
<1>4. HideInv
  BY <1>2 DEF HideInv
<1>5. AloneInv
  BY <1>3 DEF AloneInv
<1>6. PhaseInv
  BY <1>2, <1>3 DEF PhaseInv, Hides, Asking
<1>7. AskInv
  BY <1>1, <1>3, StackFacts DEF AskInv
<1> QED BY <1>1, <1>4, <1>5, <1>6, <1>7 DEF HiddenInv

LEMMA HiddenNext == HiddenInv /\ [Next]_vars => HiddenInv'
<1>1. ASSUME HiddenInv, Next PROVE HiddenInv'
  <2>1. TypeInv /\ TypeInv'
    BY <1>1, NextTypes DEF HiddenInv
  <2> QED BY <1>1, <2>1, HideNext, AloneNext, PhaseNext, AskNext DEF HiddenInv
<1>2. ASSUME HiddenInv, UNCHANGED vars PROVE HiddenInv'
  <2>1. TypeInv /\ TypeInv'
    BY <1>2, NextTypes DEF HiddenInv
  <2>2. UNCHANGED <<objs, cmdstack, todo, shared, password_input>>
    BY <1>2 DEF vars
  <2>3. HideInv' /\ PhaseInv'
    BY <1>2, <2>2 DEF HiddenInv, HideInv, PhaseInv
  <2>4. AloneInv'
    BY <1>2, <2>2 DEF HiddenInv, AloneInv, Hides, Live, Alive, Speaking, At, Self
  <2>5. AskInv'
    BY <1>2, <2>2 DEF HiddenInv, AskInv, AsksPassword, AboutToHide, At, Self
  <2> QED BY <2>1, <2>3, <2>4, <2>5 DEF HiddenInv
<1> QED BY <1>1, <1>2

\* While a command that asks for a password reads the input, what is typed is not shown, unless a
\* second command that hides it was called beside a first.
THEOREM ShellPasswordsAreHidden == Spec => []PasswordsAreHidden
<1>1. Spec => []HiddenInv
  BY HiddenInit, HiddenNext, PTL DEF Spec
<1>2. HiddenInv => PasswordsAreHidden
  <2> SUFFICES ASSUME HiddenInv, Idle, cmdstack # <<>>, ~shared, AsksPassword(Top)
               PROVE  password_input
    BY DEF PasswordsAreHidden
  <2>1. TypeInv /\ AskInv
    BY DEF HiddenInv
  <2>2. Top \in ToSet(cmdstack)
    BY <2>1, StackTop
  <2>3. ~AboutToHide(Top)
    BY OneGuard DEF AboutToHide
  <2> QED BY <2>1, <2>2, <2>3 DEF AskInv
<1> QED BY <1>1, <1>2, PTL

-----------------------------------------------------------------------------
(* The prompt of an interactive session: what is still to be done for the    *)
(* shell at the top of the stack, and how the shells that read a part of a   *)
(* line are nested.                                                          *)

Ordinary == conn = "open" /\ interactive /\ ~raised /\ ~stray

\* Sessions do not become ordinary again.
LEMMA OrdinaryBefore ==
  ASSUME Next, Ordinary'
  PROVE  Ordinary
<1> DEFINE Goes ==
      /\ interactive' = interactive
      /\ conn' = conn \/ conn' \in {ProcessEnded, "closing", "closed"}
      /\ raised' = raised \/ raised' = TRUE
      /\ stray' = stray \/ PopShell \/ DoPop
<1>1. ASSUME \/ LexCommand \/ LexSubshell \/ LexStops \/ LexFails \/ LexEnds \/ PopShell \/ PopNothing
      PROVE  Goes
  BY <1>1 DEF LexCommand, LexSubshell, LexStops, LexFails, LexEnds, PopShell, PopNothing, hist
<1>2. ASSUME \/ RunNothing \/ RunAssignment \/ RunUnknown \/ RunPipe \/ CallCommand \/ CallOnNothing
             \/ OutConnectionLost
      PROVE  Goes
  BY <1>2 DEF RunNothing, RunAssignment, RunUnknown, RunPipe, CallCommand, CallOnNothing, OutConnectionLost, hist
<1>3. ASSUME \/ DoWrite \/ DoExit \/ DoExitAlone \/ DoExitAgain \/ DoEnd \/ DoTerminal \/ DoFail \/ DoUser
             \/ DoTry \/ DoEcho
      PROVE  Goes
  BY <1>3 DEF DoWrite, DoExit, DoExitAlone, DoExitAgain, DoEnd, DoTerminal, DoFail, DoUser, DoTry, DoEcho, hist
<1>4. ASSUME DoTimer \/ DoQueue \/ DoPop \/ DoRun \/ DoInteractive \/ DoInsert \/ DoChain
      PROVE  Goes
  BY <1>4 DEF DoTimer, DoQueue, DoPop, DoRun, DoInteractive, DoInsert, DoChain, hist
<1>5. ASSUME Propagate \/ SyntaxError \/ Swallowed \/ TryEnds \/ Errback \/ Logged \/ Dropped \/ ToReactor
      PROVE  Goes
  BY <1>5 DEF Propagate, SyntaxError, Swallowed, TryEnds, Errback, Logged, Dropped, ToReactor, hist, ConnectionLost
<1>6. ASSUME \/ LineToShell \/ LineToCommand \/ LineDiscarded \/ ControlKey \/ CtrlCToShell \/ CtrlDToShell
             \/ EofOrTimeout \/ Disconnect \/ \E i \in Ids : Fires(i)
      PROVE  Goes
  BY <1>6 DEF LineToShell, LineToCommand, LineDiscarded, ControlKey, CtrlCToShell, CtrlDToShell,
     EofOrTimeout, Disconnect, Fires, hist, ConnectionLost
<1>7. Goes
  BY <1>1, <1>2, <1>3, <1>4, <1>5, <1>6 DEF Next, Step
<1>8. conn' = "open" /\ interactive' /\ ~raised' /\ ~stray'
  BY DEF Ordinary
<1>9. conn = "open"
  BY <1>7, <1>8 DEF ProcessEnded
<1>10. PopShell \/ DoPop => ~stray
  BY <1>8 DEF PopShell, DoPop
<1>11. interactive
  BY <1>7, <1>8
<1>12. ~raised
  BY <1>7, <1>8
<1>13. ~stray
  BY <1>7, <1>8, <1>10
<1> QED BY <1>9, <1>11, <1>12, <1>13 DEF Ordinary

\* How the frames of a step correspond to the ones before it: n are new, and those below are d further up.
Frames(n, d) ==
  /\ n \in 0 .. Len(todo') /\ d \in Int /\ (n + d = 1 \/ (Swallowed /\ n = 0 /\ d = 2))
  /\ \A k \in n + 1 .. Len(todo') : k + d \in 2 .. Len(todo) /\ todo'[k] = todo[k + d]
  /\ \/ Len(todo') + d = Len(todo)
     \/ n = Len(todo') /\ (Len(todo) <= 1 \/ (At("raise") /\ Len(todo) = 2))

LEMMA ThenShape ==
  ASSUME TypeInv, todo # <<>>, NEW S, NEW fs \in Seq(S), Then(fs)
  PROVE  Frames(Len(fs), 1 - Len(fs)) /\ Len(fs) \in Nat /\ \A k \in 1 .. Len(fs) : todo'[k] = fs[k]
<1>1. /\ Len(fs) \in Nat /\ Len(todo) \in Nat /\ Len(todo) > 0
      /\ Len(todo') = Len(fs) + Len(todo) - 1
      /\ \A k \in 1 .. Len(fs) : todo'[k] = fs[k]
      /\ \A k \in Len(fs) + 1 .. Len(fs) + Len(todo) - 1 : todo'[k] = todo[k - Len(fs) + 1]
  BY ThenIndex
<1> DEFINE n == Len(fs)
<1> DEFINE l == Len(todo)
<1> DEFINE m == Len(todo')
<1>2. n \in Nat /\ l \in Nat /\ l > 0 /\ m = n + l - 1
  BY <1>1
<1> HIDE DEF n, l, m
<1>3. n \in 0 .. m /\ 1 - n \in Int /\ n + (1 - n) = 1 /\ m + (1 - n) = l
  BY <1>2
<1>4. ASSUME NEW k \in n + 1 .. m PROVE k + (1 - n) \in 2 .. l /\ k + (1 - n) = k - n + 1 /\ k \in n + 1 .. n + l - 1
  BY <1>2
<1>5. \A k \in n + 1 .. m : todo'[k] = todo[k + (1 - n)]
  BY <1>1, <1>4 DEF n, l, m
<1>6. \A k \in n + 1 .. m : k + (1 - n) \in 2 .. l
  BY <1>4
<1> DEFINE d == 1 - n
<1>7. n \in 0 .. m /\ d \in Int /\ n + d = 1 /\ m + d = l
  BY <1>3
<1>8. \A k \in n + 1 .. m : k + d \in 2 .. l /\ todo'[k] = todo[k + d]
  BY <1>5, <1>6
<1> HIDE DEF d
<1>9. n \in 0 .. Len(todo') /\ d \in Int /\ n + d = 1 /\ Len(todo') + d = Len(todo)
  BY <1>7 DEF l, m
<1>10. \A k \in n + 1 .. Len(todo') : k + d \in 2 .. Len(todo) /\ todo'[k] = todo[k + d]
  BY <1>8 DEF l, m
<1>11. Frames(n, d)
  BY <1>9, <1>10, Zenon DEF Frames
<1> QED BY <1>1, <1>11 DEF n, d

LEMMA TupleFrames ==
  ASSUME TypeInv, todo # <<>>
  PROVE  /\ Then(<<>>) => Frames(0, 1)
         /\ \A a : Then(<<a>>) => Frames(1, 0) /\ todo'[1] = a
         /\ \A a, b : Then(<<a, b>>) => Frames(2, -1) /\ todo'[1] = a /\ todo'[2] = b
         /\ \A a, b, c : Then(<<a, b, c>>) => Frames(3, -2) /\ todo'[1] = a /\ todo'[2] = b /\ todo'[3] = c
<1>1. ASSUME Then(<<>>) PROVE Frames(0, 1)
  <2>1. <<>> \in Seq({}) /\ Len(<<>>) = 0 /\ 1 - 0 = 1
    OBVIOUS
  <2> QED BY <1>1, <2>1, ThenShape
<1>2. ASSUME NEW a, Then(<<a>>) PROVE Frames(1, 0) /\ todo'[1] = a
  <2> DEFINE fs == <<a>>
  <2>1. fs \in Seq({a}) /\ Len(fs) = 1 /\ 1 - 1 = 0 /\ fs[1] = a /\ 1 \in 1 .. 1
    OBVIOUS
  <2>2. Then(fs)
    BY <1>2
  <2> HIDE DEF fs
  <2>3. Frames(Len(fs), 1 - Len(fs)) /\ \A k \in 1 .. Len(fs) : todo'[k] = fs[k]
    BY <2>1, <2>2, ThenShape
  <2> QED BY <2>1, <2>3
<1>3. ASSUME NEW a, NEW b, Then(<<a, b>>) PROVE Frames(2, -1) /\ todo'[1] = a /\ todo'[2] = b
  <2> DEFINE fs == <<a, b>>
  <2>1. fs \in Seq({a, b}) /\ Len(fs) = 2 /\ 1 - 2 = -1 /\ fs[1] = a /\ fs[2] = b /\ 1 \in 1 .. 2 /\ 2 \in 1 .. 2
    OBVIOUS
  <2>2. Then(fs)
    BY <1>3
  <2> HIDE DEF fs
  <2>3. Frames(Len(fs), 1 - Len(fs)) /\ \A k \in 1 .. Len(fs) : todo'[k] = fs[k]
    BY <2>1, <2>2, ThenShape
  <2> QED BY <2>1, <2>3
<1>4. ASSUME NEW a, NEW b, NEW c, Then(<<a, b, c>>)
      PROVE  Frames(3, -2) /\ todo'[1] = a /\ todo'[2] = b /\ todo'[3] = c
  <2> DEFINE fs == <<a, b, c>>
  <2>1. /\ fs \in Seq({a, b, c}) /\ Len(fs) = 3 /\ 1 - 3 = -2 /\ fs[1] = a /\ fs[2] = b /\ fs[3] = c
        /\ 1 \in 1 .. 3 /\ 2 \in 1 .. 3 /\ 3 \in 1 .. 3
    OBVIOUS
  <2>2. Then(fs)
    BY <1>4
  <2> HIDE DEF fs
  <2>3. Frames(Len(fs), 1 - Len(fs)) /\ \A k \in 1 .. Len(fs) : todo'[k] = fs[k]
    BY <2>1, <2>2, ThenShape
  <2> QED BY <2>1, <2>3
<1> QED BY <1>1, <1>2, <1>3, <1>4

LEMMA Joined ==
  /\ \A a : <<a>> \o <<>> = <<a>>
  /\ \A a, b : <<a>> \o <<b>> = <<a, b>> /\ <<a, b>> \o <<>> = <<a, b>>
  /\ \A a, b, c : <<a, b>> \o <<c>> = <<a, b, c>>
<1>1. ASSUME NEW a PROVE <<a>> \o <<>> = <<a>>
  <2>1. <<a>> \in Seq({a})
    OBVIOUS
  <2> QED BY <2>1, ConcatEmptySeq
<1>2. ASSUME NEW a, NEW b PROVE <<a>> \o <<b>> = <<a, b>>
  <2> DEFINE S == {a, b}
  <2> DEFINE s == <<a>>
  <2> DEFINE t == <<b>>
  <2> DEFINE r == <<a, b>>
  <2>1. /\ s \in Seq(S) /\ t \in Seq(S) /\ r \in Seq(S) /\ Len(s) = 1 /\ Len(t) = 1 /\ Len(r) = 2
        /\ s[1] = a /\ t[1] = b /\ r[1] = a /\ r[2] = b
    OBVIOUS
  <2> HIDE DEF S, s, t, r
  <2> DEFINE q == s \o t
  <2>2. /\ q \in Seq(S) /\ Len(q) = Len(s) + Len(t)
        /\ \A k \in 1 .. Len(s) + Len(t) : q[k] = IF k <= Len(s) THEN s[k] ELSE t[k - Len(s)]
    BY <2>1, ConcatProperties
  <2> HIDE DEF q
  <2>3. Len(q) = 2 /\ q[1] = r[1] /\ q[2] = r[2] /\ \A k \in 1 .. 2 : k = 1 \/ k = 2
    BY <2>1, <2>2
  <2>4. q = r
    BY <2>1, <2>2, <2>3, SeqEqual
  <2> QED BY <2>4 DEF q, s, t, r
<1>3. ASSUME NEW a, NEW b PROVE <<a, b>> \o <<>> = <<a, b>>
  <2> DEFINE s == <<a, b>>
  <2>1. s \in Seq({a, b})
    OBVIOUS
  <2> HIDE DEF s
  <2>2. s \o <<>> = s
    BY <2>1, ConcatEmptySeq
  <2> QED BY <2>2 DEF s
<1>4. ASSUME NEW a, NEW b, NEW c PROVE <<a, b>> \o <<c>> = <<a, b, c>>
  <2> DEFINE S == {a, b, c}
  <2> DEFINE s == <<a, b>>
  <2> DEFINE t == <<c>>
  <2> DEFINE r == <<a, b, c>>
  <2>1. /\ s \in Seq(S) /\ t \in Seq(S) /\ r \in Seq(S) /\ Len(s) = 2 /\ Len(t) = 1 /\ Len(r) = 3
        /\ s[1] = a /\ s[2] = b /\ t[1] = c /\ r[1] = a /\ r[2] = b /\ r[3] = c
    OBVIOUS
  <2> HIDE DEF S, s, t, r
  <2> DEFINE q == s \o t
  <2>2. /\ q \in Seq(S) /\ Len(q) = Len(s) + Len(t)
        /\ \A k \in 1 .. Len(s) + Len(t) : q[k] = IF k <= Len(s) THEN s[k] ELSE t[k - Len(s)]
    BY <2>1, ConcatProperties
  <2> HIDE DEF q
  <2>3. /\ Len(q) = 3 /\ q[1] = r[1] /\ q[2] = r[2] /\ q[3] = r[3]
        /\ \A k \in 1 .. 3 : k = 1 \/ k = 2 \/ k = 3
    BY <2>1, <2>2
  <2>4. q = r
    BY <2>1, <2>2, <2>3, SeqEqual
  <2> QED BY <2>4 DEF q, s, t, r
<1> QED BY <1>1, <1>2, <1>3, <1>4

\* What is left of a script is one frame, or none.
LEMMA AfterIs ==
  \/ After = <<>> /\ Tail(Head(todo).x) = <<>>
  \/ After = <<Frame("do", Self, Tail(Head(todo).x))>> /\ Tail(Head(todo).x) # <<>>
BY DEF After, Script

-----------------------------------------------------------------------------
(* What a script may only begin with: its command is then the top of the stack. *)

Opened(k) ==
  /\ k = 1 /\ cmdstack # <<>> /\ todo[k].id = Last(cmdstack)
  /\ Includes(todo[k].x, {"insert"}) => Len(todo) > 1 /\ todo[2].f = "lost"
  /\ Includes(todo[k].x, {"run"}) => todo[k].x = <<"run", "exit">>
OpeningInv ==
  \A k \in 1 .. Len(todo) : todo[k].f = "do" =>
    /\ \A j \in 2 .. Len(todo[k].x) : todo[k].x[j] \notin Opening
    /\ Includes(todo[k].x, Opening) => Opened(k)

\* What an event starts: nothing but typed-ahead lines, for the top of the stack.
LEMMA StartedOpening ==
  ASSUME TypeInv, NEW fr, NEW os, Started(fr, os)
  PROVE  /\ \A j \in 2 .. Len(fr.x) : fr.x[j] \notin Opening
         /\ ~Includes(fr.x, {"run", "insert", "pop", "interactive"})
         /\ Includes(fr.x, Opening) => cmdstack # <<>> /\ fr.id = Top
<1>1. PICK event \in Event \ {"start"} : \E r \in Handlers(fr.id, event) :
        /\ fr = Frame("do", fr.id, r.do)
        /\ event \in {"line", "ctrlC", "ctrlD"} => cmdstack # <<>> /\ fr.id = Top
  BY DEF Started
<1>2. PICK r \in Handlers(fr.id, event) :
        /\ fr = Frame("do", fr.id, r.do)
        /\ event \in {"line", "ctrlC", "ctrlD"} => cmdstack # <<>> /\ fr.id = Top
  BY <1>1
<1>3. r \in Rules(objs[fr.id].cls) /\ r.on = event /\ objs[fr.id].cls \in DOMAIN CommandTable
  BY <1>2 DEF Handlers, Started
<1>4. Allowed(objs[fr.id].cls, r.on, r.do)
  BY <1>3, RuleScript
<1>5. fr.x = r.do
  BY <1>2, FrameFields
<1>6. \A j \in 1 .. Len(fr.x) : fr.x[j] \in Opening => j = 1 /\ fr.x[j] = "queue" /\ event = "line"
  BY <1>3, <1>4, <1>5 DEF Allowed, Opening
<1>7. \A j \in 2 .. Len(fr.x) : fr.x[j] \notin Opening
  <2> SUFFICES ASSUME NEW j \in 2 .. Len(fr.x) PROVE fr.x[j] \notin Opening
    OBVIOUS
  <2>1. j \in 1 .. Len(fr.x) /\ j # 1
    OBVIOUS
  <2> QED BY <2>1, <1>6
<1>8. ~Includes(fr.x, {"run", "insert", "pop", "interactive"})
  BY StartedScript DEF Includes
<1>9. Includes(fr.x, Opening) => event = "line"
  BY <1>6 DEF Includes
<1> QED BY <1>2, <1>7, <1>8, <1>9

\* An event starts its script with the stack as it is.
LEMMA StartStack ==
  ASSUME TypeInv, Next, Idle \/ At("raise"), NEW k \in 1 .. Len(todo'), todo'[k].f = "do", NEW fr, NEW os,
         Started(fr, os)
  PROVE  UNCHANGED cmdstack
<1>1. ASSUME Disconnect PROVE FALSE
  <2>1. todo' = <<>>
    BY <1>1 DEF Disconnect, Idle
  <2> QED BY <2>1
<1>2. ASSUME Dropped PROVE FALSE
  <2>1. At("raise") /\ Rest # <<>> /\ Head(Rest).f = "input" /\ todo' = Rest
    BY <1>2 DEF Dropped, Thrown
  <2>2. /\ FramesOK(Rest, objs) /\ Tail(Rest) = <<>>
    BY <2>1, Below DEF Bottom
  <2>3. Len(Tail(Rest)) = Len(Rest) - 1 /\ Head(Rest) = Rest[1] /\ Len(Rest) \in Nat
    BY <2>1, <2>2, HeadFrame
  <2>4. Len(Rest) = 1
    <3>1. Len(<<>>) = 0
      OBVIOUS
    <3>2. Len(Tail(Rest)) = 0
      BY <3>1, <2>2, Zenon
    <3> QED BY <3>2, <2>3
  <2>5. k = 1
    BY <2>1, <2>4
  <2> QED BY <2>1, <2>3, <2>5
<1>3. /\ ~At("lex") /\ ~At("pop") /\ ~At("run") /\ ~At("do") /\ ~At("call")
  BY OneGuard
<1>4. ASSUME cmdstack' = <<>> PROVE UNCHANGED cmdstack \/ Disconnect \/ Dropped
  <2>1. CASE Idle
    <3>1. CASE \/ LineToShell \/ LineToCommand \/ LineDiscarded \/ ControlKey \/ CtrlCToShell \/ CtrlDToShell
               \/ EofOrTimeout \/ \E j \in Ids : Fires(j)
      BY <3>1 DEF LineToShell, LineToCommand, LineDiscarded, ControlKey, CtrlCToShell, CtrlDToShell,
         EofOrTimeout, Fires
    <3>2. ~At("lost") /\ ~At("try") /\ ~At("raise") /\ ~ToReactor
      BY <2>1, OneGuard, Guards DEF Idle
    <3> QED BY <3>1, <3>2, <1>3, Guards, Operations DEF Next, Step
  <2>2. CASE At("raise")
    <3>1. CASE Propagate \/ SyntaxError \/ Swallowed \/ Errback \/ Logged
      BY <3>1 DEF Propagate, SyntaxError, Swallowed, Errback, Logged
    <3>2. ~At("lost") /\ ~At("try") /\ ~Idle /\ ~ToReactor
      BY <2>2, OneGuard, Guards DEF At, Bottom
    <3> QED BY <3>1, <3>2, <1>3, Guards, Operations DEF Next, Step
  <2> QED BY <2>1, <2>2
<1>5. ~(LexSubshell \/ CallCommand \/ DoRun \/ DoInteractive \/ PopShell \/ DoExit \/ DoPop)
  BY <1>3, Guards, Operations
<1> QED BY <1>1, <1>2, <1>4, <1>5, StackCases

\* A command that is called is the top of the stack, and its pipe's end comes after its script.
LEMMA BegunOpened ==
  ASSUME TypeInv, TypeInv', Next, NEW k \in 1 .. Len(todo'), k = 1, todo'[k].f = "do", Begun(todo'[k], objs')
  PROVE  /\ \A j \in 2 .. Len(todo'[k].x) : todo'[k].x[j] \notin Opening
         /\ Opened(k)'
<1>1. /\ CallCommand /\ Allowed(objs'[NewId].cls, "start", todo'[k].x) /\ todo'[k].id = NewId
      /\ Last(cmdstack') = NewId /\ Len(cmdstack') > 0
  <2>1. /\ CallCommand /\ Allowed(objs'[NewId].cls, "start", todo'[k].x) /\ todo'[k].id = NewId
        /\ Last(cmdstack') = NewId /\ Len(cmdstack') = Len(cmdstack) + 1 /\ Len(cmdstack) \in Nat
    BY BegunScript
  <2> QED BY <2>1
<1>2. cmdstack' # <<>>
  <2>1. Len(<<>>) = 0
    OBVIOUS
  <2> QED BY <1>1, <2>1
<1>3. \A j \in 2 .. Len(todo'[k].x) : todo'[k].x[j] \notin Opening
  <2> SUFFICES ASSUME NEW j \in 2 .. Len(todo'[k].x) PROVE todo'[k].x[j] \notin Opening
    OBVIOUS
  <2>1. j \in 1 .. Len(todo'[k].x) /\ j # 1
    OBVIOUS
  <2> QED BY <2>1, <1>1 DEF Allowed
<1>4. Includes(todo'[k].x, {"run"}) => todo'[k].x = <<"run", "exit">>
  BY <1>1 DEF Allowed, Includes
<1>5. Len(todo') > 1 /\ todo'[2].f = "lost"
  <2> DEFINE lost == Frame("lost", 0, <<>>)
  <2>1. PICK r : Then(Script(NewId, r.do) \o <<lost>>)
    BY <1>1, CallStep DEF Calls
  <2>2. lost.f = "lost"
    BY FrameFields
  <2>3. todo # <<>>
    BY <1>1, Guards DEF At
  <2>4. CASE r.do = <<>>
    <3>1. Then(<<>> \o <<lost>>)
      BY <2>1, <2>4 DEF Script
    <3> HIDE DEF lost
    <3>2. Then(<<lost>>)
      <4>1. <<lost>> \in Seq({lost})
        BY SmallSeqs
      <4> QED BY <3>1, <4>1, ConcatEmptySeq
    <3>3. todo'[1] = lost
      BY <3>2, <2>3, TupleFrames
    <3> QED BY <3>3, <2>2
  <2>5. CASE r.do # <<>>
    <3> DEFINE d == Frame("do", NewId, r.do)
    <3>1. Then(<<d>> \o <<lost>>)
      BY <2>1, <2>5, ScriptOnly
    <3> HIDE DEF lost, d
    <3>2. Then(<<d, lost>>)
      BY <3>1, Joined
    <3>3. todo'[2] = lost /\ Frames(2, -1)
      BY <3>2, <2>3, TupleFrames
    <3>4. Len(todo') > 1
      BY <3>3 DEF Frames
    <3> QED BY <3>3, <3>4, <2>2
  <2> QED BY <2>4, <2>5
<1> QED BY <1>1, <1>2, <1>3, <1>4, <1>5 DEF Opened

LEMMA OpeningNext == TypeInv /\ TypeInv' /\ OpeningInv /\ Next => OpeningInv'
<1> SUFFICES ASSUME TypeInv, TypeInv', OpeningInv, Next, NEW k \in 1 .. Len(todo'), todo'[k].f = "do"
             PROVE  /\ \A j \in 2 .. Len(todo'[k].x) : todo'[k].x[j] \notin Opening
                    /\ Includes(todo'[k].x, Opening) => Opened(k)'
  BY DEF OpeningInv
<1> DEFINE fr == todo'[k]
<1>1. Origin(fr, k, objs')
  BY Origins
<1>2. CASE Inherited(fr)
  <2>1. PICK j \in 2 .. Len(todo) : fr = todo[j]
    BY <1>2 DEF Inherited
  <2>2. j \in 1 .. Len(todo) /\ j # 1 /\ todo[j].f = "do"
    BY <2>1
  <2>3. ~Opened(j)
    BY <2>2 DEF Opened
  <2> QED BY <2>1, <2>2, <2>3 DEF OpeningInv
<1>3. CASE Continued(fr, k)
  <2> DEFINE x == Head(todo).x
  <2>1. At("do") /\ fr.x = Tail(x)
    BY <1>3, FrameFields DEF Continued
  <2>2. \A j \in 2 .. Len(x) : x[j] \notin Opening
    BY <2>1, HeadDo DEF OpeningInv
  <2>3. /\ Len(x) \in Nat /\ Len(Tail(x)) = Len(x) - 1
        /\ \A j \in 1 .. Len(x) - 1 : Tail(x)[j] = x[j + 1]
    BY <2>1, Doer, TailScript
  <2> HIDE DEF x
  <2>4. \A j \in 1 .. Len(Tail(x)) : Tail(x)[j] \notin Opening
    <3> SUFFICES ASSUME NEW j \in 1 .. Len(Tail(x)) PROVE Tail(x)[j] \notin Opening
      OBVIOUS
    <3>1. j + 1 \in 2 .. Len(x) /\ Tail(x)[j] = x[j + 1]
      BY <2>3
    <3> QED BY <3>1, <2>2
  <2>5. \A j \in 2 .. Len(fr.x) : j \in 1 .. Len(Tail(x))
    BY <2>1, <2>3
  <2>6. ~Includes(fr.x, Opening)
    BY <2>1, <2>4 DEF Includes
  <2> QED BY <2>1, <2>4, <2>5, <2>6
<1>4. CASE k = 1 /\ Begun(fr, objs')
  BY <1>4, BegunOpened
<1>5. CASE k = 1 /\ Started(fr, objs')
  <2>1. UNCHANGED cmdstack
    BY <1>5, StartStack DEF Started
  <2>2. /\ \A j \in 2 .. Len(fr.x) : fr.x[j] \notin Opening
        /\ ~Includes(fr.x, {"run", "insert", "pop", "interactive"})
        /\ Includes(fr.x, Opening) => cmdstack # <<>> /\ fr.id = Top
    BY <1>5, StartedOpening
  <2>3. ~Includes(fr.x, {"run"}) /\ ~Includes(fr.x, {"insert"})
    BY <2>2 DEF Includes
  <2> QED BY <2>1, <2>2, <2>3, <1>5 DEF Opened, Top
<1> QED BY <1>1, <1>2, <1>3, <1>4, <1>5 DEF Origin

-----------------------------------------------------------------------------
(* The frames a step leaves in an ordinary session.                          *)

Reading == LexCommand \/ LexStops \/ LexSubshell \/ DoRun \/ LineToShell

\* What the n new frames of a step are: a script is what is left of the one at the head, or belongs to a
\* new object, or to what an event starts.
NewFrames(n) ==
  /\ \A j, k \in 1 .. n : todo'[j].f \in {"do", "pop"} /\ todo'[j].f = todo'[k].f => j = k
  /\ \A k \in 1 .. n : todo'[k].f \in {"do", "pop"} =>
       \/ At("do") /\ todo'[k].f = "do" /\ todo'[k].id = Self
       \/ todo'[k].id = NewId /\ Unused # {}
       \/ n = Len(todo')
  /\ \A k \in 2 .. n : todo'[k].f = "lex" => todo'[k - 1].f = "pop"
  /\ \A k \in 1 .. n : todo'[k].f = "lex" => Reading
  /\ \A k \in 1 .. n : todo'[k].f = "pop" => LexSubshell \/ DoRun
Shaped == \E n \in Nat, d \in Int : Frames(n, d) /\ NewFrames(n)

LEMMA SomeNew ==
  /\ NewFrames(0)
  /\ \A a : /\ todo'[1] = a /\ a.f # "pop" /\ (a.f = "lex" => Reading)
            /\ (a.f = "do" => (At("do") /\ a.id = Self) \/ (a.id = NewId /\ Unused # {}) \/ Len(todo') = 1)
            => NewFrames(1)
  /\ \A a, b : /\ todo'[1] = a /\ todo'[2] = b /\ a.f \notin {"pop", "lex"} /\ b.f \notin {"pop", "lex"}
               /\ a.f # "do" \/ b.f # "do"
               /\ \A c \in {a, b} : c.f = "do" =>
                    (At("do") /\ c.id = Self) \/ (c.id = NewId /\ Unused # {}) \/ Len(todo') = 2
               => NewFrames(2)
<1>1. NewFrames(0)
  BY DEF NewFrames
<1>2. ASSUME NEW a, todo'[1] = a, a.f # "pop", a.f = "lex" => Reading,
             a.f = "do" => (At("do") /\ a.id = Self) \/ (a.id = NewId /\ Unused # {}) \/ Len(todo') = 1
      PROVE  NewFrames(1)
  <2>1. \A k \in 1 .. 1 : k = 1
    OBVIOUS
  <2>2. \A j, k \in 1 .. 1 : j = k
    OBVIOUS
  <2>3. \A k \in 2 .. 1 : FALSE
    OBVIOUS
  <2> QED BY <1>2, <2>1, <2>2, <2>3, Zenon DEF NewFrames
<1>3. ASSUME NEW a, NEW b, todo'[1] = a, todo'[2] = b, a.f \notin {"pop", "lex"}, b.f \notin {"pop", "lex"},
             a.f # "do" \/ b.f # "do",
             \A c \in {a, b} : c.f = "do" =>
               (At("do") /\ c.id = Self) \/ (c.id = NewId /\ Unused # {}) \/ Len(todo') = 2
      PROVE  NewFrames(2)
  <2>1. \A k \in 1 .. 2 : k = 1 \/ k = 2
    OBVIOUS
  <2>2. \A k \in 2 .. 2 : k = 2
    OBVIOUS
  <2>3. \A k \in 1 .. 2 : todo'[k] \in {a, b}
    BY <2>1, <1>3
  <2>4. \A j, k \in 1 .. 2 : todo'[j].f \in {"do", "pop"} /\ todo'[j].f = todo'[k].f => j = k
    BY <2>1, <1>3
  <2>5. \A k \in 2 .. 2 : todo'[k].f = "lex" => todo'[k - 1].f = "pop"
    BY <2>2, <1>3
  <2>6. \A k \in 1 .. 2 : todo'[k].f \notin {"lex", "pop"}
    BY <2>3, <1>3
  <2>7. \A k \in 1 .. 2 : todo'[k].f = "do" =>
          (At("do") /\ todo'[k].id = Self) \/ (todo'[k].id = NewId /\ Unused # {}) \/ Len(todo') = 2
    BY <2>3, <1>3, Zenon
  <2> QED BY <2>4, <2>5, <2>6, <2>7 DEF NewFrames
<1> QED BY <1>1, <1>2, <1>3, Zenon

LEMMA SomeShaped ==
  /\ Frames(0, 1) => Shaped
  /\ Frames(1, 0) /\ NewFrames(1) => Shaped
  /\ Frames(2, -1) /\ NewFrames(2) => Shaped
  /\ Frames(3, -2) /\ NewFrames(3) => Shaped
<1>1. 0 \in Nat /\ 1 \in Nat /\ 2 \in Nat /\ 3 \in Nat /\ 1 \in Int /\ 0 \in Int /\ -1 \in Int /\ -2 \in Int
  OBVIOUS
<1> QED BY <1>1, SomeNew DEF Shaped

LEMMA FewShaped ==
  ASSUME TypeInv, todo # <<>>, NEW a, a.f \notin {"do", "pop"}, a.f = "lex" => Reading,
         Then(<<>>) \/ Then(<<a>>)
  PROVE  Shaped
<1>1. CASE Then(<<>>)
  BY <1>1, TupleFrames, SomeShaped
<1>2. CASE Then(<<a>>)
  <2>1. Frames(1, 0) /\ todo'[1] = a
    BY <1>2, TupleFrames
  <2>2. NewFrames(1)
    BY <2>1, SomeNew
  <2> QED BY <2>1, <2>2, SomeShaped
<1> QED BY <1>1, <1>2

LEMMA AfterShaped ==
  ASSUME TypeInv, At("do"), NEW a, a.f \notin {"do", "pop", "lex"},
         Then(After) \/ Then(After \o <<a>>) \/ Then(<<a>> \o After)
  PROVE  Shaped
<1> DEFINE e == Frame("do", Self, Tail(Head(todo).x))
<1>1. e.f = "do" /\ e.id = Self
  BY FrameFields
<1>2. After = <<>> \/ After = <<e>>
  BY AfterIs
<1>3. todo # <<>>
  BY DEF At
<1> HIDE DEF e
<1>4. <<>> \o <<a>> = <<a>> /\ <<a>> \o <<>> = <<a>>
  <2>1. <<a>> \in Seq({a})
    BY SmallSeqs
  <2> QED BY <2>1, ConcatEmptySeq
<1>5. \/ Then(<<>>) \/ Then(<<e>>) \/ Then(<<a>>) \/ Then(<<e, a>>) \/ Then(<<a, e>>)
  BY <1>2, <1>4, Joined
<1>6. CASE Then(<<>>) \/ Then(<<a>>)
  BY <1>3, <1>6, FewShaped
<1>7. CASE Then(<<e>>)
  <2>1. Frames(1, 0) /\ todo'[1] = e
    BY <1>3, <1>7, TupleFrames
  <2>2. NewFrames(1)
    BY <2>1, <1>1, SomeNew
  <2> QED BY <2>1, <2>2, SomeShaped
<1>8. CASE Then(<<e, a>>)
  <2>1. Frames(2, -1) /\ todo'[1] = e /\ todo'[2] = a
    BY <1>3, <1>8, TupleFrames
  <2>2. NewFrames(2)
    BY <2>1, <1>1, SomeNew
  <2> QED BY <2>1, <2>2, SomeShaped
<1>9. CASE Then(<<a, e>>)
  <2>1. Frames(2, -1) /\ todo'[1] = a /\ todo'[2] = e
    BY <1>3, <1>9, TupleFrames
  <2>2. NewFrames(2)
    BY <2>1, <1>1, SomeNew
  <2> QED BY <2>1, <2>2, SomeShaped
<1> QED BY <1>5, <1>6, <1>7, <1>8, <1>9

\* What the reactor or a Deferred calls takes the place of all there was.
LEMMA HandlerShaped ==
  ASSUME TypeInv, NEW i, NEW ops, NEW fr, fr.f \in Bottom, todo' = Script(i, ops) \o <<fr>>,
         Len(todo) <= 1 \/ (At("raise") /\ Len(todo) = 2)
  PROVE  Shaped
<1> DEFINE e == Frame("do", i, ops)
<1>1. e.f = "do" /\ fr.f \notin {"do", "pop", "lex"}
  BY FrameFields DEF Bottom
<1>2. Script(i, ops) = <<>> \/ Script(i, ops) = <<e>>
  BY DEF Script
<1> HIDE DEF e
<1>3. todo' = <<fr>> \/ todo' = <<e, fr>>
  <2>1. <<fr>> \in Seq({fr})
    BY SmallSeqs
  <2>2. <<>> \o <<fr>> = <<fr>>
    BY <2>1, ConcatEmptySeq
  <2> QED BY <1>2, <2>2, Joined
<1> DEFINE one == <<fr>>
<1> DEFINE two == <<e, fr>>
<1>4. Len(one) = 1 /\ one[1] = fr /\ Len(two) = 2 /\ two[1] = e /\ two[2] = fr
  OBVIOUS
<1>5. todo' = one \/ todo' = two
  BY <1>3
<1> HIDE DEF one, two
<1>6. CASE todo' = one
  <2>1. Len(todo') = 1 /\ todo'[1] = fr
    BY <1>6, <1>4, Zenon
  <2>2. Frames(1, 0)
    BY <2>1 DEF Frames
  <2>3. NewFrames(1)
    BY <2>1, <1>1, SomeNew
  <2> QED BY <2>2, <2>3, SomeShaped
<1>7. CASE todo' = two
  <2>1. Len(todo') = 2 /\ todo'[1] = e /\ todo'[2] = fr
    BY <1>7, <1>4, Zenon
  <2>2. Frames(2, -1)
    BY <2>1 DEF Frames
  <2>3. NewFrames(2)
    BY <2>1, <1>1, SomeNew
  <2> QED BY <2>2, <2>3, SomeShaped
<1> QED BY <1>5, <1>6, <1>7

LEMMA MethodShaped ==
  ASSUME TypeInv, cmdstack # <<>>,
         \/ LexCommand \/ LexStops \/ LexFails \/ LexEnds \/ PopShell \/ PopNothing
         \/ RunNothing \/ RunAssignment \/ RunUnknown \/ RunPipe \/ CallOnNothing \/ OutConnectionLost
         \/ DoExitAgain \/ DoFail \/ TryEnds
  PROVE  Shaped
<1> DEFINE r == Frame("raise", 0, <<>>)
<1> DEFINE n == Frame("run", Self, <<>>)
<1> DEFINE c == Frame("call", 0, Head(Pending))
<1> DEFINE o == Frame("call", pp.owner, pp.next)
<1> DEFINE l == Frame("lex", Self, <<>>)
<1> DEFINE x == NextElement
<1>1. /\ r.f = "raise" /\ n.f = "run" /\ c.f = "call" /\ o.f = "call" /\ l.f = "lex" /\ x.f = "lex"
  BY FrameFields DEF NextElement
<1>2. todo # <<>>
  BY Guards, Operations DEF At
<1>3. \/ Then(<<>>) \/ Then(<<r>>) \/ Then(<<n>>) \/ Then(<<c>>) \/ Then(<<o>>)
      \/ (Then(<<l>>) /\ LexStops) \/ (Then(<<x>>) /\ LexCommand)
  <2>1. CASE LexCommand \/ LexStops \/ LexFails \/ LexEnds \/ PopShell \/ PopNothing
    BY <2>1 DEF LexCommand, LexStops, LexFails, LexEnds, PopShell, PopNothing, Return, Raise
  <2>2. CASE RunNothing \/ RunAssignment \/ RunUnknown \/ RunPipe
    BY <2>2 DEF RunNothing, RunAssignment, RunUnknown, RunPipe, RunOrPrompt, Return
  <2>3. CASE CallOnNothing \/ OutConnectionLost \/ DoExitAgain \/ DoFail \/ TryEnds
    BY <2>3 DEF CallOnNothing, OutConnectionLost, DoExitAgain, DoFail, TryEnds, Return, Raise
  <2> QED BY <2>1, <2>2, <2>3
<1> HIDE DEF r, n, c, o, l, x
<1>4. CASE Then(<<>>) \/ Then(<<r>>)
  BY <1>1, <1>2, <1>4, FewShaped
<1>5. CASE Then(<<n>>)
  BY <1>1, <1>2, <1>5, FewShaped
<1>6. CASE Then(<<c>>)
  BY <1>1, <1>2, <1>6, FewShaped
<1>7. CASE Then(<<o>>)
  BY <1>1, <1>2, <1>7, FewShaped
<1>8. CASE Then(<<l>>) /\ LexStops
  <2>1. Reading
    BY <1>8 DEF Reading
  <2> QED BY <1>1, <1>2, <1>8, <2>1, FewShaped
<1>9. CASE Then(<<x>>) /\ LexCommand
  <2>1. Reading
    BY <1>9 DEF Reading
  <2> QED BY <1>1, <1>2, <1>9, <2>1, FewShaped
<1> QED BY <1>3, <1>4, <1>5, <1>6, <1>7, <1>8, <1>9

LEMMA CommandShaped ==
  ASSUME TypeInv,
         \/ DoWrite \/ DoExit \/ DoExitAlone \/ DoEnd \/ DoTerminal \/ DoUser \/ DoTry \/ DoEcho
         \/ DoTimer \/ DoQueue \/ DoPop \/ DoInteractive \/ DoInsert \/ DoChain
  PROVE  Shaped
<1> DEFINE r == Frame("raise", 0, <<>>)
<1> DEFINE t == Frame("try", 0, <<>>)
<1> DEFINE l == Frame("lost", 0, <<>>)
<1> DEFINE n == Frame("run", Last(cmdstack'), <<>>)
<1>1. r.f = "raise" /\ t.f = "try" /\ l.f = "lost" /\ n.f = "run"
  BY FrameFields
<1>2. At("do") /\ todo # <<>>
  BY Operations DEF At
<1>3. \/ Then(<<r>>) \/ Then(After) \/ Then(After \o <<t>>) \/ Then(<<l>> \o After) \/ Then(<<n>> \o After)
  <2>1. CASE DoWrite \/ DoExitAlone \/ DoEnd \/ DoTerminal \/ DoUser \/ DoEcho \/ DoTimer
    BY <2>1 DEF DoWrite, DoExitAlone, DoEnd, DoTerminal, DoUser, DoEcho, DoTimer, Finish
  <2>2. CASE DoPop \/ DoInteractive \/ DoInsert
    BY <2>2 DEF DoPop, DoInteractive, DoInsert, Finish
  <2>3. CASE DoExit \/ DoTry \/ DoChain
    BY <2>3 DEF DoExit, DoTry, DoChain
  <2>4. CASE DoQueue
    BY <2>4 DEF DoQueue, Finish, Raise
  <2> QED BY <2>1, <2>2, <2>3, <2>4
<1> HIDE DEF r, t, l, n
<1>4. CASE Then(<<r>>)
  BY <1>1, <1>2, <1>4, FewShaped
<1>5. CASE Then(After) \/ Then(After \o <<t>>)
  BY <1>1, <1>2, <1>5, AfterShaped
<1>6. CASE Then(<<l>> \o After)
  BY <1>1, <1>2, <1>6, AfterShaped
<1>7. CASE Then(<<n>> \o After)
  BY <1>1, <1>2, <1>7, AfterShaped
<1> QED BY <1>3, <1>4, <1>5, <1>6, <1>7

LEMMA CallShaped ==
  ASSUME TypeInv, TypeInv', CallCommand
  PROVE  Shaped
<1>1. PICK r : Calls(r)
  BY CallStep
<1> DEFINE e == Frame("do", NewId, r.do)
<1> DEFINE l == Frame("lost", 0, <<>>)
<1>2. e.f = "do" /\ e.id = NewId /\ l.f = "lost"
  BY FrameFields
<1>3. todo # <<>> /\ Unused # {}
  BY DEF CallCommand, At
<1>4. Script(NewId, r.do) = <<>> \/ Script(NewId, r.do) = <<e>>
  BY DEF Script
<1>5. Then(Script(NewId, r.do) \o <<l>>)
  BY <1>1 DEF Calls
<1> HIDE DEF e, l
<1>6. Then(<<l>>) \/ Then(<<e, l>>)
  <2>1. <<l>> \in Seq({l})
    BY SmallSeqs
  <2>2. <<>> \o <<l>> = <<l>>
    BY <2>1, ConcatEmptySeq
  <2> QED BY <1>4, <1>5, <2>2, Joined
<1>7. CASE Then(<<l>>)
  BY <1>2, <1>3, <1>7, FewShaped
<1>8. CASE Then(<<e, l>>)
  <2>1. Frames(2, -1) /\ todo'[1] = e /\ todo'[2] = l
    BY <1>3, <1>8, TupleFrames
  <2>2. NewFrames(2)
    BY <2>1, <1>2, <1>3, SomeNew
  <2> QED BY <2>1, <2>2, SomeShaped
<1> QED BY <1>6, <1>7, <1>8

\* A new shell reads a line and is popped, before what follows.
LEMMA SubshellShaped ==
  ASSUME TypeInv, LexSubshell \/ DoRun
  PROVE  Shaped
<1> DEFINE a == Frame("lex", NewId, IF LexSubshell THEN <<[do |-> "add", cmds |-> Element.cmds]>> ELSE objs[Self].sub)
<1> DEFINE b == Frame("pop", NewId, <<>>)
<1> DEFINE x == NextElement
<1> DEFINE e == Frame("do", Self, Tail(Head(todo).x))
<1>1. a.f = "lex" /\ b.f = "pop" /\ b.id = NewId /\ x.f = "lex" /\ e.f = "do" /\ e.id = Self
  BY FrameFields DEF NextElement
<1>2. todo # <<>> /\ Unused # {} /\ Reading
  BY DEF LexSubshell, DoRun, Reads, Doing, At, Reading
<1>3. After = <<>> \/ After = <<e>>
  BY AfterIs
<1>4. DoRun => At("do") /\ ~LexSubshell
  BY OneGuard DEF DoRun, Doing, LexSubshell, Reads
<1>5. (LexSubshell /\ Then(<<a, b, x>>)) \/ (At("do") /\ Then(<<a, b>> \o After))
  BY <1>4 DEF LexSubshell, DoRun
<1> HIDE DEF a, b, x, e
<1>6. \/ Then(<<a, b, x>>) \/ Then(<<a, b>>) \/ (At("do") /\ Then(<<a, b, e>>))
  BY <1>3, <1>5, Joined
<1>7. CASE Then(<<a, b>>)
  <2>1. Frames(2, -1) /\ todo'[1] = a /\ todo'[2] = b
    BY <1>2, <1>7, TupleFrames
  <2>2. \A k \in 1 .. 2 : k = 1 \/ k = 2
    OBVIOUS
  <2>3. \A k \in 2 .. 2 : k = 2
    OBVIOUS
  <2>4. NewFrames(2)
    BY <2>1, <2>2, <2>3, <1>1, <1>2, Zenon DEF NewFrames
  <2> QED BY <2>1, <2>4, SomeShaped
<1>8. CASE Then(<<a, b, x>>) \/ (At("do") /\ Then(<<a, b, e>>))
  <2>1. /\ Frames(3, -2) /\ todo'[1] = a /\ todo'[2] = b
        /\ todo'[3] = x \/ (At("do") /\ todo'[3] = e)
    BY <1>2, <1>8, TupleFrames
  <2>2. \A k \in 1 .. 3 : k = 1 \/ k = 2 \/ k = 3
    OBVIOUS
  <2>3. \A k \in 2 .. 3 : k = 2 \/ k = 3
    OBVIOUS
  <2>4. \A j, k \in 1 .. 3 : todo'[j].f \in {"do", "pop"} /\ todo'[j].f = todo'[k].f => j = k
    BY <2>1, <2>2, <1>1
  <2>5. \A k \in 1 .. 3 : todo'[k].f \in {"do", "pop"} =>
          (At("do") /\ todo'[k].f = "do" /\ todo'[k].id = Self) \/ (todo'[k].id = NewId /\ Unused # {})
    BY <2>1, <2>2, <1>1, <1>2
  <2>6. \A k \in 2 .. 3 : todo'[k].f = "lex" => todo'[k - 1].f = "pop"
    BY <2>1, <2>3, <1>1
  <2>7. NewFrames(3)
    BY <2>4, <2>5, <2>6, <1>2, Zenon DEF NewFrames
  <2> QED BY <2>1, <2>7, SomeShaped
<1> QED BY <1>6, <1>7, <1>8

LEMMA EventShaped ==
  ASSUME TypeInv, cmdstack # <<>>, Ordinary',
         \/ LineToShell \/ LineToCommand \/ LineDiscarded \/ ControlKey \/ CtrlCToShell \/ CtrlDToShell
         \/ EofOrTimeout \/ Disconnect \/ \E i \in Ids : Fires(i)
  PROVE  Shaped
<1>1. todo = <<>> /\ Len(todo) = 0
  <2>1. todo = <<>>
    BY Guards DEF Idle
  <2>2. Len(<<>>) = 0
    OBVIOUS
  <2> QED BY <2>1, <2>2
<1>2. conn' = "open"
  BY DEF Ordinary
<1>3. ASSUME LineDiscarded \/ CtrlDToShell \/ EofOrTimeout \/ Disconnect PROVE FALSE
  <2>1. ~LineDiscarded
    BY DEF LineDiscarded
  <2>2. conn' \in {"closing", "closed", ProcessEnded}
    BY <1>3, <2>1 DEF CtrlDToShell, EofOrTimeout, Disconnect, ConnectionLost
  <2>3. ProcessEnded # "open"
    BY DEF ProcessEnded
  <2> QED BY <1>2, <2>2, <2>3
<1>4. CASE LineToShell
  <2>1. PICK line : todo' = <<Frame("lex", Top, line), Frame("input", 0, <<>>)>>
    BY <1>4 DEF LineToShell
  <2> DEFINE a == Frame("lex", Top, line)
  <2> DEFINE b == Frame("input", 0, <<>>)
  <2> DEFINE t == <<a, b>>
  <2>2. Reading /\ a.f = "lex" /\ b.f = "input"
    BY <1>4, FrameFields DEF Reading
  <2>3. todo' = t
    BY <2>1
  <2> HIDE DEF a, b
  <2>4. Len(t) = 2 /\ t[1] = a /\ t[2] = b
    OBVIOUS
  <2> HIDE DEF t
  <2>5. Len(todo') = 2 /\ todo'[1] = a /\ todo'[2] = b
    BY <2>3, <2>4, Zenon
  <2>6. Frames(2, -1)
    BY <1>1, <2>5 DEF Frames
  <2>7. \A k \in 1 .. 2 : k = 1 \/ k = 2
    OBVIOUS
  <2>8. \A k \in 2 .. 2 : k = 2
    OBVIOUS
  <2>9. NewFrames(2)
    BY <2>2, <2>5, <2>7, <2>8 DEF NewFrames
  <2> QED BY <2>6, <2>9, SomeShaped
<1>5. CASE CtrlCToShell
  <2>1. todo' = todo
    BY <1>5 DEF CtrlCToShell
  <2>2. Len(todo') = 0
    BY <2>1, <1>1
  <2>3. Frames(0, 1)
    BY <1>1, <2>2 DEF Frames
  <2> QED BY <2>3, SomeShaped
<1>6. CASE LineToCommand \/ ControlKey
  <2>1. PICK i, ops, id, line : todo' = Script(i, ops) \o <<Frame("input", id, line)>>
    BY <1>6 DEF LineToCommand, ControlKey, Key
  <2>2. Frame("input", id, line).f \in Bottom
    BY FrameFields DEF Bottom
  <2> QED BY <1>1, <2>1, <2>2, HandlerShaped
<1>7. CASE \E i \in Ids : Fires(i)
  <2>1. PICK i \in Ids : Fires(i)
    BY <1>7
  <2>2. PICK ops, f : f \in {"later", "deferred"} /\ todo' = Script(i, ops) \o <<Frame(f, i, <<>>)>>
    BY <2>1 DEF Fires
  <2>3. Frame(f, i, <<>>).f \in Bottom
    BY <2>2, FrameFields DEF Bottom
  <2> QED BY <1>1, <2>2, <2>3, HandlerShaped
<1> QED BY <1>3, <1>4, <1>5, <1>6, <1>7

LEMMA RaiseShaped ==
  ASSUME TypeInv, Ordinary', Propagate \/ SyntaxError \/ Swallowed \/ Errback \/ Logged \/ Dropped
  PROVE  Shaped
<1>1. ~raised'
  BY DEF Ordinary
<1>2. Swallowed \/ Errback
  BY <1>1 DEF Propagate, SyntaxError, Logged, Dropped
<1>3. CASE Swallowed
  <2>1. At("raise") /\ Rest # <<>> /\ Head(Rest).f = "try" /\ todo' = Tail(Rest)
    BY <1>3 DEF Swallowed, Thrown
  <2>2. FramesOK(Rest, objs) /\ Len(Rest) = Len(todo) - 1 /\ Len(todo) \in Nat
        /\ \A k \in 1 .. Len(Rest) : Rest[k] = todo[k + 1]
    BY <2>1, Below
  <2>3. /\ Len(Rest) \in Nat /\ Len(Rest) > 0 /\ Len(Tail(Rest)) = Len(Rest) - 1
        /\ \A k \in 1 .. Len(Rest) - 1 : Tail(Rest)[k] = Rest[k + 1]
    BY <2>1, <2>2, HeadFrame
  <2> DEFINE R == Rest
  <2> DEFINE T == todo'
  <2>4. /\ Len(R) \in Nat /\ Len(R) > 0 /\ Len(T) = Len(R) - 1 /\ Len(R) = Len(todo) - 1 /\ Len(todo) \in Nat
        /\ \A k \in 1 .. Len(R) - 1 : T[k] = R[k + 1]
        /\ \A k \in 1 .. Len(R) : R[k] = todo[k + 1]
    BY <2>1, <2>2, <2>3
  <2> HIDE DEF R, T
  <2>5. \A k \in 1 .. Len(T) : k + 2 \in 2 .. Len(todo) /\ T[k] = todo[k + 2]
    <3> SUFFICES ASSUME NEW k \in 1 .. Len(T) PROVE k + 2 \in 2 .. Len(todo) /\ T[k] = todo[k + 2]
      OBVIOUS
    <3>1. k \in 1 .. Len(R) - 1 /\ k + 1 \in 1 .. Len(R) /\ (k + 1) + 1 = k + 2
      BY <2>4
    <3> QED BY <2>4, <3>1
  <2>6. Frames(0, 2)
    BY <1>3, <2>4, <2>5 DEF Frames, T
  <2>7. 0 \in Nat /\ 2 \in Int
    OBVIOUS
  <2> QED BY <2>6, <2>7, SomeNew DEF Shaped
<1>4. CASE Errback
  <2>1. At("raise") /\ Rest # <<>> /\ Head(Rest).f = "deferred"
    BY <1>4 DEF Errback, Thrown
  <2>2. PICK i, ops : todo' = Script(i, ops) \o <<Frame("later", i, <<>>)>>
    BY <1>4 DEF Errback
  <2>3. Frame("later", i, <<>>).f \in Bottom /\ Head(Rest).f \in Bottom
    BY <2>1, FrameFields DEF Bottom
  <2>4. FramesOK(Rest, objs) /\ Tail(Rest) = <<>> /\ Len(Rest) = Len(todo) - 1 /\ Len(todo) \in Nat
    BY <2>1, <2>3, Below
  <2>5. Len(Tail(Rest)) = Len(Rest) - 1 /\ Len(Rest) \in Nat
    BY <2>1, <2>4, HeadFrame
  <2>6. Len(<<>>) = 0
    OBVIOUS
  <2>7. Len(Tail(Rest)) = 0
    BY <2>4, <2>6, Zenon
  <2>8. Len(todo) = 2
    <3>1. Len(Rest) - 1 = 0
      BY <2>5, <2>7, Zenon
    <3>2. Len(Rest) = Len(todo) - 1 /\ Len(todo) \in Nat /\ Len(Rest) \in Nat
      BY <2>4, <2>5, Zenon
    <3> QED BY <3>1, <3>2
  <2> QED BY <2>1, <2>2, <2>3, <2>8, HandlerShaped
<1> QED BY <1>2, <1>3, <1>4

LEMMA Shape ==
  ASSUME TypeInv, TypeInv', Next, Ordinary', cmdstack # <<>>
  PROVE  Shaped
<1>1. ASSUME ToReactor PROVE Shaped
  <2>1. todo # <<>> /\ Then(<<>>)
    BY <1>1, Guards DEF ToReactor, Return
  <2> QED BY <2>1, TupleFrames, SomeShaped
<1> QED BY <1>1, MethodShaped, CommandShaped, CallShaped, SubshellShaped, EventShaped, RaiseShaped DEF Next, Step

-----------------------------------------------------------------------------
(* Each script, and each shell that is to be popped, has one frame; what a   *)
(* shell reads comes right after the frame of the shell that is popped first. *)

OnceInv ==
  Ordinary => \A j, k \in 1 .. Len(todo) :
    todo[j].f \in {"do", "pop"} /\ todo[j].f = todo[k].f /\ todo[j].id = todo[k].id => j = k
LexInv ==
  Ordinary =>
    /\ \A k \in 2 .. Len(todo) : todo[k].f = "lex" => todo[k - 1].f = "pop"
    /\ At("lex") => cmdstack # <<>> /\ Last(cmdstack) = Self

\* A shell that is not interactive reads a part of a line for what is right below it, and is popped.
Nested(i) ==
  \E k \in 1 .. Len(todo) - 1 :
    /\ todo[k].f = "pop" /\ todo[k].id = i
    /\ todo[k + 1].f \in {"lex", "do"} /\ Above(cmdstack, todo[k + 1].id, i)
NestInv ==
  Ordinary =>
    /\ \A k \in 1 .. Len(todo) : todo[k].f = "pop" => ~objs[todo[k].id].inter
    /\ \A i \in ToSet(cmdstack) : IsShell(i) /\ ~objs[i].inter => Nested(i)
GroundInv == Ordinary => cmdstack # <<>> /\ IsShell(cmdstack[1])

LEMMA PushAbove ==
  ASSUME NEW s \in Seq(Ids), NEW i \in Ids
  PROVE  /\ \A a, b : Above(s, a, b) => Above(Append(s, i), a, b)
         /\ s # <<>> => Above(Append(s, i), Last(s), i)
<1> DEFINE r == Append(s, i)
<1>1. /\ Len(r) = Len(s) + 1 /\ Len(s) \in Nat /\ r[Len(s) + 1] = i
      /\ \A k \in 1 .. Len(s) : r[k] = s[k]
      /\ s # <<>> => Len(s) > 0 /\ Last(s) = s[Len(s)]
  BY AppendProperties, EmptySeq DEF Last
<1> HIDE DEF r
<1>2. ASSUME NEW a, NEW b, Above(s, a, b) PROVE Above(r, a, b)
  <2>1. PICK p \in 1 .. Len(s) - 1 : s[p] = a /\ s[p + 1] = b
    BY <1>2 DEF Above
  <2>2. p \in 1 .. Len(r) - 1 /\ p \in 1 .. Len(s) /\ p + 1 \in 1 .. Len(s)
    BY <1>1
  <2>3. r[p] = a /\ r[p + 1] = b
    BY <1>1, <2>1, <2>2
  <2> QED BY <2>2, <2>3 DEF Above
<1>3. ASSUME s # <<>> PROVE Above(r, Last(s), i)
  <2>1. Len(s) \in 1 .. Len(r) - 1 /\ r[Len(s)] = Last(s) /\ r[Len(s) + 1] = i
    BY <1>1, <1>3
  <2> QED BY <2>1 DEF Above
<1> QED BY <1>2, <1>3 DEF r

LEMMA AboveLast ==
  ASSUME NEW s \in Seq(Ids), IsInjective(s), NEW a, Above(s, a, Last(s))
  PROVE  Len(s) > 1 /\ Front(s) # <<>> /\ Last(Front(s)) = a /\ s[1] # Last(s)
<1>1. PICK p \in 1 .. Len(s) - 1 : s[p] = a /\ s[p + 1] = Last(s)
  BY DEF Above
<1>2. Len(s) \in Nat /\ Len(s) > 1 /\ p + 1 \in 1 .. Len(s) /\ Len(s) \in 1 .. Len(s) /\ DOMAIN s = 1 .. Len(s)
  BY <1>1
<1>3. p = Len(s) - 1
  <2>1. p + 1 = Len(s)
    BY <1>1, <1>2 DEF IsInjective, Last
  <2> QED BY <2>1, <1>2
<1>4. /\ Front(s) \in Seq(Ids) /\ Len(Front(s)) = Len(s) - 1
      /\ \A k \in 1 .. Len(s) - 1 : Front(s)[k] = s[k]
  <2>1. /\ SubSeq(s, 1, Len(s) - 1) \in Seq(Ids) /\ Len(SubSeq(s, 1, Len(s) - 1)) = Len(s) - 1
        /\ \A k \in 1 .. Len(s) - 1 : SubSeq(s, 1, Len(s) - 1)[k] = s[k]
    BY <1>2, SubSeqProperties
  <2> QED BY <2>1 DEF Front
<1>5. Last(Front(s)) = a
  <2>1. Len(Front(s)) \in 1 .. Len(s) - 1
    BY <1>2, <1>4
  <2> QED BY <2>1, <1>1, <1>3, <1>4 DEF Last
<1>6. Front(s) # <<>>
  BY <1>2, <1>4, EmptySeq
<1>7. s[1] # Last(s)
  BY <1>2 DEF IsInjective, Last
<1> QED BY <1>2, <1>5, <1>6, <1>7

\* Popping takes the frame, and nothing else.
LEMMA ShapeOfPop ==
  ASSUME TypeInv, TypeInv', Next, Ordinary', cmdstack # <<>>
  PROVE  \E n \in Nat, d \in Int :
           Frames(n, d) /\ NewFrames(n) /\ (PopShell => n = 0 /\ d = 1) /\ (Swallowed => n = 0 /\ d = 2)
<1>1. CASE PopShell
  <2>1. todo # <<>> /\ Then(<<>>)
    BY <1>1 DEF PopShell, At, Return
  <2>2. Frames(0, 1)
    BY <2>1, TupleFrames
  <2>3. 0 \in Nat /\ 1 \in Int /\ ~Swallowed
    BY <1>1, Guards, OneGuard
  <2> QED BY <2>2, <2>3, SomeNew
<1>2. CASE ~PopShell /\ Swallowed
  <2>1. PICK n \in Nat, d \in Int : Frames(n, d) /\ NewFrames(n)
    BY Shape DEF Shaped
  <2>2. At("raise") /\ Rest # <<>> /\ todo' = Tail(Rest) /\ Head(Rest).f = "try"
    BY <1>2 DEF Swallowed, Thrown
  <2>3. FramesOK(Rest, objs) /\ Len(Rest) = Len(todo) - 1 /\ Len(todo) \in Nat /\ Tail(Rest) # <<>>
    <3>1. "try" \notin Bottom
      BY DEF Bottom
    <3> QED BY <3>1, <2>2, Below
  <2>4. Len(Tail(Rest)) = Len(Rest) - 1 /\ Len(Rest) > 0 /\ Len(Rest) \in Nat
    BY <2>2, <2>3, HeadFrame
  <2>5. Len(todo') = Len(todo) - 2 /\ Len(todo') > 0 /\ Len(todo) > 2
    <3>1. Tail(Rest) \in Seq(FrameType)
      BY <2>2, <2>3, HeadFrame
    <3>2. Len(Tail(Rest)) # 0 /\ Len(Tail(Rest)) \in Nat
      BY <3>1, <2>3, EmptySeq
    <3> QED BY <3>2, <2>2, <2>3, <2>4
  <2>6. n = 0 /\ d = 2
    <3>1. n \in Nat /\ d \in Int /\ n \in 0 .. Len(todo') /\ (n + d = 1 \/ (n = 0 /\ d = 2))
          /\ (Len(todo') + d = Len(todo) \/ (n = Len(todo') /\ (Len(todo) <= 1 \/ Len(todo) = 2)))
      BY <2>1 DEF Frames
    <3>2. Len(todo') + d = Len(todo)
      BY <3>1, <2>3, <2>5
    <3> QED BY <3>1, <3>2, <2>3, <2>5
  <2> QED BY <2>1, <2>6, <1>2
<1>3. CASE ~PopShell /\ ~Swallowed
  BY <1>3, Shape DEF Shaped
<1> QED BY <1>1, <1>2, <1>3

LEMMA OnceNext == TypeInv /\ TypeInv' /\ GroundInv /\ OnceInv /\ Next => OnceInv'
<1> SUFFICES ASSUME TypeInv, TypeInv', GroundInv, OnceInv, Next, Ordinary',
                    NEW j \in 1 .. Len(todo'), NEW k \in 1 .. Len(todo'), j <= k,
                    todo'[j].f \in {"do", "pop"}, todo'[j].f = todo'[k].f, todo'[j].id = todo'[k].id
             PROVE  j = k
  <2>1. \A j, k \in 1 .. Len(todo') : j <= k \/ k <= j
    OBVIOUS
  <2> QED BY <2>1 DEF OnceInv
<1>1. Ordinary
  BY OrdinaryBefore
<1>2. PICK n \in Nat, d \in Int : Frames(n, d) /\ NewFrames(n)
  BY <1>1, Shape DEF Shaped, GroundInv
<1>3. CASE k <= n
  <2>1. j \in 1 .. n /\ k \in 1 .. n
    BY <1>3
  <2> QED BY <2>1, <1>2 DEF NewFrames
<1>4. CASE k > n
  <2>1. k \in n + 1 .. Len(todo')
    BY <1>4
  <2>2. k + d \in 2 .. Len(todo) /\ todo'[k] = todo[k + d]
    BY <2>1, <1>2 DEF Frames
  <2>3. CASE j > n
    <3>1. j \in n + 1 .. Len(todo')
      BY <2>3
    <3>2. j + d \in 2 .. Len(todo) /\ todo'[j] = todo[j + d]
      BY <3>1, <1>2 DEF Frames
    <3>3. j + d \in 1 .. Len(todo) /\ k + d \in 1 .. Len(todo)
      BY <2>2, <3>2
    <3>4. j + d = k + d
      BY <2>2, <3>2, <3>3, <1>1 DEF OnceInv
    <3> QED BY <3>4
  <2>4. CASE j <= n
    <3>1. j \in 1 .. n /\ n # Len(todo')
      BY <2>4, <1>4
    <3>2. \/ At("do") /\ todo'[j].f = "do" /\ todo'[j].id = Self
          \/ todo'[j].id = NewId /\ Unused # {}
      BY <3>1, <1>2 DEF NewFrames
    <3>3. k + d \in 1 .. Len(todo) /\ 1 \in 1 .. Len(todo) /\ k + d # 1
      BY <2>2
    <3>4. CASE At("do") /\ todo'[j].f = "do" /\ todo'[j].id = Self
      <4>1. todo[1].f = "do" /\ todo[1].id = Self
        BY <3>4, HeadDo
      <4> QED BY <4>1, <2>2, <3>3, <3>4, <1>1 DEF OnceInv
    <3>5. CASE todo'[j].id = NewId /\ Unused # {}
      <4>1. DOMAIN todo = 1 .. Len(todo)
        BY LenProperties DEF TypeInv, FramesOK
      <4> QED BY <4>1, <2>2, <3>3, <3>5, FreshId
    <3> QED BY <3>2, <3>4, <3>5
  <2> QED BY <2>3, <2>4
<1> QED BY <1>3, <1>4

\* The shell that is popped had something below it, which goes on next.
LEMMA PopBelow ==
  ASSUME TypeInv, Ordinary, OnceInv, NestInv, PopShell, ~(stray')
  PROVE  /\ Len(todo) > 1 /\ todo[2].f \in {"lex", "do"} /\ ~objs[Self].inter /\ Self = Top
         /\ Len(cmdstack) > 1 /\ cmdstack' # <<>> /\ Last(cmdstack') = todo[2].id /\ cmdstack[1] # Top
         /\ cmdstack' = Front(cmdstack) /\ Without(cmdstack, cmdstack', Top)
<1>1. /\ At("pop") /\ cmdstack # <<>> /\ Last(cmdstack) = Self /\ cmdstack' = Front(cmdstack)
  BY DEF PopShell
<1>2. /\ todo # <<>> /\ todo[1] = Head(todo) /\ 1 \in 1 .. Len(todo) /\ todo[1].f = "pop" /\ todo[1].id = Self
      /\ Self \in Ids /\ IsShell(Self)
  BY <1>1, HeadFrame, Running DEF At, TypeInv, Self
<1>3. Self \in ToSet(cmdstack) /\ Self = Top
  BY <1>1, StackTop DEF Top
<1>4. ~objs[Self].inter
  BY <1>2 DEF NestInv
<1>5. Nested(Self)
  BY <1>2, <1>3, <1>4 DEF NestInv
<1>6. PICK k \in 1 .. Len(todo) - 1 :
        /\ todo[k].f = "pop" /\ todo[k].id = Self
        /\ todo[k + 1].f \in {"lex", "do"} /\ Above(cmdstack, todo[k + 1].id, Self)
  BY <1>5 DEF Nested
<1>7. Len(todo) \in Nat
  BY <1>2, HeadFrame DEF TypeInv
<1>8. k = 1
  <2>1. k \in 1 .. Len(todo)
    BY <1>7
  <2> QED BY <2>1, <1>2, <1>6 DEF OnceInv
<1>9. todo[2].f \in {"lex", "do"} /\ Above(cmdstack, todo[2].id, Last(cmdstack)) /\ Len(todo) > 1
  <2>1. k + 1 = 2 /\ Len(todo) > 1
    BY <1>7, <1>8
  <2> QED BY <2>1, <1>1, <1>6
<1>10. /\ Len(cmdstack) > 1 /\ Front(cmdstack) # <<>> /\ Last(Front(cmdstack)) = todo[2].id
       /\ cmdstack[1] # Last(cmdstack)
  BY <1>9, StackFacts, AboveLast
<1>11. Without(cmdstack, Front(cmdstack), Last(cmdstack))
  BY <1>1, StackFacts, FrontStack
<1> QED BY <1>1, <1>3, <1>4, <1>9, <1>10, <1>11 DEF Top

LEMMA HeadOf ==
  ASSUME TypeInv, todo # <<>>
  PROVE  1 \in 1 .. Len(todo) /\ todo[1] = Head(todo) /\ todo[1].id = Self /\ Len(todo) \in Nat
         /\ \A f : At(f) <=> todo[1].f = f
BY HeadFrame DEF TypeInv, At, Self

LEMMA PopsNext ==
  ASSUME Next, At("pop")
  PROVE  PopShell \/ PopNothing
<1>1. /\ ~At("lex") /\ ~At("call") /\ ~At("run") /\ ~At("do") /\ ~At("lost") /\ ~At("raise") /\ ~At("try")
      /\ ~Idle /\ ~(Head(todo).f \in Bottom)
  BY DEF At, Idle, Bottom
<1> QED BY <1>1, Guards, Operations DEF Next, Step

LEMMA ReadingNext ==
  ASSUME TypeInv, TypeInv', LexInv, Ordinary, Reading
  PROVE  todo' # <<>> /\ cmdstack' # <<>> /\ Last(cmdstack') = Head(todo').id
<1>1. CASE LexCommand \/ LexStops
  <2> DEFINE fr == IF LexCommand THEN NextElement ELSE Frame("lex", Self, <<>>)
  <2>1. At("lex") /\ todo # <<>> /\ cmdstack' = cmdstack /\ Then(<<fr>>)
    BY <1>1 DEF LexCommand, LexStops, Reads, At
  <2>2. fr.id = Self
    BY FrameFields DEF NextElement
  <2> HIDE DEF fr
  <2>3. Frames(1, 0) /\ todo'[1] = fr
    BY <2>1, TupleFrames
  <2>4. Len(todo') > 0
    BY <2>3 DEF Frames
  <2>5. todo' # <<>>
    <3>1. Len(<<>>) = 0
      OBVIOUS
    <3> QED BY <3>1, <2>4
  <2>6. Head(todo') = fr
    BY <2>3, <2>5, HeadNext
  <2> QED BY <2>1, <2>2, <2>5, <2>6 DEF LexInv
<1>2. CASE LexSubshell \/ DoRun
  <2>1. Unused # {} /\ cmdstack' = Append(cmdstack, NewId) /\ todo # <<>>
    BY <1>2 DEF LexSubshell, DoRun, Reads, Doing, At
  <2>2. cmdstack' # <<>> /\ Last(cmdstack') = NewId
    BY <2>1, StackFacts, FreshId, PushStack
  <2>3. todo' # <<>> /\ Head(todo').id = NewId
    <3> DEFINE a == Frame("lex", NewId, IF LexSubshell THEN <<[do |-> "add", cmds |-> Element.cmds]>>
                                        ELSE objs[Self].sub)
    <3> DEFINE b == Frame("pop", NewId, <<>>)
    <3> DEFINE x == NextElement
    <3> DEFINE e == Frame("do", Self, Tail(Head(todo).x))
    <3>1. After = <<>> \/ After = <<e>>
      BY AfterIs
    <3>2. DoRun => ~LexSubshell
      BY OneGuard DEF DoRun, Doing, LexSubshell, Reads
    <3>3. Then(<<a, b, x>>) \/ Then(<<a, b>> \o After)
      BY <1>2, <3>2 DEF LexSubshell, DoRun
    <3>4. a.id = NewId
      BY FrameFields
    <3> HIDE DEF a, b, x, e
    <3>5. Then(<<a, b, x>>) \/ Then(<<a, b>>) \/ Then(<<a, b, e>>)
      BY <3>1, <3>3, Joined
    <3>6. todo'[1] = a /\ (Frames(3, -2) \/ Frames(2, -1))
      BY <3>5, <2>1, TupleFrames
    <3>7. Len(todo') > 0
      BY <3>6 DEF Frames
    <3>8. todo' # <<>>
      <4>1. Len(<<>>) = 0
        OBVIOUS
      <4> QED BY <4>1, <3>7
    <3> QED BY <3>4, <3>6, <3>8, HeadNext
  <2> QED BY <2>2, <2>3
<1>3. CASE LineToShell
  <2>1. PICK line : todo' = <<Frame("lex", Top, line), Frame("input", 0, <<>>)>>
    BY <1>3 DEF LineToShell
  <2>2. Head(todo') = Frame("lex", Top, line) /\ todo' # <<>>
    <3> DEFINE a == Frame("lex", Top, line)
    <3> DEFINE b == Frame("input", 0, <<>>)
    <3> DEFINE t == <<a, b>>
    <3>1. todo' = t
      BY <2>1
    <3> HIDE DEF a, b
    <3>2. t # <<>> /\ Head(t) = a
      BY HeadOfTwo
    <3> HIDE DEF t
    <3> QED BY <3>1, <3>2 DEF a
  <2>3. cmdstack' = cmdstack /\ cmdstack # <<>>
    BY <1>3 DEF LineToShell
  <2> QED BY <2>2, <2>3, FrameFields DEF Top
<1> QED BY <1>1, <1>2, <1>3 DEF Reading

LEMMA LexNext == TypeInv /\ TypeInv' /\ GroundInv /\ OnceInv /\ LexInv /\ NestInv /\ Next => LexInv'
<1> SUFFICES ASSUME TypeInv, TypeInv', GroundInv, OnceInv, LexInv, NestInv, Next, Ordinary'
             PROVE  /\ \A k \in 2 .. Len(todo') : todo'[k].f = "lex" => todo'[k - 1].f = "pop"
                    /\ At("lex")' => cmdstack' # <<>> /\ Last(cmdstack') = Self'
  BY DEF LexInv
<1>1. Ordinary /\ cmdstack # <<>>
  BY OrdinaryBefore DEF GroundInv
<1>2. PICK n \in Nat, d \in Int :
        Frames(n, d) /\ NewFrames(n) /\ (PopShell => n = 0 /\ d = 1) /\ (Swallowed => n = 0 /\ d = 2)
  BY <1>1, ShapeOfPop
<1>3. todo = <<>> => Len(todo) = 0
  OBVIOUS
<1>4. Len(todo) \in Nat
  BY LenProperties DEF TypeInv, FramesOK
\* A shell's frame comes after that of the one that is popped.
<1>5. ASSUME NEW k \in 2 .. Len(todo'), todo'[k].f = "lex" PROVE todo'[k - 1].f = "pop"
  <2>1. CASE k <= n
    <3>1. k \in 2 .. n
      BY <2>1
    <3> QED BY <3>1, <1>2, <1>5 DEF NewFrames
  <2>2. CASE k > n
    <3>1. k \in n + 1 .. Len(todo')
      BY <2>2
    <3>2. k + d \in 2 .. Len(todo) /\ todo[k + d].f = "lex"
      BY <3>1, <1>2, <1>5 DEF Frames
    <3>3. todo[k + d - 1].f = "pop"
      BY <3>2, <1>1 DEF LexInv
    <3>4. CASE k > n + 1
      <4>1. k - 1 \in n + 1 .. Len(todo') /\ (k - 1) + d = k + d - 1
        BY <3>4
      <4>2. todo'[k - 1] = todo[(k - 1) + d]
        BY <4>1, <1>2 DEF Frames
      <4> QED BY <4>1, <4>2, <3>3
    <3>5. CASE k = n + 1
      <4>1. n > 0 /\ ~PopShell /\ ~Swallowed
        BY <3>5, <1>2
      <4>2. n + d = 1
        BY <4>1, <1>2 DEF Frames
      <4>3. todo[1].f = "pop"
        <5>1. k + d - 1 = 1
          BY <4>2, <3>5
        <5> QED BY <5>1, <3>3
      <4>4. At("pop")
        <5>1. todo # <<>>
          BY <3>2, <1>3, <1>4
        <5> QED BY <5>1, <4>3, HeadOf
      <4>5. PopShell \/ PopNothing
        BY <4>4, PopsNext
      <4> QED BY <4>1, <4>5, <1>1 DEF PopNothing
    <3> QED BY <3>4, <3>5, <2>2
  <2> QED BY <2>1, <2>2
\* What a shell reads is for the top of the stack.
<1>6. ASSUME At("lex")' PROVE cmdstack' # <<>> /\ Last(cmdstack') = Self'
  <2>1. todo' # <<>> /\ todo'[1].f = "lex" /\ 1 \in 1 .. Len(todo') /\ Self' = todo'[1].id /\ Self' = Head(todo').id
    BY <1>6, HeadNext DEF At, Self
  <2>2. CASE Reading
    BY <2>1, <2>2, <1>1, ReadingNext
  <2>3. CASE ~Reading
    <3>1. n = 0
      <4>1. n >= 1 => 1 \in 1 .. n
        OBVIOUS
      <4>2. ~(n >= 1)
        BY <4>1, <2>1, <2>3, <1>2 DEF NewFrames
      <4> QED BY <4>2
    <3>2. 1 \in n + 1 .. Len(todo')
      BY <3>1, <2>1
    <3>3. 1 + d \in 2 .. Len(todo) /\ todo'[1] = todo[1 + d]
      BY <3>2, <1>2 DEF Frames
    <3>4. todo[1 + d - 1].f = "pop"
      BY <3>3, <2>1, <1>1 DEF LexInv
    <3>5. d = 1 \/ (Swallowed /\ d = 2)
      BY <3>1, <1>2 DEF Frames
    <3>6. CASE Swallowed /\ d = 2
      <4>1. At("raise") /\ Rest # <<>> /\ Head(Rest).f = "try"
        BY <3>6 DEF Swallowed, Thrown
      <4>2. Head(Rest) = todo[2] /\ 1 + d - 1 = 2
        BY <4>1, <3>6, Below
      <4> QED BY <4>1, <4>2, <3>4
    <3>7. CASE d = 1
      <4>1. todo[1].f = "pop" /\ todo'[1] = todo[2]
        <5>1. 1 + d - 1 = 1 /\ 1 + d = 2
          BY <3>7
        <5> QED BY <5>1, <3>3, <3>4
      <4>2. At("pop")
        <5>1. todo # <<>>
          BY <3>3, <1>3, <1>4
        <5> QED BY <5>1, <4>1, HeadOf
      <4>3. PopShell
        <5>1. PopShell \/ PopNothing
          BY <4>2, PopsNext
        <5> QED BY <5>1, <1>1 DEF PopNothing
      <4>4. ~(stray')
        BY DEF Ordinary
      <4>5. cmdstack' # <<>> /\ Last(cmdstack') = todo[2].id
        BY <4>3, <4>4, <1>1, PopBelow
      <4> QED BY <4>1, <4>5, <2>1
    <3> QED BY <3>5, <3>6, <3>7
  <2> QED BY <2>2, <2>3
<1> QED BY <1>5, <1>6

LEMMA SubshellFrames ==
  ASSUME TypeInv, OpeningInv, LexSubshell \/ DoRun
  PROVE  /\ Frames(3, -2) /\ todo'[1].f = "lex" /\ todo'[2].f = "pop" /\ todo'[2].id = NewId
         /\ todo'[3].f \in {"lex", "do"} /\ todo'[3].id = Self
         /\ DoRun => cmdstack # <<>> /\ Self = Last(cmdstack)
<1> DEFINE a == Frame("lex", NewId, IF LexSubshell THEN <<[do |-> "add", cmds |-> Element.cmds]>> ELSE objs[Self].sub)
<1> DEFINE b == Frame("pop", NewId, <<>>)
<1> DEFINE x == NextElement
<1> DEFINE e == Frame("do", Self, Tail(Head(todo).x))
<1>1. /\ a.f = "lex" /\ b.f = "pop" /\ b.id = NewId
      /\ x.f = "lex" /\ x.id = Self /\ e.f = "do" /\ e.id = Self
  BY FrameFields DEF NextElement
<1>2. todo # <<>>
  BY DEF LexSubshell, DoRun, Reads, Doing, At
<1>3. ASSUME DoRun PROVE After = <<e>> /\ cmdstack # <<>> /\ Self = Last(cmdstack)
  <2>1. At("do") /\ Head(Head(todo).x) = "run"
    BY <1>3 DEF DoRun, Doing
  <2>2. Head(todo).x # <<>> /\ ScriptOK(objs[Self].cls, Head(todo).x)
    BY <2>1, Doer
  <2>3. 1 \in 1 .. Len(Head(todo).x) /\ Head(todo).x[1] = "run"
    BY <2>1, <2>2, TailScript
  <2>4. Includes(Head(todo).x, {"run"}) /\ Includes(Head(todo).x, Opening)
    BY <2>3 DEF Includes, Opening
  <2>5. Opened(1)
    BY <2>1, <2>4, HeadDo DEF OpeningInv
  <2>6. Head(todo).x = <<"run", "exit">> /\ cmdstack # <<>> /\ Self = Last(cmdstack)
    BY <2>1, <2>4, <2>5, HeadDo DEF Opened
  <2>7. Tail(Head(todo).x) # <<>>
    <3>1. <<"exit">> # <<>>
      OBVIOUS
    <3> QED BY <3>1, <2>6, TailOfTwo
  <2> QED BY <2>6, <2>7, AfterIs
<1>4. DoRun => ~LexSubshell
  BY OneGuard DEF DoRun, Doing, LexSubshell, Reads
<1>5. Then(<<a, b, x>>) \/ (DoRun /\ Then(<<a, b>> \o After))
  BY <1>4 DEF LexSubshell, DoRun
<1> HIDE DEF a, b, x, e
<1>6. Then(<<a, b, x>>) \/ Then(<<a, b, e>>)
  BY <1>3, <1>5, Joined
<1>7. Frames(3, -2) /\ todo'[1] = a /\ todo'[2] = b /\ (todo'[3] = x \/ todo'[3] = e)
  BY <1>2, <1>6, TupleFrames
<1> QED BY <1>1, <1>3, <1>7

\* The steps of an ordinary session that change its stack.
LEMMA OrdinaryStack ==
  ASSUME Next, Ordinary'
  PROVE  \/ UNCHANGED cmdstack
         \/ LexSubshell \/ CallCommand \/ DoRun \/ DoInteractive \/ PopShell \/ DoExit \/ DoPop
<1>1. conn' = "open" /\ ~(raised')
  BY DEF Ordinary
<1>2. ~Dropped /\ ~Disconnect
  BY <1>1 DEF Dropped, Disconnect, ConnectionLost
<1> QED BY <1>2, StackCases

\* Command_exit is the top of the stack, and takes away what is right below it.
LEMMA PoppedBelow ==
  ASSUME TypeInv, PopInv, DoPop
  PROVE  /\ Len(cmdstack) > 1 /\ Self = Top /\ Finish /\ At("do")
         /\ Len(cmdstack) - 1 \in 1 .. Len(cmdstack)
         /\ Without(cmdstack, cmdstack', cmdstack[Len(cmdstack) - 1])
         /\ Len(cmdstack) < 3 => conn' = ProcessEnded
<1> DEFINE below == Len(cmdstack) - 1
<1>1. /\ At("do") /\ Head(Head(todo).x) = "pop" /\ Len(cmdstack) > 1 /\ Finish
      /\ cmdstack' = RemoveAt(cmdstack, below) /\ (below < 2 => conn' = ProcessEnded)
  BY DEF DoPop, Doing
<1>2. cmdstack \in Seq(Ids) /\ IsInjective(cmdstack) /\ Len(cmdstack) \in Nat
  BY StackFacts
<1>3. below \in 1 .. Len(cmdstack) /\ (Len(cmdstack) < 3 => below < 2)
  BY <1>1, <1>2
<1> HIDE DEF below
<1>4. Without(cmdstack, cmdstack', cmdstack[below])
  BY <1>1, <1>2, <1>3, DropStack
<1>5. Self = Top
  <2>1. Head(todo).x # <<>> /\ ScriptOK(objs[Self].cls, Head(todo).x)
    BY <1>1, Doer
  <2>2. 1 \in 1 .. Len(Head(todo).x) /\ Head(todo).x[1] = "pop"
    BY <2>1, <1>1, TailScript
  <2>3. Includes(Head(todo).x, {"pop"})
    BY <2>2 DEF Includes
  <2> QED BY <2>3, <1>1, HeadDo DEF PopInv, Popping, Top
<1> QED BY <1>1, <1>3, <1>4, <1>5 DEF below

\* Nothing is taken from between a shell and what it reads for.
LEMMA AboveStays ==
  ASSUME TypeInv, PopInv, OnceInv, Ordinary, Next, Ordinary',
         NEW i \in ToSet(cmdstack), i \in ToSet(cmdstack'), IsShell(i),
         NEW k \in 2 .. Len(todo), todo[k].f \in {"lex", "do"}, Above(cmdstack, todo[k].id, i)
  PROVE  Above(cmdstack', todo[k].id, i)
<1> DEFINE a == todo[k].id
<1>1. cmdstack \in Seq(Ids) /\ IsInjective(cmdstack) /\ Len(cmdstack) \in Nat /\ DOMAIN cmdstack = 1 .. Len(cmdstack)
  BY StackFacts
<1>2. \A p, q \in 1 .. Len(cmdstack) : cmdstack[p] = cmdstack[q] => p = q
  BY <1>1 DEF IsInjective
<1>3. PICK p \in 1 .. Len(cmdstack) - 1 : cmdstack[p] = a /\ cmdstack[p + 1] = i
  BY DEF Above
<1> DEFINE l == Len(cmdstack)
<1>4. p \in 1 .. l /\ p + 1 \in 1 .. l /\ l \in 1 .. l /\ p # l
  <2>1. l \in Nat /\ p \in 1 .. l - 1
    BY <1>1, <1>3
  <2> HIDE DEF l
  <2> QED BY <2>1
<1>5. a # Top
  BY <1>2, <1>3, <1>4 DEF Top, Last
<1>6. At("do") => a # Self /\ i # Self
  <2> SUFFICES ASSUME At("do") PROVE a # Self /\ i # Self
    OBVIOUS
  <2>1. Self \in Ids /\ ~IsShell(Self) /\ i # Self
    BY Doer
  <2>2. todo[1].f = "do" /\ todo[1].id = Self /\ 1 \in 1 .. Len(todo) /\ k \in 1 .. Len(todo) /\ k # 1
    BY HeadDo
  <2>3. CASE todo[k].f = "do"
    BY <2>1, <2>2, <2>3 DEF OnceInv
  <2>4. CASE todo[k].f = "lex"
    <3>1. IsShell(a)
      BY <2>2, <2>4 DEF TypeInv, FramesOK, FrameOK, IsShell
    <3> QED BY <3>1, <2>1
  <2> QED BY <2>1, <2>3, <2>4
<1> HIDE DEF a
<1>7. Above(cmdstack, a, i)
  BY DEF a
<1>8. CASE UNCHANGED cmdstack
  BY <1>7, <1>8 DEF a
<1>9. CASE LexSubshell \/ CallCommand \/ DoRun
  <2>1. Unused # {} /\ cmdstack' = Append(cmdstack, NewId)
    BY <1>9 DEF LexSubshell, CallCommand, DoRun
  <2> QED BY <2>1, <1>1, <1>7, FreshId, PushAbove DEF a
<1>10. CASE DoInteractive
  <2> DEFINE s == Append(cmdstack, NewId)
  <2>1. Unused # {} /\ cmdstack' = RemoveFirst(s, Self) /\ At("do")
    BY <1>10 DEF DoInteractive, Doing
  <2>2. s \in Seq(Ids) /\ IsInjective(s) /\ Above(s, a, i)
    BY <2>1, <1>1, <1>7, FreshId, PushStack, PushAbove
  <2> HIDE DEF s
  <2>3. CASE Self \in ToSet(s)
    BY <2>1, <2>2, <2>3, <1>6, RemoveStack DEF Without, a
  <2>4. CASE Self \notin ToSet(s)
    BY <2>1, <2>2, <2>4 DEF RemoveFirst, ToSet, a
  <2> QED BY <2>3, <2>4
<1>11. CASE PopShell
  <2>1. Without(cmdstack, cmdstack', Top)
    BY <1>11, <1>1, FrontStack DEF PopShell, Top
  <2>2. i # Top
    BY <2>1 DEF Without
  <2> QED BY <2>1, <2>2, <1>5, <1>7 DEF Without, a
<1>12. CASE DoExit
  <2>1. At("do") /\ Without(cmdstack, cmdstack', Self)
    BY <1>12, ExitRemoves DEF DoExit, Doing
  <2> QED BY <2>1, <1>6, <1>7 DEF Without, a
<1>13. CASE DoPop
  <2> DEFINE below == Len(cmdstack) - 1
  <2>1. /\ Len(cmdstack) > 1 /\ Self = Top /\ At("do") /\ below \in 1 .. Len(cmdstack)
        /\ Without(cmdstack, cmdstack', cmdstack[below])
    BY <1>13, PoppedBelow
  <2>2. a # cmdstack[below]
    <3>1. ASSUME a = cmdstack[below] PROVE FALSE
      <4>1. p = below
        BY <3>1, <2>1, <1>2, <1>3, <1>4
      <4>2. i = Last(cmdstack)
        BY <4>1, <1>1, <1>3 DEF Last
      <4> QED BY <4>2, <2>1, <1>6 DEF Top
    <3> QED BY <3>1
  <2> HIDE DEF below
  <2>3. i # cmdstack[below]
    BY <2>1 DEF Without
  <2> QED BY <2>1, <2>2, <2>3, <1>7 DEF Without, a
<1> QED BY <1>8, <1>9, <1>10, <1>11, <1>12, <1>13, OrdinaryStack

LEMMA GroundNext ==
  TypeInv /\ TypeInv' /\ PopInv /\ OnceInv /\ NestInv /\ GroundInv /\ Next => GroundInv'
<1> SUFFICES ASSUME TypeInv, TypeInv', PopInv, OnceInv, NestInv, GroundInv, Next, Ordinary'
             PROVE  cmdstack' # <<>> /\ IsShell(cmdstack[1])'
  BY DEF GroundInv
<1>1. Ordinary /\ cmdstack # <<>> /\ IsShell(cmdstack[1])
  BY OrdinaryBefore DEF GroundInv
<1>2. cmdstack \in Seq(Ids) /\ IsInjective(cmdstack) /\ Len(cmdstack) \in Nat /\ Len(cmdstack) > 0
  BY <1>1, StackFacts
<1>3. At("do") => Self # cmdstack[1]
  BY <1>1, Doer
<1>4. cmdstack' # <<>> /\ cmdstack'[1] = cmdstack[1]
  <2>1. CASE UNCHANGED cmdstack
    BY <2>1, <1>1
  <2>2. CASE LexSubshell \/ CallCommand \/ DoRun
    <3>1. Unused # {} /\ cmdstack' = Append(cmdstack, NewId)
      BY <2>2 DEF LexSubshell, CallCommand, DoRun
    <3> QED BY <3>1, <1>1, <1>2, FreshId, PushStack
  <2>3. CASE DoInteractive
    <3> DEFINE s == Append(cmdstack, NewId)
    <3>1. Unused # {} /\ cmdstack' = RemoveFirst(s, Self) /\ At("do")
      BY <2>3 DEF DoInteractive, Doing
    <3>2. s \in Seq(Ids) /\ IsInjective(s) /\ s[1] = cmdstack[1] /\ s # <<>>
      BY <3>1, <1>1, <1>2, FreshId, PushStack
    <3> HIDE DEF s
    <3>3. CASE Self \in ToSet(s)
      BY <3>1, <3>2, <3>3, <1>3, RemoveStack DEF Without
    <3>4. CASE Self \notin ToSet(s)
      BY <3>1, <3>2, <3>4 DEF RemoveFirst, ToSet
    <3> QED BY <3>3, <3>4
  <2>4. CASE PopShell
    <3>1. ~(stray')
      BY DEF Ordinary
    <3>2. cmdstack[1] # Top /\ Without(cmdstack, cmdstack', Top)
      BY <2>4, <3>1, <1>1, PopBelow
    <3> QED BY <3>2 DEF Without
  <2>5. CASE DoExit
    <3>1. At("do") /\ Without(cmdstack, cmdstack', Self)
      BY <2>5, ExitRemoves DEF DoExit, Doing
    <3> QED BY <3>1, <1>3 DEF Without
  <2>6. CASE DoPop
    <3> DEFINE below == Len(cmdstack) - 1
    <3>1. /\ below \in 1 .. Len(cmdstack) /\ Without(cmdstack, cmdstack', cmdstack[below])
          /\ Len(cmdstack) < 3 => conn' = ProcessEnded
      BY <2>6, PoppedBelow
    <3>2. conn' # ProcessEnded
      BY DEF Ordinary, ProcessEnded
    <3>3. ~(Len(cmdstack) < 3)
      BY <3>1, <3>2, Zenon
    <3>4. below # 1 /\ 1 \in 1 .. Len(cmdstack)
      <4> DEFINE l == Len(cmdstack)
      <4>1. l \in Nat /\ ~(l < 3)
        BY <3>3, <1>2
      <4> HIDE DEF l
      <4>2. l - 1 # 1 /\ 1 \in 1 .. l
        BY <4>1
      <4> QED BY <4>2 DEF l
    <3>5. DOMAIN cmdstack = 1 .. Len(cmdstack)
      BY <1>2
    <3> HIDE DEF below
    <3>6. cmdstack[below] # cmdstack[1]
      BY <3>1, <3>4, <3>5, <1>2 DEF IsInjective
    <3> QED BY <3>1, <3>6 DEF Without
  <2> QED BY <2>1, <2>2, <2>3, <2>4, <2>5, <2>6, OrdinaryStack
<1>5. cmdstack[1] \in ToSet(cmdstack)
  BY <1>1, StackFacts
<1>6. cmdstack[1] \in ToSet(cmdstack')
  <2>1. 1 \in DOMAIN cmdstack'
    <3>1. cmdstack' \in Seq(Ids)
      BY DEF TypeInv, StackOK
    <3> QED BY <3>1, <1>4
  <2> QED BY <2>1, <1>4 DEF ToSet
<1>7. objs'[cmdstack[1]].cls = objs[cmdstack[1]].cls
  BY <1>5, <1>6, StackClasses
<1> QED BY <1>1, <1>4, <1>7 DEF IsShell

\* Two frames that stay below what a step leaves.
LEMMA FramesStay ==
  ASSUME NEW n \in Nat, NEW d \in Int, Frames(n, d), Len(todo) \in Nat, Len(todo') \in Nat,
         NEW k \in 2 .. Len(todo) - 1, Swallowed => k # 2
  PROVE  /\ k - d \in 1 .. Len(todo') - 1
         /\ todo'[k - d] = todo[k] /\ todo'[(k - d) + 1] = todo[k + 1]
<1> DEFINE l == Len(todo)
<1> DEFINE m == Len(todo')
<1>1. /\ l \in Nat /\ m \in Nat /\ k \in 2 .. l - 1
      /\ n + d = 1 \/ (k # 2 /\ n = 0 /\ d = 2)
      /\ \A j \in n + 1 .. m : j + d \in 2 .. l /\ todo'[j] = todo[j + d]
      /\ m + d = l \/ (n = m /\ (l <= 1 \/ l = 2))
  BY DEF Frames
<1> HIDE DEF l, m
<1>2. k - d \in 1 .. m - 1 /\ k - d \in n + 1 .. m /\ (k - d) + 1 \in n + 1 .. m
  BY <1>1
<1>3. (k - d) + d = k /\ ((k - d) + 1) + d = k + 1
  OBVIOUS
<1> QED BY <1>1, <1>2, <1>3 DEF l, m

LEMMA StackObject ==
  ASSUME TypeInv, Next, ~Disconnect, NEW i \in ToSet(cmdstack)
  PROVE  objs'[i].cls = objs[i].cls /\ objs'[i].inter = objs[i].inter
<1>1. Known(i)
  BY KnownOnes
<1>2. CASE ToReactor
  BY <1>1, <1>2 DEF ToReactor, Alive, Known
<1> QED BY <1>1, <1>2, Kept DEF SameObject

LEMMA NewShellObject ==
  ASSUME TypeInv, Next
  PROVE  /\ LexSubshell \/ DoRun => objs'[NewId].cls = "shell" /\ ~objs'[NewId].inter
         /\ DoInteractive => objs'[NewId].cls = "shell" /\ objs'[NewId].inter /\ objs'[NewId].pending = <<>>
<1>1. /\ Shell(FALSE).inter = FALSE /\ Shell(TRUE).inter = TRUE /\ Shell(TRUE).pending = <<>>
      /\ Shell(FALSE).cls = "shell" /\ Shell(TRUE).cls = "shell"
  BY DEF Shell, Object
<1>2. ASSUME LexSubshell \/ DoRun PROVE objs'[NewId].cls = "shell" /\ ~objs'[NewId].inter
  <2>1. Unused # {} /\ objs' = [objs EXCEPT ![NewId] = Shell(FALSE)]
    BY <1>2 DEF LexSubshell, DoRun
  <2>2. objs'[NewId] = Shell(FALSE)
    BY <2>1, <1>1, ShellObject, FreshKeeps
  <2> QED BY <2>2, <1>1
<1>3. ASSUME DoInteractive
      PROVE  objs'[NewId].cls = "shell" /\ objs'[NewId].inter /\ objs'[NewId].pending = <<>>
  <2>1. Unused # {} /\ objs' = [objs EXCEPT ![NewId] = Shell(TRUE)]
    BY <1>3 DEF DoInteractive
  <2>2. objs'[NewId] = Shell(TRUE)
    BY <2>1, <1>1, ShellObject, FreshKeeps
  <2> QED BY <2>2, <1>1
<1> QED BY <1>2, <1>3

\* What is new on the stack, and a shell.
LEMMA NewOnStack ==
  ASSUME TypeInv, TypeInv', Next, Ordinary', NEW i \in ToSet(cmdstack'), i \notin ToSet(cmdstack),
         objs'[i].cls = "shell"
  PROVE  i = NewId /\ Unused # {} /\ (LexSubshell \/ DoRun \/ DoInteractive)
<1>1. i = NewId /\ Unused # {}
  BY StackGrows
<1>2. ~CallCommand
  <2>1. CallCommand => objs'[NewId].cls \in DOMAIN CommandTable
    BY CallStep
  <2>2. "shell" \notin DOMAIN CommandTable
    BY DEF CommandTable
  <2> QED BY <2>1, <2>2, <1>1
<1>3. ASSUME NEW e, Without(cmdstack, cmdstack', e) PROVE FALSE
  BY <1>3 DEF Without
<1>4. ~PopShell
  BY <1>3, StackFacts, FrontStack DEF PopShell
<1>5. ~DoExit
  BY <1>3, ExitRemoves
<1>6. ~DoPop
  <2>1. ASSUME DoPop PROVE FALSE
    <3>1. Len(cmdstack) - 1 \in 1 .. Len(cmdstack) /\ cmdstack' = RemoveAt(cmdstack, Len(cmdstack) - 1)
      BY <2>1, StackFacts DEF DoPop
    <3> QED BY <3>1, <1>3, StackFacts, DropStack
  <2> QED BY <2>1
<1>7. ~UNCHANGED cmdstack
  OBVIOUS
<1> QED BY <1>1, <1>2, <1>4, <1>5, <1>6, <1>7, OrdinaryStack

LEMMA NestNext ==
  TypeInv /\ TypeInv' /\ PopInv /\ OpeningInv /\ GroundInv /\ OnceInv /\ LexInv /\ NestInv /\ Next => NestInv'
<1> SUFFICES ASSUME TypeInv, TypeInv', PopInv, OpeningInv, GroundInv, OnceInv, LexInv, NestInv, Next, Ordinary'
             PROVE  /\ \A k \in 1 .. Len(todo') : todo'[k].f = "pop" => ~objs'[todo'[k].id].inter
                    /\ \A i \in ToSet(cmdstack') : objs'[i].cls = "shell" /\ ~objs'[i].inter => Nested(i)'
  BY DEF NestInv, IsShell
<1>1. Ordinary /\ cmdstack # <<>>
  BY OrdinaryBefore DEF GroundInv
<1>2. PICK n \in Nat, d \in Int :
        Frames(n, d) /\ NewFrames(n) /\ (PopShell => n = 0 /\ d = 1) /\ (Swallowed => n = 0 /\ d = 2)
  BY <1>1, ShapeOfPop
<1>3. Len(todo) \in Nat /\ Len(todo') \in Nat
  BY LenProperties DEF TypeInv, FramesOK
<1>4. ~Disconnect /\ ~(stray')
  BY DEF Ordinary, Disconnect, ConnectionLost
<1>5. ASSUME LexSubshell \/ DoRun
      PROVE  /\ Frames(3, -2) /\ todo'[1].f = "lex" /\ todo'[2].f = "pop" /\ todo'[2].id = NewId
             /\ todo'[3].f \in {"lex", "do"} /\ todo'[3].id = Self
             /\ Unused # {} /\ cmdstack' = Append(cmdstack, NewId) /\ Self = Last(cmdstack)
  <2>1. Unused # {} /\ cmdstack' = Append(cmdstack, NewId)
    BY <1>5 DEF LexSubshell, DoRun
  <2>2. LexSubshell => Self = Last(cmdstack)
    BY <1>1 DEF LexSubshell, Reads, LexInv
  <2> QED BY <1>5, <2>1, <2>2, SubshellFrames
\* What is popped is a shell that is not interactive.
<1>6. ASSUME NEW k \in 1 .. Len(todo'), todo'[k].f = "pop" PROVE ~objs'[todo'[k].id].inter
  <2>1. ASSUME NEW j \in 2 .. Len(todo), todo'[k] = todo[j] PROVE ~objs'[todo'[k].id].inter
    <3>1. j \in 1 .. Len(todo) /\ todo[j].f = "pop"
      BY <2>1, <1>3, <1>6
    <3>2. ~objs[todo[j].id].inter
      BY <3>1, <1>1 DEF NestInv
    <3>3. todo[j].id \in Ids
      BY <3>1 DEF TypeInv, FramesOK, FrameOK
    <3>4. Known(todo[j].id)
      BY <3>1, <3>3, KnownOnes
    <3>5. ~ToReactor
      <4>1. Len(todo) # 1
        BY <2>1
      <4> QED BY <4>1 DEF ToReactor
    <3>6. objs'[todo[j].id].inter = objs[todo[j].id].inter
      BY <3>4, <3>5, <1>4, Kept DEF SameObject
    <3> QED BY <3>2, <3>6, <2>1
  <2>2. CASE LexSubshell \/ DoRun
    <3>1. k = 1 \/ k = 2 \/ k = 3 \/ k \in 3 + 1 .. Len(todo')
      BY <1>3
    <3>2. k # 1 /\ k # 3
      BY <1>5, <1>6, <2>2
    <3>3. CASE k = 2
      BY <3>3, <1>5, <2>2, NewShellObject
    <3>4. CASE k \in 3 + 1 .. Len(todo')
      <4>1. k + (-2) \in 2 .. Len(todo) /\ todo'[k] = todo[k + (-2)]
        BY <3>4, <2>2, <1>5 DEF Frames
      <4> QED BY <4>1, <2>1
    <3> QED BY <3>1, <3>2, <3>3, <3>4
  <2>3. CASE ~(LexSubshell \/ DoRun)
    <3>1. ~(k \in 1 .. n)
      BY <2>3, <1>2, <1>6 DEF NewFrames
    <3>2. k \in n + 1 .. Len(todo')
      BY <3>1, <1>3
    <3>3. k + d \in 2 .. Len(todo) /\ todo'[k] = todo[k + d]
      BY <3>2, <1>2 DEF Frames
    <3> QED BY <3>3, <2>1
  <2> QED BY <2>2, <2>3
\* A new shell that is not interactive is nested in what put it there.
<1>7. ASSUME NEW i \in ToSet(cmdstack'), i \notin ToSet(cmdstack), objs'[i].cls = "shell", ~objs'[i].inter
      PROVE  Nested(i)'
  <2>1. i = NewId /\ (LexSubshell \/ DoRun)
    BY <1>7, NewOnStack, NewShellObject
  <2>2. Above(cmdstack', todo'[3].id, i)
    <3>1. cmdstack \in Seq(Ids) /\ NewId \in Ids
      BY <2>1, <1>5, StackFacts, FreshId
    <3> QED BY <3>1, <2>1, <1>1, <1>5, PushAbove
  <2>3. 2 \in 1 .. Len(todo') - 1 /\ 2 + 1 = 3
    <3>1. 3 <= Len(todo')
      BY <2>1, <1>5 DEF Frames
    <3> QED BY <3>1, <1>3
  <2>4. todo'[2 + 1].f \in {"lex", "do"} /\ Above(cmdstack', todo'[2 + 1].id, i)
    BY <2>1, <2>2, <2>3, <1>5
  <2> QED BY <2>1, <2>3, <2>4, <1>5 DEF Nested
\* The others stay nested.
<1>8. ASSUME NEW i \in ToSet(cmdstack'), i \in ToSet(cmdstack), objs'[i].cls = "shell", ~objs'[i].inter
      PROVE  Nested(i)'
  <2>1. IsShell(i) /\ ~objs[i].inter
    BY <1>4, <1>8, StackObject DEF IsShell
  <2>2. PICK k \in 1 .. Len(todo) - 1 :
          /\ todo[k].f = "pop" /\ todo[k].id = i
          /\ todo[k + 1].f \in {"lex", "do"} /\ Above(cmdstack, todo[k + 1].id, i)
    BY <2>1, <1>1, <1>8 DEF NestInv, Nested
  <2>3. ASSUME k = 1 PROVE FALSE
    <3>1. At("pop") /\ Self = i
      <4>1. todo # <<>>
        <5>1. Len(<<>>) = 0
          OBVIOUS
        <5> QED BY <5>1, <2>2, <1>3
      <4> QED BY <4>1, <2>2, <2>3, HeadOf
    <3>2. PopShell
      <4>1. PopShell \/ PopNothing
        BY <3>1, PopsNext
      <4> QED BY <4>1, <1>1 DEF PopNothing
    <3>3. Self = Top /\ Without(cmdstack, cmdstack', Top)
      BY <3>2, <1>1, <1>4, PopBelow
    <3> QED BY <3>1, <3>3, <1>8 DEF Without
  <2>4. k \in 2 .. Len(todo) - 1
    BY <2>2, <2>3, <1>3
  <2>5. Swallowed => k # 2
    <3>1. ASSUME Swallowed PROVE todo[2].f = "try"
      BY <3>1, Below DEF Swallowed, Thrown
    <3> QED BY <3>1, <2>2
  <2>6. /\ k - d \in 1 .. Len(todo') - 1
        /\ todo'[k - d] = todo[k] /\ todo'[(k - d) + 1] = todo[k + 1]
    BY <2>4, <2>5, <1>2, <1>3, FramesStay
  <2>7. Above(cmdstack', todo[k + 1].id, i)
    <3>1. k + 1 \in 2 .. Len(todo)
      BY <2>4, <1>3
    <3> QED BY <3>1, <2>1, <2>2, <1>1, <1>8, AboveStays
  <2> QED BY <2>2, <2>6, <2>7 DEF Nested
<1> QED BY <1>6, <1>7, <1>8

-----------------------------------------------------------------------------
(* While commands of a pipe are left, so is the frame that goes on with them. *)

LossInv == Ordinary /\ pp.next # <<>> => \E k \in 1 .. Len(todo) : todo[k].f \in {"lost", "call"}

LEMMA FrameStays ==
  ASSUME TypeInv, NEW n \in Nat, NEW d \in Int, Frames(n, d), NEW k \in 2 .. Len(todo),
         todo[k].f \notin Bottom, todo[k].f # "try"
  PROVE  k - d \in 1 .. Len(todo') /\ todo'[k - d] = todo[k]
<1>1. Swallowed => k # 2
  <2>1. ASSUME Swallowed PROVE todo[2].f = "try"
    BY <2>1, Below DEF Swallowed, Thrown
  <2> QED BY <2>1
<1>2. k # Len(todo) /\ Len(todo) \in Nat
  BY LenProperties DEF TypeInv, FramesOK
<1> DEFINE l == Len(todo)
<1> DEFINE m == Len(todo')
<1>3. /\ l \in Nat /\ k \in 2 .. l /\ k # l /\ n \in 0 .. m
      /\ n + d = 1 \/ (k # 2 /\ n = 0 /\ d = 2)
      /\ \A j \in n + 1 .. m : j + d \in 2 .. l /\ todo'[j] = todo[j + d]
      /\ m + d = l \/ (n = m /\ (l <= 1 \/ l = 2))
  BY <1>1, <1>2 DEF Frames
<1> HIDE DEF l, m
<1>4. m \in Int /\ m + d = l
  <2>1. n <= m
    BY <1>3
  <2>2. ~(l <= 1 \/ l = 2)
    BY <1>3
  <2>3. Len(todo') \in Int
    BY <2>2, <1>3 DEF m, l, Frames
  <2> QED BY <2>2, <2>3, <1>3 DEF m
<1>5. k - d \in 1 .. m /\ k - d \in n + 1 .. m /\ (k - d) + d = k
  BY <1>3, <1>4
<1>6. todo'[k - d] = todo[k]
  BY <1>3, <1>5
<1> QED BY <1>5, <1>6 DEF m

\* Only calls and insertions change what is left of the pipe.
LEMMA PipeStays ==
  ASSUME TypeInv, Next, Ordinary', cmdstack # <<>>, ~CallCommand, ~DoInsert
  PROVE  pp'.next = pp.next
<1>1. conn' = "open" /\ ~(raised')
  BY DEF Ordinary
<1>2. ~Disconnect /\ ~Dropped /\ ~CallOnNothing
  BY <1>1 DEF Disconnect, ConnectionLost, Dropped, CallOnNothing
<1>3. pp \in [owner : Ids \cup {0}, next : Seq(Runnable), fed : BOOLEAN]
  BY DEF TypeInv, PipeOK
<1>4. ASSUME UNCHANGED pp PROVE pp'.next = pp.next
  BY <1>4
<1>5. CASE \/ LexCommand \/ LexSubshell \/ LexStops \/ LexFails \/ LexEnds \/ PopShell \/ PopNothing
           \/ RunNothing \/ RunAssignment \/ RunUnknown \/ RunPipe \/ OutConnectionLost
  BY <1>4, <1>5 DEF LexCommand, LexSubshell, LexStops, LexFails, LexEnds, PopShell, PopNothing, RunNothing,
     RunAssignment, RunUnknown, RunPipe, OutConnectionLost
<1>6. CASE DoWrite
  BY <1>3, <1>6 DEF DoWrite
<1>7. CASE \/ DoExit \/ DoExitAlone \/ DoExitAgain \/ DoEnd \/ DoTerminal \/ DoFail \/ DoUser
           \/ DoTry \/ DoEcho \/ DoTimer \/ DoQueue \/ DoPop \/ DoRun \/ DoInteractive \/ DoChain
  BY <1>4, <1>7 DEF DoExit, DoExitAlone, DoExitAgain, DoEnd, DoTerminal, DoFail, DoUser, DoTry, DoEcho, DoTimer,
     DoQueue, DoPop, DoRun, DoInteractive, DoChain
<1>8. CASE Propagate \/ SyntaxError \/ Swallowed \/ TryEnds \/ Errback \/ Logged
  BY <1>4, <1>8 DEF Propagate, SyntaxError, Swallowed, TryEnds, Errback, Logged
<1>9. CASE ToReactor
  BY <1>3, <1>9 DEF ToReactor
<1>10. CASE \/ LineToShell \/ LineToCommand \/ LineDiscarded \/ ControlKey \/ CtrlCToShell \/ CtrlDToShell
            \/ EofOrTimeout \/ \E i \in Ids : Fires(i)
  BY <1>4, <1>10 DEF LineToShell, LineToCommand, LineDiscarded, ControlKey, CtrlCToShell, CtrlDToShell,
     EofOrTimeout, Fires
<1> QED BY <1>2, <1>5, <1>6, <1>7, <1>8, <1>9, <1>10 DEF Next, Step

LEMMA LostNext ==
  ASSUME Next, At("lost")
  PROVE  OutConnectionLost
<1>1. /\ ~At("lex") /\ ~At("call") /\ ~At("run") /\ ~At("do") /\ ~At("pop") /\ ~At("raise") /\ ~At("try")
      /\ ~Idle /\ ~(Head(todo).f \in Bottom)
  BY DEF At, Idle, Bottom
<1> QED BY <1>1, Guards, Operations DEF Next, Step

LEMMA LossNext == TypeInv /\ TypeInv' /\ OpeningInv /\ GroundInv /\ LossInv /\ Next => LossInv'
<1> SUFFICES ASSUME TypeInv, TypeInv', OpeningInv, GroundInv, LossInv, Next, Ordinary', pp'.next # <<>>
             PROVE  \E k \in 1 .. Len(todo') : todo'[k].f \in {"lost", "call"}
  BY DEF LossInv
<1>1. Ordinary /\ cmdstack # <<>>
  BY OrdinaryBefore DEF GroundInv
<1>2. PICK n \in Nat, d \in Int : Frames(n, d)
  BY <1>1, Shape DEF Shaped
<1>3. Len(todo) \in Nat
  BY LenProperties DEF TypeInv, FramesOK
<1>4. ASSUME NEW k \in 2 .. Len(todo), todo[k].f \in {"lost", "call"}
      PROVE  \E j \in 1 .. Len(todo') : todo'[j].f \in {"lost", "call"}
  <2>1. todo[k].f \notin Bottom /\ todo[k].f # "try"
    BY <1>4 DEF Bottom
  <2>2. k - d \in 1 .. Len(todo') /\ todo'[k - d] = todo[k]
    BY <2>1, <1>2, FrameStays
  <2> QED BY <2>2, <1>4
<1>5. CASE CallCommand
  <2>1. PICK r : Calls(r)
    BY <1>5, CallStep
  <2> DEFINE l == Frame("lost", 0, <<>>)
  <2> DEFINE fs == Script(NewId, r.do) \o <<l>>
  <2>2. l.f = "lost" /\ Then(fs)
    BY <2>1, FrameFields DEF Calls
  <2> HIDE DEF l
  <2>3. /\ Script(NewId, r.do) \in Seq({Frame("do", NewId, r.do)}) /\ <<l>> \in Seq({l})
    BY ScriptOnly, SmallSeqs
  <2>4. fs \in Seq({Frame("do", NewId, r.do)} \cup {l})
    BY <2>3, SeqCat
  <2>5. Last(fs) = l /\ Len(fs) \in Nat /\ Len(fs) > 0
    <3>1. /\ Last(fs) = l /\ Len(fs) = Len(Script(NewId, r.do)) + 1 /\ Len(Script(NewId, r.do)) \in Nat
      BY <2>3, LastOfCat
    <3> QED BY <3>1
  <2> HIDE DEF fs
  <2>6. fs[Len(fs)] = l
    BY <2>5 DEF Last
  <2>7. todo # <<>>
    BY <1>5 DEF CallCommand, At
  <2>8. Len(fs) \in 1 .. Len(todo') /\ todo'[Len(fs)] = l
    <3>1. /\ Len(todo) > 0 /\ Len(todo') = Len(fs) + Len(todo) - 1
          /\ \A k \in 1 .. Len(fs) : todo'[k] = fs[k]
      BY <2>2, <2>4, <2>7, ThenIndex
    <3>2. Len(fs) \in 1 .. Len(fs) /\ Len(fs) \in 1 .. Len(todo')
      BY <3>1, <2>5, <1>3
    <3> QED BY <3>1, <3>2, <2>6
  <2> QED BY <2>2, <2>8
<1>6. CASE DoInsert
  <2>1. At("do") /\ Head(Head(todo).x) = "insert"
    BY <1>6 DEF DoInsert, Doing
  <2>2. Head(todo).x # <<>> /\ ScriptOK(objs[Self].cls, Head(todo).x)
    BY <2>1, Doer
  <2>3. 1 \in 1 .. Len(Head(todo).x) /\ Head(todo).x[1] = "insert"
    BY <2>1, <2>2, TailScript
  <2>4. Includes(Head(todo).x, {"insert"}) /\ Includes(Head(todo).x, Opening)
    BY <2>3 DEF Includes, Opening
  <2>5. Len(todo) > 1 /\ todo[2].f = "lost"
    BY <2>1, <2>4, HeadDo DEF OpeningInv, Opened
  <2>6. 2 \in 2 .. Len(todo)
    BY <2>5, <1>3
  <2> QED BY <2>5, <2>6, <1>4
<1>7. CASE ~CallCommand /\ ~DoInsert
  <2>1. pp.next # <<>>
    BY <1>1, <1>7, PipeStays
  <2>2. PICK k \in 1 .. Len(todo) : todo[k].f \in {"lost", "call"}
    BY <2>1, <1>1 DEF LossInv
  <2>3. CASE k # 1
    <3>1. k \in 2 .. Len(todo)
      BY <2>3, <1>3
    <3> QED BY <3>1, <2>2, <1>4
  <2>4. CASE k = 1
    <3>1. todo # <<>>
      <4>1. Len(<<>>) = 0
        OBVIOUS
      <4> QED BY <4>1, <2>2
    <3>2. At("lost") \/ At("call")
      BY <3>1, <2>2, <2>4, HeadOf
    <3>3. OutConnectionLost
      <4>1. ~CallOnNothing
        BY <1>1 DEF CallOnNothing
      <4> QED BY <4>1, <3>2, <1>7, CallsNext, LostNext
    <3> DEFINE c == Frame("call", pp.owner, pp.next)
    <3>4. Then(<<c>>) /\ c.f = "call"
      BY <3>3, <2>1, FrameFields DEF OutConnectionLost
    <3> HIDE DEF c
    <3>5. Frames(1, 0) /\ todo'[1] = c
      BY <3>1, <3>4, TupleFrames
    <3>6. 1 \in 1 .. Len(todo')
      BY <3>5 DEF Frames
    <3> QED BY <3>4, <3>5, <3>6
  <2> QED BY <2>3, <2>4
<1> QED BY <1>5, <1>6, <1>7

-----------------------------------------------------------------------------
(* What the step leaves alone of the prompt and of what is pending.          *)

LEMMA PromptStays ==
  ASSUME Next, ~LineToShell, prompt
  PROVE  prompt'
<1>1. CASE \/ LexCommand \/ LexSubshell \/ LexStops \/ LexFails \/ LexEnds \/ PopShell \/ PopNothing
  BY <1>1 DEF LexCommand, LexSubshell, LexStops, LexFails, LexEnds, PopShell, PopNothing, Prompts
<1>2. CASE \/ RunNothing \/ RunAssignment \/ RunUnknown \/ RunPipe \/ CallCommand \/ CallOnNothing
           \/ OutConnectionLost
  BY <1>2 DEF RunNothing, RunAssignment, RunUnknown, RunOrPrompt, RunPipe, CallCommand, CallOnNothing,
     OutConnectionLost, Prompts
<1>3. CASE \/ DoWrite \/ DoExit \/ DoExitAlone \/ DoExitAgain \/ DoEnd \/ DoTerminal \/ DoFail \/ DoUser
           \/ DoTry \/ DoEcho \/ DoTimer \/ DoQueue \/ DoPop \/ DoRun \/ DoInteractive \/ DoInsert \/ DoChain
  BY <1>3 DEF DoWrite, DoExit, DoExitAlone, DoExitAgain, DoEnd, DoTerminal, DoFail, DoUser, DoTry, DoEcho,
     DoTimer, DoQueue, DoPop, DoRun, DoInteractive, DoInsert, DoChain
<1>4. CASE Propagate \/ SyntaxError \/ Swallowed \/ TryEnds \/ Errback \/ Logged \/ Dropped \/ ToReactor
  BY <1>4 DEF Propagate, SyntaxError, Swallowed, TryEnds, Errback, Logged, Dropped, ToReactor, Prompts
<1>5. CASE \/ LineToCommand \/ LineDiscarded \/ ControlKey \/ CtrlCToShell \/ CtrlDToShell
           \/ EofOrTimeout \/ Disconnect \/ \E i \in Ids : Fires(i)
  BY <1>5 DEF LineToCommand, LineDiscarded, ControlKey, CtrlCToShell, CtrlDToShell, EofOrTimeout, Disconnect,
     Fires, Prompts
<1> QED BY <1>1, <1>2, <1>3, <1>4, <1>5 DEF Next, Step

-----------------------------------------------------------------------------
(* The interactive shell at the top shows its prompt, or something that is   *)
(* still to be done leads to it.                                             *)

Owed(t, next, i) ==
  \E k \in 1 .. Len(t) :
    \/ t[k].f \in {"lex", "run"} /\ t[k].id = i
    \/ t[k].f = "call"
    \/ t[k].f = "lost" /\ next # <<>>
PromptInv ==
  Ordinary /\ cmdstack # <<>> /\ IsShell(Top) /\ objs[Top].inter =>
    (prompt /\ objs[Top].pending = <<>>) \/ Owed(todo, pp.next, Top)

LEMMA PendingFields ==
  ASSUME TypeInv, NEW i \in Ids, NEW j \in Ids
  PROVE  /\ \A p : /\ i # j => [objs EXCEPT ![j].pending = p][i] = objs[i]
                   /\ [objs EXCEPT ![j].pending = p][j].pending = p
         /\ \A n : [objs EXCEPT ![j].timers = n][i].pending = objs[i].pending
         /\ \A r : Handled(j, r)[i].pending = objs[i].pending
         /\ \A r : [Handled(j, r) EXCEPT ![j].timers = @ - 1][i].pending = objs[i].pending
         /\ \A o : i # j => [objs EXCEPT ![j] = o][i] = objs[i]
BY DEF TypeInv, ObjectsOK, ObjectType, Handled

LEMMA PendingStays ==
  ASSUME TypeInv, Next, ~Disconnect, ~SyntaxError, ~DoQueue, NEW i \in ToSet(cmdstack),
         At("lex") \/ At("run") => Self # i
  PROVE  objs'[i].pending = objs[i].pending
<1> DEFINE KeptPending == objs'[i].pending = objs[i].pending
<1>1. i \in Ids /\ Known(i) /\ Alive(i)
  BY StackFacts, KnownOnes DEF Alive
<1>2. ASSUME UNCHANGED objs PROVE KeptPending
  BY <1>2
<1>3. ASSUME NEW j \in Ids, j # i, NEW p, objs' = [objs EXCEPT ![j].pending = p] PROVE KeptPending
  BY <1>1, <1>3, PendingFields
<1>4. ASSUME Unused # {}, NEW o, objs' = [objs EXCEPT ![NewId] = o] PROVE KeptPending
  <2>1. NewId \in Ids /\ NewId # i
    BY <1>1, <1>4, FreshId DEF Known
  <2> QED BY <2>1, <1>1, <1>4, PendingFields
<1>5. ASSUME NEW j \in Ids, NEW r, objs' = Handled(j, r) PROVE KeptPending
  BY <1>1, <1>5, PendingFields
<1>6. CASE \/ LexStops \/ LexEnds \/ PopShell \/ PopNothing \/ RunNothing \/ CallOnNothing \/ OutConnectionLost
           \/ DoWrite \/ DoExit \/ DoExitAlone \/ DoExitAgain \/ DoEnd \/ DoTerminal \/ DoFail \/ DoUser \/ DoTry
           \/ DoEcho \/ DoPop \/ DoInsert \/ DoChain
  BY <1>2, <1>6 DEF LexStops, LexEnds, PopShell, PopNothing, RunNothing, CallOnNothing, OutConnectionLost,
     DoWrite, DoExit, DoExitAlone, DoExitAgain, DoEnd, DoTerminal, DoFail, DoUser, DoTry, DoEcho, DoPop,
     DoInsert, DoChain
<1>7. CASE \/ Propagate \/ Swallowed \/ TryEnds \/ Logged \/ Dropped \/ LineToShell \/ LineDiscarded
           \/ CtrlCToShell \/ CtrlDToShell \/ EofOrTimeout
  BY <1>2, <1>7 DEF Propagate, Swallowed, TryEnds, Logged, Dropped, LineToShell, LineDiscarded, CtrlCToShell,
     CtrlDToShell, EofOrTimeout
<1>8. CASE LexCommand \/ LexFails \/ RunAssignment \/ RunUnknown \/ RunPipe
  <2>1. At("lex") \/ At("run")
    BY <1>8, Guards
  <2>2. Self \in Ids /\ Self # i
    BY <2>1, Running DEF At
  <2>3. CASE LexCommand
    BY <2>2, <2>3, <1>3 DEF LexCommand
  <2>4. CASE LexFails
    BY <2>2, <2>4, <1>3 DEF LexFails
  <2>5. CASE RunAssignment \/ RunUnknown \/ RunPipe
    BY <2>2, <2>5, <1>3 DEF RunAssignment, RunUnknown, RunPipe
  <2> QED BY <1>8, <2>3, <2>4, <2>5
<1>9. CASE LexSubshell \/ DoRun \/ DoInteractive
  BY <1>4, <1>9 DEF LexSubshell, DoRun, DoInteractive
<1>10. CASE CallCommand
  BY <1>4, <1>10 DEF CallCommand
<1>11. CASE DoTimer
  <2>1. Self \in Ids
    BY <1>11, Running DEF DoTimer, Doing, At
  <2>2. PICK n : objs' = [objs EXCEPT ![Self].timers = n]
    BY <1>11 DEF DoTimer
  <2> QED BY <2>1, <2>2, <1>1, PendingFields
<1>12. CASE Errback
  <2>1. At("raise") /\ Rest # <<>> /\ Head(Rest).f = "deferred"
    BY <1>12 DEF Errback, Thrown
  <2>2. Head(Rest).id \in Ids
    BY <2>1, Below DEF FrameOK
  <2> QED BY <2>2, <1>5, <1>12 DEF Errback
<1>13. CASE LineToCommand \/ ControlKey
  <2>1. Top \in Ids
    BY <1>13, StackTop DEF LineToCommand, ControlKey
  <2> QED BY <2>1, <1>5, <1>13 DEF LineToCommand, ControlKey, Key
<1>14. CASE \E j \in Ids : Fires(j)
  <2>1. PICK j \in Ids : Fires(j)
    BY <1>14
  <2>2. PICK r : objs' = [Handled(j, r) EXCEPT ![j].timers = @ - 1]
    BY <2>1 DEF Fires
  <2> QED BY <2>2, <1>1, PendingFields
<1>15. CASE ToReactor
  BY <1>1, <1>15 DEF ToReactor
<1> QED BY <1>6, <1>7, <1>8, <1>9, <1>10, <1>11, <1>12, <1>13, <1>14, <1>15 DEF Next, Step

\* What a step pushes may be owed to a shell.
LEMMA PushOwes ==
  ASSUME TypeInv, todo # <<>>, NEW i, NEW p, NEW a, NEW b, Then(<<a>>) \/ Then(<<a, b>>),
         a.f = "call" \/ (a.f \in {"lex", "run"} /\ a.id = i)
  PROVE  Owed(todo', p, i)
<1>1. todo'[1] = a /\ (Frames(1, 0) \/ Frames(2, -1))
  BY TupleFrames
<1>2. 1 \in 1 .. Len(todo')
  BY <1>1 DEF Frames
<1> QED BY <1>1, <1>2 DEF Owed

\* What is owed further down is owed after the step.
LEMMA StillOwed ==
  ASSUME TypeInv, TypeInv', Next, Ordinary', cmdstack # <<>>, ~CallCommand, NEW i,
         NEW k \in 2 .. Len(todo),
         \/ todo[k].f \in {"lex", "run"} /\ todo[k].id = i
         \/ todo[k].f = "call"
         \/ todo[k].f = "lost" /\ pp.next # <<>>
  PROVE  Owed(todo', pp'.next, i)
<1>1. PICK n \in Nat, d \in Int : Frames(n, d)
  BY Shape, OrdinaryBefore DEF Shaped
<1>2. todo[k].f \notin Bottom /\ todo[k].f # "try"
  BY DEF Bottom
<1>3. k - d \in 1 .. Len(todo') /\ todo'[k - d] = todo[k]
  BY <1>1, <1>2, FrameStays
<1>4. ASSUME pp.next # <<>> PROVE pp'.next # <<>>
  <2>1. CASE ~DoInsert
    BY <2>1, <1>4, PipeStays
  <2>2. CASE DoInsert
    <3> DEFINE sub == objs[Self].sub
    <3> DEFINE next == pp.next
    <3>1. PICK S \in {Invocations, LineElement} : sub \in Seq(S)
      <4>1. At("do")
        BY <2>2 DEF DoInsert, Doing
      <4>2. Self \in Ids
        BY <4>1, Doer
      <4> QED BY <4>2 DEF TypeInv, ObjectsOK, ObjectType, ObjectOK
    <3>2. next \in Seq(Runnable) /\ next # <<>> /\ pp'.next = sub \o next
      BY <2>2, <1>4 DEF DoInsert, TypeInv, PipeOK
    <3> HIDE DEF sub, next
    <3>3. Len(next) > 0 /\ Len(sub \o next) = Len(sub) + Len(next) /\ Len(sub) \in Nat /\ Len(next) \in Nat
      BY <3>1, <3>2, EmptySeq, ConcatProperties
    <3>4. sub \o next # <<>>
      <4>1. Len(<<>>) = 0
        OBVIOUS
      <4> QED BY <4>1, <3>3
    <3> QED BY <3>2, <3>4
  <2> QED BY <2>1, <2>2
<1> QED BY <1>3, <1>4 DEF Owed

LEMMA LexesNext ==
  ASSUME Next, At("lex")
  PROVE  LexCommand \/ LexSubshell \/ LexStops \/ LexFails \/ LexEnds
<1>1. /\ ~At("pop") /\ ~At("call") /\ ~At("run") /\ ~At("do") /\ ~At("lost") /\ ~At("raise") /\ ~At("try")
      /\ ~Idle /\ ~(Head(todo).f \in Bottom)
  BY DEF At, Idle, Bottom
<1> QED BY <1>1, Guards, Operations DEF Next, Step

LEMMA RunsNext ==
  ASSUME Next, At("run")
  PROVE  RunNothing \/ RunAssignment \/ RunUnknown \/ RunPipe
<1>1. /\ ~At("pop") /\ ~At("call") /\ ~At("lex") /\ ~At("do") /\ ~At("lost") /\ ~At("raise") /\ ~At("try")
      /\ ~Idle /\ ~(Head(todo).f \in Bottom)
  BY DEF At, Idle, Bottom
<1> QED BY <1>1, Guards, Operations DEF Next, Step

\* A shell that has read its line has shown the prompt, or runs what is pending.
LEMMA LexPrompts ==
  ASSUME TypeInv, Next, At("lex"), ~LexSubshell, objs[Self].inter
  PROVE  (prompt' /\ objs'[Self].pending = <<>>) \/ Owed(todo', pp'.next, Self)
<1>1. todo # <<>> /\ Self \in Ids
  BY Running DEF At
<1>2. Prompts(Self)
  BY DEF Prompts
<1>3. CASE LexCommand
  <2>1. Then(<<NextElement>>) /\ NextElement.f = "lex" /\ NextElement.id = Self
    BY <1>3, FrameFields DEF LexCommand, NextElement
  <2> QED BY <2>1, <1>1, PushOwes
<1>4. CASE LexStops
  <2> DEFINE a == Frame("lex", Self, <<>>)
  <2>1. Then(<<a>>) /\ a.f = "lex" /\ a.id = Self
    BY <1>4, FrameFields DEF LexStops
  <2> HIDE DEF a
  <2> QED BY <2>1, <1>1, PushOwes
<1>5. CASE LexFails
  <2>1. prompt' = Prompts(Self) /\ objs' = [objs EXCEPT ![Self].pending = <<>>]
    BY <1>5 DEF LexFails
  <2>2. objs'[Self].pending = <<>>
    BY <2>1, <1>1, PendingFields
  <2> QED BY <2>1, <2>2, <1>2
<1>6. CASE LexEnds
  <2>1. CASE objs[Self].pending # <<>>
    <3> DEFINE a == Frame("run", Self, <<>>)
    <3>1. Then(<<a>>) /\ a.f = "run" /\ a.id = Self
      BY <1>6, <2>1, FrameFields DEF LexEnds
    <3> HIDE DEF a
    <3> QED BY <3>1, <1>1, PushOwes
  <2>2. CASE objs[Self].pending = <<>>
    <3>1. prompt' = Prompts(Self) /\ UNCHANGED objs
      BY <1>6, <2>2 DEF LexEnds
    <3> QED BY <3>1, <2>2, <1>2
  <2> QED BY <2>1, <2>2
<1> QED BY <1>3, <1>4, <1>5, <1>6, LexesNext

\* So has one that runs what is pending, or it leaves that to the rest of a pipe.
LEMMA RunPrompts ==
  ASSUME TypeInv, TypeInv', Next, Ordinary', cmdstack # <<>>, LossInv, At("run"), objs[Self].inter
  PROVE  (prompt' /\ objs'[Self].pending = <<>>) \/ Owed(todo', pp'.next, Self)
<1>1. todo # <<>> /\ Self \in Ids
  BY Running DEF At
<1>2. Prompts(Self)
  BY DEF Prompts
<1>3. CASE RunNothing
  <2>1. objs'[Self].pending = <<>> /\ (pp.next = <<>> => prompt' = Prompts(Self))
    BY <1>3 DEF RunNothing, Pending
  <2>2. CASE pp.next = <<>>
    BY <2>1, <2>2, <1>2
  <2>3. CASE pp.next # <<>>
    <3>1. PICK k \in 1 .. Len(todo) : todo[k].f \in {"lost", "call"}
      BY <2>3, OrdinaryBefore DEF LossInv
    <3>2. k # 1 /\ Len(todo) \in Nat
      BY <3>1, <1>1, HeadOf
    <3>3. k \in 2 .. Len(todo)
      BY <3>1, <3>2
    <3>4. ~CallCommand
      BY Guards, OneGuard
    <3> QED BY <3>1, <3>3, <3>4, <2>3, StillOwed
  <2> QED BY <2>2, <2>3
<1>4. CASE RunAssignment \/ RunUnknown
  <2> DEFINE more == Tail(Pending)
  <2>1. objs' = [objs EXCEPT ![Self].pending = more] /\ RunOrPrompt(more)
    BY <1>4 DEF RunAssignment, RunUnknown, Pending
  <2> HIDE DEF more
  <2>2. CASE more # <<>>
    <3> DEFINE a == Frame("run", Self, <<>>)
    <3>1. Then(<<a>>) /\ a.f = "run" /\ a.id = Self
      BY <2>1, <2>2, FrameFields DEF RunOrPrompt
    <3> HIDE DEF a
    <3> QED BY <3>1, <1>1, PushOwes
  <2>3. CASE more = <<>>
    <3>1. prompt' = Prompts(Self)
      BY <2>1, <2>3 DEF RunOrPrompt
    <3>2. objs'[Self].pending = more
      BY <2>1, <1>1, PendingFields
    <3> QED BY <3>1, <3>2, <2>3, <1>2
  <2> QED BY <2>2, <2>3
<1>5. CASE RunPipe
  <2> DEFINE a == Frame("call", 0, Head(Pending))
  <2>1. Then(<<a>>) /\ a.f = "call"
    BY <1>5, FrameFields DEF RunPipe
  <2> HIDE DEF a
  <2> QED BY <2>1, <1>1, PushOwes
<1> QED BY <1>3, <1>4, <1>5, RunsNext

\* Whoever is the top of the stack after a step that changes it.
LEMMA PromptOfNew ==
  ASSUME TypeInv, TypeInv', PopInv, OnceInv, NestInv, Next, Ordinary', cmdstack # <<>>, cmdstack' # <<>>,
         LexSubshell \/ CallCommand \/ DoRun \/ DoInteractive \/ PopShell \/ DoExit \/ DoPop,
         objs'[Last(cmdstack')].cls = "shell", objs'[Last(cmdstack')].inter
  PROVE  \/ prompt' /\ objs'[Last(cmdstack')].pending = <<>>
         \/ Owed(todo', pp'.next, Last(cmdstack'))
<1>1. "shell" \notin DOMAIN CommandTable
  BY DEF CommandTable
<1>2. /\ cmdstack \in Seq(Ids) /\ IsInjective(cmdstack) /\ Len(cmdstack) \in Nat
      /\ Ordinary /\ ~(stray') /\ DOMAIN cmdstack = 1 .. Len(cmdstack)
  <2>1. ~(stray')
    BY DEF Ordinary
  <2>2. DOMAIN cmdstack = 1 .. Len(cmdstack)
    BY StackFacts, LenProperties
  <2> QED BY <2>1, <2>2, StackFacts, OrdinaryBefore
<1>3. CASE LexSubshell \/ CallCommand \/ DoRun
  <2>1. Unused # {} /\ cmdstack' = Append(cmdstack, NewId)
    BY <1>3 DEF LexSubshell, CallCommand, DoRun
  <2>2. Last(cmdstack') = NewId
    BY <2>1, <1>2, FreshId, PushStack
  <2>3. CallCommand => objs'[NewId].cls \in DOMAIN CommandTable
    BY CallStep
  <2>4. LexSubshell \/ DoRun => ~objs'[NewId].inter
    BY NewShellObject
  <2> QED BY <2>2, <2>3, <2>4, <1>1, <1>3
<1>4. CASE DoInteractive
  <2> DEFINE s == Append(cmdstack, NewId)
  <2>1. Unused # {} /\ cmdstack' = RemoveFirst(s, Self) /\ At("do") /\ prompt' = TRUE
    BY <1>4 DEF DoInteractive, Doing
  <2>2. /\ s \in Seq(Ids) /\ IsInjective(s) /\ Last(s) = NewId
    BY <2>1, <1>2, FreshId, PushStack
  <2>3. NewId # Self
    <3>1. Known(Self)
      BY <2>1, HeadDo, Doer, KnownOnes
    <3> QED BY <3>1, <2>1, FreshId DEF Known
  <2> HIDE DEF s
  <2>4. Last(cmdstack') = NewId
    <3>1. CASE Self \in ToSet(s)
      BY <2>1, <2>2, <2>3, <3>1, RemoveStack DEF Without
    <3>2. CASE Self \notin ToSet(s)
      BY <2>1, <2>2, <3>2 DEF RemoveFirst, ToSet
    <3> QED BY <3>1, <3>2
  <2>5. objs'[NewId].pending = <<>>
    BY <1>4, NewShellObject
  <2> QED BY <2>1, <2>4, <2>5
<1>5. CASE PopShell
  <2>1. Len(todo) > 1 /\ todo[2].f \in {"lex", "do"} /\ Last(cmdstack') = todo[2].id
    BY <1>2, <1>5, PopBelow
  <2>2. Len(todo) \in Nat
    BY LenProperties DEF TypeInv, FramesOK
  <2>3. 2 \in 2 .. Len(todo) /\ 2 \in 1 .. Len(todo)
    BY <2>1, <2>2
  <2>4. UNCHANGED objs /\ ~CallCommand
    <3>1. ~CallCommand
      BY <1>5, Guards, OneGuard
    <3> QED BY <3>1, <1>5 DEF PopShell
  <2>5. todo[2].f # "do"
    <3>1. FrameOK(todo[2], objs)
      BY <2>3 DEF TypeInv, FramesOK
    <3> QED BY <3>1, <2>1, <2>4, <1>1 DEF FrameOK, ScriptOK
  <2> QED BY <2>1, <2>3, <2>4, <2>5, StillOwed
<1>6. CASE DoExit
  <2> DEFINE a == Frame("run", Last(cmdstack'), <<>>)
  <2> DEFINE e == Frame("do", Self, Tail(Head(todo).x))
  <2>1. UNCHANGED objs /\ todo # <<>>
    BY <1>6 DEF DoExit, Doing, At
  <2>2. Then(<<a>> \o After)
    BY <1>6, <2>1 DEF DoExit, IsShell
  <2>3. a.f = "run" /\ a.id = Last(cmdstack')
    BY FrameFields
  <2>4. After = <<>> \/ After = <<e>>
    BY AfterIs
  <2> HIDE DEF a, e
  <2>5. Then(<<a>>) \/ Then(<<a, e>>)
    BY <2>2, <2>4, Joined
  <2> QED BY <2>1, <2>3, <2>5, PushOwes
<1>7. CASE DoPop
  <2> DEFINE below == Len(cmdstack) - 1
  <2>1. /\ Len(cmdstack) > 1 /\ Self = Top /\ At("do") /\ below \in 1 .. Len(cmdstack)
        /\ Without(cmdstack, cmdstack', cmdstack[below])
    BY <1>7, PoppedBelow
  <2>2. below # Len(cmdstack) /\ Len(cmdstack) \in 1 .. Len(cmdstack)
    <3> DEFINE l == Len(cmdstack)
    <3>1. l \in Nat /\ l > 1
      BY <2>1, <1>2
    <3> HIDE DEF l
    <3>2. l - 1 # l /\ l \in 1 .. l
      BY <3>1
    <3> QED BY <3>2 DEF l
  <2> HIDE DEF below
  <2>3. Last(cmdstack) # cmdstack[below]
    BY <2>1, <2>2, <1>2 DEF IsInjective, Last
  <2>4. Last(cmdstack') = Self
    BY <2>1, <2>3 DEF Without, Top
  <2>5. UNCHANGED objs /\ objs[Self].cls \in DOMAIN CommandTable
    BY <2>1, <1>7, Doer DEF DoPop
  <2> QED BY <2>4, <2>5, <1>1
<1> QED BY <1>3, <1>4, <1>5, <1>6, <1>7

LEMMA PromptNext ==
  /\ TypeInv /\ TypeInv' /\ PopInv /\ OpeningInv /\ GroundInv /\ OnceInv /\ LexInv /\ NestInv /\ LossInv
  /\ PromptInv /\ Next
  => PromptInv'
<1> SUFFICES ASSUME TypeInv, TypeInv', PopInv, OpeningInv, GroundInv, OnceInv, LexInv, NestInv, LossInv,
                    PromptInv, Next, Ordinary', cmdstack' # <<>>,
                    objs'[Last(cmdstack')].cls = "shell", objs'[Last(cmdstack')].inter
             PROVE  \/ prompt' /\ objs'[Last(cmdstack')].pending = <<>>
                    \/ Owed(todo', pp'.next, Last(cmdstack'))
  BY DEF PromptInv, Top, IsShell
<1>1. Ordinary /\ cmdstack # <<>>
  BY OrdinaryBefore DEF GroundInv
<1>2. CASE LexSubshell \/ CallCommand \/ DoRun \/ DoInteractive \/ PopShell \/ DoExit \/ DoPop
  BY <1>1, <1>2, PromptOfNew
<1>3. CASE /\ UNCHANGED cmdstack
           /\ ~(LexSubshell \/ CallCommand \/ DoRun \/ DoInteractive \/ PopShell \/ DoExit \/ DoPop)
  <2>1. ~Disconnect /\ ~SyntaxError /\ ~CallOnNothing
    <3>1. conn' = "open" /\ ~(raised')
      BY DEF Ordinary
    <3> QED BY <3>1, <1>1 DEF Disconnect, ConnectionLost, SyntaxError, CallOnNothing
  <2>2. Top \in ToSet(cmdstack) /\ Last(cmdstack') = Top
    BY <1>1, <1>3, StackTop DEF Top
  <2>3. objs[Top].cls = "shell" /\ objs[Top].inter
    BY <2>1, <2>2, StackObject
  <2>4. ASSUME At("lex"), Self = Top
        PROVE  (prompt' /\ objs'[Top].pending = <<>>) \/ Owed(todo', pp'.next, Top)
    BY <2>3, <2>4, <1>3, LexPrompts
  <2>5. ASSUME At("run"), Self = Top
        PROVE  (prompt' /\ objs'[Top].pending = <<>>) \/ Owed(todo', pp'.next, Top)
    BY <2>3, <2>5, <1>1, RunPrompts
  <2>6. ASSUME At("lost"), pp.next # <<>> PROVE Owed(todo', pp'.next, Top)
    <3> DEFINE a == Frame("call", pp.owner, pp.next)
    <3>1. Then(<<a>>) /\ a.f = "call" /\ todo # <<>>
      BY <2>6, LostNext, FrameFields DEF OutConnectionLost, At
    <3> HIDE DEF a
    <3> QED BY <3>1, PushOwes
  <2>7. ~At("call")
    BY <2>1, <1>3, CallsNext
  <2>8. ASSUME LineToShell PROVE Owed(todo', pp'.next, Top)
    <3>1. PICK line : todo' = <<Frame("lex", Top, line), Frame("input", 0, <<>>)>>
      BY <2>8 DEF LineToShell
    <3> DEFINE a == Frame("lex", Top, line)
    <3> DEFINE b == Frame("input", 0, <<>>)
    <3>2. todo' = <<a, b>> /\ a.f = "lex" /\ a.id = Top
      BY <3>1, FrameFields
    <3> HIDE DEF a, b
    <3>3. 1 \in 1 .. Len(todo') /\ todo'[1] = a
      BY <3>2
    <3> QED BY <3>2, <3>3 DEF Owed
  <2>9. ~DoQueue
    <3> SUFFICES ASSUME DoQueue PROVE FALSE
      OBVIOUS
    <3>1. At("do") /\ Head(Head(todo).x) = "queue"
      BY DEF DoQueue, Doing
    <3>2. Head(todo).x # <<>> /\ ScriptOK(objs[Self].cls, Head(todo).x) /\ ~IsShell(Self)
      BY <3>1, Doer
    <3>3. 1 \in 1 .. Len(Head(todo).x) /\ Head(todo).x[1] = "queue"
      BY <3>1, <3>2, TailScript
    <3>4. Includes(Head(todo).x, Opening)
      BY <3>3 DEF Includes, Opening
    <3>5. Self = Top
      BY <3>1, <3>4, HeadDo DEF OpeningInv, Opened, Top
    <3> QED BY <3>2, <3>5, <2>3 DEF IsShell
  <2>10. (prompt /\ objs[Top].pending = <<>>) \/ Owed(todo, pp.next, Top)
    BY <2>3, <1>1 DEF PromptInv, IsShell
  \* The head of what is to be done is dealt with above, what is further down stays owed.
  <2>11. ASSUME Owed(todo, pp.next, Top)
         PROVE  (prompt' /\ objs'[Top].pending = <<>>) \/ Owed(todo', pp'.next, Top)
    <3>1. PICK k \in 1 .. Len(todo) :
            \/ todo[k].f \in {"lex", "run"} /\ todo[k].id = Top
            \/ todo[k].f = "call"
            \/ todo[k].f = "lost" /\ pp.next # <<>>
      BY <2>11 DEF Owed
    <3>2. Len(todo) \in Nat
      BY LenProperties DEF TypeInv, FramesOK
    <3>3. CASE k = 1
      <4>1. todo # <<>>
        <5>1. Len(<<>>) = 0
          OBVIOUS
        <5> QED BY <5>1, <3>1, <3>2
      <4>2. /\ todo[1].id = Self
            /\ \A f : At(f) <=> todo[1].f = f
        BY <4>1, HeadOf
      <4> QED BY <4>2, <3>1, <3>3, <2>4, <2>5, <2>6, <2>7
    <3>4. CASE k # 1
      <4>1. k \in 2 .. Len(todo)
        BY <3>2, <3>4
      <4>2. Owed(todo', pp'.next, Top)
        BY <4>1, <3>1, <1>1, <1>3, StillOwed
      <4> QED BY <4>2
    <3> QED BY <3>3, <3>4
  <2>12. ASSUME prompt, objs[Top].pending = <<>>, ~LineToShell, At("lex") \/ At("run") => Self # Top
         PROVE  prompt' /\ objs'[Top].pending = <<>>
    <3>1. prompt'
      BY <2>12, PromptStays
    <3>2. objs'[Top].pending = objs[Top].pending
      BY <2>1, <2>2, <2>9, <2>12, PendingStays
    <3> QED BY <3>1, <3>2, <2>12
  <2>13. (prompt' /\ objs'[Top].pending = <<>>) \/ Owed(todo', pp'.next, Top)
    <3>1. CASE LineToShell
      BY <3>1, <2>8
    <3>2. CASE (At("lex") \/ At("run")) /\ Self = Top
      BY <3>2, <2>4, <2>5
    <3>3. CASE ~LineToShell /\ ~((At("lex") \/ At("run")) /\ Self = Top)
      <4>1. CASE Owed(todo, pp.next, Top)
        BY <4>1, <2>11
      <4>2. CASE prompt /\ objs[Top].pending = <<>>
        BY <4>2, <3>3, <2>12
      <4> QED BY <4>1, <4>2, <2>10
    <3> QED BY <3>1, <3>2, <3>3
  <2> QED BY <2>2, <2>13
<1> QED BY <1>2, <1>3, OrdinaryStack

\* The inductive invariant.
PromptedInv ==
  /\ TypeInv /\ PopInv /\ OpeningInv /\ GroundInv /\ OnceInv /\ LexInv /\ NestInv /\ LossInv /\ PromptInv

LEMMA PromptedInit == Init => PromptedInv
<1> SUFFICES ASSUME Init PROVE PromptedInv
  OBVIOUS
<1>1. TypeInv /\ PopInv
  BY InitTypes, SafeInit DEF SafeInv
<1>2. OpeningInv
  <2>1. \A k \in 1 .. Len(todo) : todo[k].f # "do"
    <3>1. CASE todo = <<>>
      <4>1. Len(<<>>) = 0
        OBVIOUS
      <4> QED BY <3>1, <4>1
    <3>2. CASE \E line \in ExecLines : todo = <<Frame("lex", 1, line), Frame("later", 0, <<>>)>>
      <4>1. PICK line : todo = <<Frame("lex", 1, line), Frame("later", 0, <<>>)>>
        BY <3>2
      <4> DEFINE a == Frame("lex", 1, line)
      <4> DEFINE b == Frame("later", 0, <<>>)
      <4>2. todo = <<a, b>> /\ a.f = "lex" /\ b.f = "later"
        BY <4>1, FrameFields
      <4> HIDE DEF a, b
      <4> QED BY <4>2
    <3> QED BY <3>1, <3>2 DEF Init
  <2> QED BY <2>1 DEF OpeningInv
\* An interactive session starts with its shell at the prompt, and nothing to do.
<1>3. ASSUME Ordinary
      PROVE  /\ Len(todo) = 0 /\ todo = <<>> /\ pp.next = <<>> /\ prompt
             /\ cmdstack # <<>> /\ cmdstack[1] = 1 /\ Last(cmdstack) = 1 /\ ToSet(cmdstack) = {1}
             /\ objs[1].cls = "shell" /\ objs[1].inter /\ objs[1].pending = <<>>
  <2>1. interactive /\ todo = <<>> /\ prompt /\ pp = NoPP /\ cmdstack = <<1>>
    BY <1>3 DEF Ordinary, Init
  <2>2. Len(<<>>) = 0 /\ NoPP.next = <<>>
    BY DEF NoPP
  <2>3. cmdstack # <<>> /\ cmdstack[1] = 1 /\ Last(cmdstack) = 1 /\ ToSet(cmdstack) = {1}
    <3>1. <<1>> # <<>> /\ Last(<<1>>) = 1
      BY DEF Last
    <3> QED BY <3>1, <2>1, HeadOfOne
  <2>4. 1 \in Ids
    BY Bounds DEF Ids
  <2>5. objs[1] = Shell(TRUE)
    <3>1. objs[1] = Shell(interactive) /\ interactive = TRUE
      BY <2>1, <2>4 DEF Init
    <3> QED BY <3>1
  <2>6. Shell(TRUE).cls = "shell" /\ Shell(TRUE).inter = TRUE /\ Shell(TRUE).pending = <<>>
    BY DEF Shell, Object
  <2> QED BY <2>1, <2>2, <2>3, <2>5, <2>6
<1>4. GroundInv
  BY <1>3 DEF GroundInv, IsShell
<1>5. OnceInv /\ LexInv
  BY <1>3 DEF OnceInv, LexInv, At
<1>6. NestInv
  BY <1>3 DEF NestInv
<1>7. LossInv
  BY <1>3 DEF LossInv
<1>8. PromptInv
  BY <1>3 DEF PromptInv, Top
<1> QED BY <1>1, <1>2, <1>4, <1>5, <1>6, <1>7, <1>8 DEF PromptedInv

LEMMA PromptedNext == PromptedInv /\ [Next]_vars => PromptedInv'
<1>1. ASSUME PromptedInv, Next PROVE PromptedInv'
  <2>1. /\ TypeInv /\ PopInv /\ OpeningInv /\ GroundInv /\ OnceInv /\ LexInv /\ NestInv /\ LossInv /\ PromptInv
        /\ TypeInv'
    BY <1>1, NextTypes DEF PromptedInv
  <2>2. PopInv' /\ OpeningInv'
    BY <1>1, <2>1, PopNext, OpeningNext
  <2>3. GroundInv' /\ OnceInv' /\ LexInv'
    BY <1>1, <2>1, GroundNext, OnceNext, LexNext
  <2>4. NestInv' /\ LossInv'
    BY <1>1, <2>1, NestNext, LossNext
  <2>5. PromptInv'
    BY <1>1, <2>1, PromptNext
  <2> QED BY <2>1, <2>2, <2>3, <2>4, <2>5 DEF PromptedInv
<1>2. ASSUME PromptedInv, UNCHANGED vars PROVE PromptedInv'
  <2>1. TypeInv /\ TypeInv'
    BY <1>2, NextTypes DEF PromptedInv
  <2>2. UNCHANGED <<conn, interactive, objs, cmdstack, pp, todo, prompt, raised, stray>>
    BY <1>2 DEF vars
  <2>3. PopInv' /\ OpeningInv'
    BY <1>2, <2>2 DEF PromptedInv, PopInv, OpeningInv, Opened
  <2>4. GroundInv' /\ OnceInv' /\ LexInv'
    BY <1>2, <2>2 DEF PromptedInv, GroundInv, OnceInv, LexInv, Ordinary, IsShell, At, Self
  <2>5. NestInv'
    BY <1>2, <2>2 DEF PromptedInv, NestInv, Nested, Ordinary, IsShell
  <2>6. LossInv' /\ PromptInv'
    BY <1>2, <2>2 DEF PromptedInv, LossInv, PromptInv, Ordinary, IsShell, Top
  <2> QED BY <2>1, <2>3, <2>4, <2>5, <2>6 DEF PromptedInv
<1> QED BY <1>1, <1>2

\* Between two events an interactive session in which no exception was raised and no wrong object was
\* popped runs a command or shows the prompt of its innermost shell, which has run all it was given.
THEOREM ShellPromptOrBusy == Spec => []PromptOrBusy
<1>1. Spec => []PromptedInv
  BY PromptedInit, PromptedNext, PTL DEF Spec
<1>2. PromptedInv => PromptOrBusy
  <2> SUFFICES ASSUME PromptedInv, Idle, Ordinary, cmdstack # <<>>, IsShell(Top)
               PROVE  objs[Top].inter /\ prompt /\ objs[Top].pending = <<>>
    BY DEF PromptOrBusy, Ordinary
  <2>1. TypeInv /\ NestInv /\ PromptInv
    BY DEF PromptedInv
  <2>2. Len(todo) = 0
    <3>1. Len(<<>>) = 0
      OBVIOUS
    <3> QED BY <3>1 DEF Idle
  <2>3. Top \in ToSet(cmdstack)
    BY <2>1, StackTop
  <2>4. objs[Top].inter
    <3>1. ~Nested(Top)
      BY <2>2 DEF Nested
    <3> QED BY <3>1, <2>1, <2>3 DEF NestInv
  <2>5. ~Owed(todo, pp.next, Top)
    BY <2>2 DEF Owed
  <2> QED BY <2>1, <2>4, <2>5 DEF PromptInv
<1> QED BY <1>1, <1>2, PTL
================================================================================
