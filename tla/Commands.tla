------------------------------- MODULE Commands -------------------------------
(***************************************************************************)
(* The classes of cowrie/commands, one definition for each.  What they     *)
(* print and how they read their arguments is abstracted to the scripts an *)
(* invocation can lead to; when a class exits, waits, sets a timer, hides  *)
(* typing or raises is kept.  See HoneyPotCommand for the operations.      *)
(***************************************************************************)
EXTENDS HoneyPotCommand
LOCAL INSTANCE Sequences

Prints == {<<"out">>}
Stops == {<<"out", "exit">>}
Waits == {<<>>}
-----------------------------------------------------------------------------
(* base.py *)
Command_whoami == Called(Prints)
Command_help == Called(Prints)
Command_w == Called(Prints)
Command_who == Called(Prints)
Command_echo == Called(Prints)
(* A bad escape sequence raises ValueError, which echo catches and printf does not. *)
Command_printf == Called({<<"out">>, <<"raise">>})
Command_clear == Called({<<"term">>})
Command_hostname == Called(Prints)
Command_ps == Called(Prints)
Command_id == Called(Prints)
Command_history == Called(Prints)
Command_date == Called(Prints)
Command_chattr == Called(Prints)
Command_set == Called(Prints)
Command_nop == Called({})

\* Mutant: typing stays shown.
Command_passwdShown ==
  Class({On("start", "any", <<"out", "echoOff">>, "new"),
         On("line", "new", <<"echoOn", "out">>, "again"),
         On("line", "again", <<"out", "exit">>, "done")})
(* callbacks = [ask_again, finish] *)
Command_passwd ==
  Class({On("start", "any", <<"out", "echoOff">>, "new"),
         On("line", "new", <<"out">>, "again"),
         On("line", "again", <<"echoOn", "out", "exit">>, "done")})

Command_shutdown == Class(Start(Stops \cup {<<"out", "arm">>}) \cup {Always("fire", <<"end">>)})
Command_reboot == Class(Start({<<"out", "arm">>}) \cup {Always("fire", <<"end">>)})

(* y writes and schedules itself again. *)
Command_yes ==
  Class(Start({<<"out", "arm">>})
          \cup {Always("fire", <<"out", "arm">>), Always("ctrlC", <<"cancel", "exit">>)})

Command_php ==
  Class(Start(Stops \cup Waits) \cup {Always("line", <<>>), Always("ctrlD", <<"exit">>)})
-----------------------------------------------------------------------------
(* fs.py *)
Command_grep == Reader(Stops \cup {<<"raise">>}, {}, {})
Command_tail == Class(Start(Stops \cup Waits) \cup {Always("line", <<>>), Always("ctrlD", <<"exit">>)})
Command_head == Command_tail
Command_cd == Called(Prints)
(* An unknown option exits in call, and start exits again. *)
Command_rm == Called({<<"out">>, <<"out", "exit">>})
Command_cp == Called(Prints)
Command_mv == Called(Prints)
Command_mkdir == Called(Prints)
Command_rmdir == Called(Prints)
Command_pwd == Called(Prints)
Command_touch == Called(Prints)
-----------------------------------------------------------------------------
(* Commands that only print. *)
Command_chmod == Called(Prints)
Command_du == Called(Prints)
Command_env == Called(Prints)
Command_ethtool == Called(Prints)
Command_finger == Called(Prints)
Command_free == Called(Prints)
Command_git == Called(Prints)
Command_groups == Called(Prints)
Command_ifconfig == Called(Prints)
Command_last == Called(Prints)
Command_locate == Called(Prints)
Command_ls == Called(Prints)
Command_lspci == Called(Prints)
Command_netstat == Called(Prints)
Command_nohup == Called(Prints)
Command_service == Called(Prints)
Command_tar == Called(Prints)
Command_ulimit == Called(Prints)
Command_uname == Called(Prints)
Command_unzip == Called(Prints)
Command_uptime == Called(Prints)
Command_which == Called(Prints)
Command_dig == Class(Start(Stops))
Command_find == Class(Start(Stops))
Command_iptables == Class(Start(Stops))
-----------------------------------------------------------------------------
(* Filters, and commands that read from the terminal. *)
Command_awk == Reader(Stops, {}, {})
Command_wc == Reader(Stops \cup {<<"raise">>}, {}, {})
Command_base64 == Reader(Stops, Waits, {})
Command_cat == Reader(Stops, Waits, {})
Command_tee == Reader(Stops, Waits, {})
Command_uniq == Reader(Stops, Waits, {})

Command_crontab ==
  Class(Start(Stops \cup Waits) \cup {Always("line", <<>>), Always("ctrlD", <<"exit">>)})

(* Every file argument exits, the second one from a stack that no longer has the command. *)
Command_python ==
  Class(Start(Stops \cup Waits \cup {<<"exit", "exit">>})
          \cup {Always("line", <<>>), Always("ctrlD", <<"exit">>)})
Command_perl == Command_python

(* -c with an unknown method exits and goes on. *)
Command_chpasswd ==
  Class(Start(Stops) \cup Bare(Waits) \cup Fed({<<"out", "exit", "out", "exit">>})
          \cup {Always("line", <<"out">>), Always("ctrlD", <<"exit">>)})

(* Unknown operands exit and go on; with input, or without if=, nothing exits. *)
Command_dd ==
  Class(Start({<<>>, <<"out", "exit", "raise">>, <<"out", "exit", "out", "exit">>})
          \cup Bare(Stops) \cup Fed({<<"out">>})
          \cup {Always("line", <<>>), Always("ctrlD", <<"out", "exit">>)})

(* A missing directory exits and goes on; -d without arguments raises. *)
Command_scp ==
  Class(Start(Stops \cup {<<"out">>, <<"raise">>, <<"out", "exit", "out">>})
          \cup {Always("line", <<"term">>), Always("ctrlD", <<"exit">>)})
-----------------------------------------------------------------------------
(* Commands that take time. *)
Command_sleep == Class(Start(Stops \cup {<<"arm">>}) \cup {Always("fire", <<"exit">>)})

(* count and max are abstracted to the replies that are left: none at the last, no end without -c. *)
Command_ping ==
  Class(Start(Stops) \cup {On("start", "any", <<"out", "arm">>, p) : p \in {"more", "last", "endless"}}
          \cup {On("fire", "more", <<"out", "arm">>, "last"),
                On("fire", "last", <<"out", "exit">>, "done"),
                On("fire", "endless", <<"out", "arm">>, "same"),
                Always("ctrlC", <<"out", "cancel", "out", "exit">>)})

(* An invalid address exits and goes on; the third and later lines are ignored. *)
Command_ssh ==
  Class(Start(Stops)
          \cup {On("start", "any", s, "yesno") : s \in {<<"out">>, <<"out", "exit", "out">>}}
          \cup {On("line", "yesno", <<"out", "echoOff">>, "wait"),
                On("line", "wait", <<"arm">>, "finish"),
                On("line", "finish", <<>>, "finish"),
                Always("fire", <<"echoOn", "out", "exit">>)})

(* The items of output: lines with a delay, passwords (O_P), questions (O_Q); the last one starts over. *)
Command_adduser ==
  Class(Start(Stops)
          \cup {On("start", "any", <<"out", "arm">>, "adding"),
                On("fire", "adding", <<"out", "arm">>, "adding"),
                On("fire", "adding", <<"out", "echoOff">>, "password"),
                On("fire", "password", <<"out", "echoOff">>, "password"),
                On("fire", "password", <<"out">>, "question"),
                On("fire", "question", <<"out">>, "question"),
                On("fire", "question", <<"out", "arm">>, "adding"),
                On("line", "adding", <<"arm", "echoOn">>, "adding"),
                On("line", "password", <<"arm", "echoOn">>, "password"),
                On("line", "question", <<"out", "arm", "echoOn">>, "question"),
                On("line", "question", <<"exit">>, "done")})

(* do_install fails before its first delay (packages is not set yet), and nothing exits. *)
Command_aptget == Class(Start(Stops \cup {<<"try", "raise">>}))
(* Without a package do_install writes after its delay; lineReceived goes on with the         *)
(* transaction, in whose delays the command exits in the end.                                  *)
YumInstall ==
  Start({<<"arm">>, <<"try", "raise">>})
    \cup {Always("line", <<"arm">>), Always("fire", <<"try", "out", "exit">>)}
Command_yum == Class(Start(Stops \cup {<<"arm">>}) \cup YumInstall)

Command_gcc == Class(Call({<<"out">>, <<"arm">>}) \cup {Always("fire", <<"user">>), Always("ctrlC", <<"cancel">>)})

(* wget and curl.  The host is looked up first, unless it is an address. *)
Lookup ==
  {On("start", "any", <<"try", "out", "arm">>, "request"),
   On("start", "any", <<"try", "arm">>, "resolving"),
   On("fire", "resolving", <<"try", "out", "exit">>, "done"),
   On("fire", "resolving", <<"try", "out", "arm">>, "request")}

(* The response, which may announce too much, and the chunks of its body: beyond *)
(* download_limit_size a chunk exits, and every later one does again.             *)
Collect ==
  {On("fire", "request", <<"exit">>, "done"),
   On("fire", "request", <<"out", "arm">>, "body"),
   On("fire", "request", <<"try", "out", "exit">>, "done"),
   On("fire", "body", <<"out", "arm">>, "body"),
   On("fire", "body", <<"exit", "arm">>, "over"),
   On("fire", "over", <<"exit", "arm">>, "over")}

CollectionComplete == {On("fire", p, <<"out", "exit">>, "done") : p \in {"body", "over"}}
Failed == {On("error", "any", <<"out", "exit">>, "done")}
Download == Lookup \cup Collect \cup CollectionComplete \cup Failed

Command_wget == Class(Start({<<"try", "out", "exit">>}) \cup Download)
(* A URL without a host exits and goes on, to an exception that start's Deferred keeps. *)
Command_curl == Class(Start({<<"try", "out", "exit">>, <<"try", "out", "exit", "raise">>}) \cup Download)

FtpEnds ==
  {Always("fire", <<"user", "exit">>), Always("fire", <<"try", "out", "exit">>),
   Always("error", <<"out", "exit">>)}
Command_ftpget == Class(Start(Stops \cup {<<"arm">>}) \cup FtpEnds)

(* TftpClient has the download.  _safe_exit swallows the ValueError of a second exit. *)
TftpEnds ==
  {Always("fire", <<"user", "try", "exit">>), Always("fire", <<"out", "try", "exit">>),
   Always("error", <<"out", "try", "exit">>)}
(* -h leaves the parser by an exception that start does not catch, and so does a bad port. *)
Command_tftp ==
  Class(Start(Stops \cup {<<"arm">>, <<"raise">>, <<"out", "raise">>})
          \cup TftpEnds \cup {Always("ctrlC", <<"cancel", "out", "exit">>)})
-----------------------------------------------------------------------------
(* HoneyPotBaseProtocol.commands; names a few variants are called by are merged. *)
CommandTable ==
  [sh |-> Command_sh(FALSE), sh_c |-> Command_sh(TRUE), exit |-> Command_exit,
   sudo |-> Command_sudo, busybox |-> Command_busybox, nc |-> Command_nc,
   whoami |-> Command_whoami, help |-> Command_help, w |-> Command_w, who |-> Command_who,
   echo |-> Command_echo, printf |-> Command_printf, clear |-> Command_clear,
   hostname |-> Command_hostname, ps |-> Command_ps, id |-> Command_id,
   history |-> Command_history, date |-> Command_date, chattr |-> Command_chattr,
   set |-> Command_set, nop |-> Command_nop, passwd |-> Command_passwd,
   shutdown |-> Command_shutdown, reboot |-> Command_reboot, yes |-> Command_yes,
   php |-> Command_php, grep |-> Command_grep, tail |-> Command_tail, head |-> Command_head,
   cd |-> Command_cd, rm |-> Command_rm, cp |-> Command_cp, mv |-> Command_mv,
   mkdir |-> Command_mkdir, rmdir |-> Command_rmdir, pwd |-> Command_pwd,
   touch |-> Command_touch, chmod |-> Command_chmod, du |-> Command_du, env |-> Command_env,
   ethtool |-> Command_ethtool, finger |-> Command_finger, free |-> Command_free,
   git |-> Command_git, groups |-> Command_groups, ifconfig |-> Command_ifconfig,
   last |-> Command_last, locate |-> Command_locate, ls |-> Command_ls, lspci |-> Command_lspci,
   netstat |-> Command_netstat, nohup |-> Command_nohup, service |-> Command_service,
   tar |-> Command_tar, ulimit |-> Command_ulimit, uname |-> Command_uname,
   unzip |-> Command_unzip, uptime |-> Command_uptime, which |-> Command_which,
   dig |-> Command_dig, find |-> Command_find, iptables |-> Command_iptables,
   awk |-> Command_awk, wc |-> Command_wc, base64 |-> Command_base64, cat |-> Command_cat,
   tee |-> Command_tee, uniq |-> Command_uniq, crontab |-> Command_crontab,
   python |-> Command_python, perl |-> Command_perl, chpasswd |-> Command_chpasswd,
   dd |-> Command_dd, scp |-> Command_scp, sleep |-> Command_sleep, ping |-> Command_ping,
   ssh |-> Command_ssh, adduser |-> Command_adduser, aptget |-> Command_aptget,
   yum |-> Command_yum, gcc |-> Command_gcc, wget |-> Command_wget, curl |-> Command_curl,
   ftpget |-> Command_ftpget, tftp |-> Command_tftp]

Rules(cmd) == CommandTable[cmd]
=============================================================================
