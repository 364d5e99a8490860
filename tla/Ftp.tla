--------------------------------- MODULE Ftp ---------------------------------
(***************************************************************************)
(* The FTP client (drivers/network/ftp.c) behind the shell's "ftp list"    *)
(* and "ftp indir": connect, log in, try to open a data connection, quit.  *)
(* The server and the TCP calls are the environment: a reply comes in one  *)
(* or more lines, each at any later moment or too late.                    *)
(***************************************************************************)
EXTENDS Integers, Sequences

CONSTANTS
  Wait,       \* ticks ftp_read_response waits: 10
  Timeout,    \* FTP_TIMEOUT: 30
  Lines       \* bound: lines of one reply

(* The banner, USER and PASS are each waited for once, all by one deadline. *)
ASSUME FtpAssumption ==
  Wait \in Nat \ {0} /\ Timeout \in Nat /\ 3 * Wait <= Timeout /\ Lines \in Nat \ {0}

(* state is conn->state; at the reply being waited for; timer counts ticks *)
(* since ftp_connect, until when the wait ends; wire the reply lines that  *)
(* were not read yet; accepted whether the server let this login in.       *)
VARIABLE ftp

Closed == [state |-> "DISCONNECTED", at |-> "idle", timer |-> 0, until |-> 0,
           wire |-> <<>>, accepted |-> FALSE]

FtpInit == ftp = Closed

(* ftp_tick: the deadline was set once, by ftp_connect. *)
Tick(f) ==
  LET now == f.timer + 1
  IN  [f EXCEPT !.timer = now,
        !.state = IF @ # "DISCONNECTED" /\ now > Timeout THEN "ERROR" ELSE @]

(* ftp_send_command, and ftp_read_response about to wait: the server       *)
(* answers with n lines of code c, one of codes.                           *)
Awaiting(f, where, c, n) ==
  [f EXCEPT !.at = where, !.until = f.timer + Wait,
            !.wire = @ \o [i \in 1..n |-> c], !.accepted = @ \/ c = "logged_in"]

Awaits(f, where, codes) == {Awaiting(f, where, c, n) : c \in codes, n \in 1..Lines}

(* ftp_disconnect: whether QUIT could be sent or not, a reply is awaited.  *)
Disconnect(f) ==
  Awaits(f, "quit", {"bye"}) \union {[f EXCEPT !.at = "quit", !.until = f.timer + Wait]}

Authenticated(f) == {[f EXCEPT !.state = "AUTHENTICATED", !.at = "in"]}

(* ftp_login: a command that cannot be sent ends it as a refusal does. *)
User(f) == Awaits(f, "user", {"password", "logged_in", "no"}) \union Disconnect(f)
Pass(f) == Awaits(f, "pass", {"logged_in", "no"}) \union Disconnect(f)

(* FTP_LOGIN_OK, to either command; after PASS the code that asks for it   *)
(* is no longer good enough.                                               *)
EitherCode(f, code) ==
  <<f.at, code>> \in {<<"user", "logged_in">>, <<"pass", "logged_in">>, <<"pass", "password">>}
LoggedIn(f, code) == f.at \in {"user", "pass"} /\ code = "logged_in"

(* What is done with the code of a reply, wherever it was awaited. *)
Got(f, code) ==
  CASE f.at = "banner" /\ code = "ready" -> User([f EXCEPT !.state = "CONNECTED"])
    [] f.at = "banner" /\ code # "ready" -> {[f EXCEPT !.state = "ERROR", !.at = "idle"]}
    [] f.at = "user" /\ code = "password" -> Pass(f)
    [] LoggedIn(f, code) -> Authenticated(f)
    [] f.at = "quit" -> {[f EXCEPT !.state = "DISCONNECTED", !.at = "idle"]}
    [] OTHER -> Disconnect(f)

-----------------------------------------------------------------------------
(* ftp_connect, which "ftp list" and "ftp indir" call first. *)
Connect ==
  /\ ftp.at = "idle"
  /\ \/ ftp' = [ftp EXCEPT !.state = "ERROR"]
     \/ ftp' \in Awaits([Closed EXCEPT !.state = "CONNECTING"], "banner", {"ready", "no"})

Waiting == ftp.at \notin {"idle", "in"} /\ ftp.timer < ftp.until

(* A turn of the loop of ftp_read_response: nothing came, or not a whole   *)
(* line; or everything that has come so far is taken as one reply, of      *)
(* which only the first code counts.                                       *)
Poll == Waiting /\ ftp' = Tick(ftp)

Answered ==
  /\ Waiting
  /\ \E n \in DOMAIN ftp.wire :
       ftp' \in Got([ftp EXCEPT !.wire = SubSeq(@, n + 1, Len(@))], ftp.wire[1])

GiveUp ==
  /\ ftp.at \notin {"idle", "in"} /\ ftp.timer >= ftp.until
  /\ ftp' \in Got(ftp, "timeout")

(* ftp_list_directory and ftp_download_file ask ftp_open_data_connection,  *)
(* which refuses: mode is FTP_ACTIVE, and only a connection that is passive *)
(* already would make it FTP_PASSIVE.                                      *)
Transfer == ftp.at = "in" /\ ftp' \in Disconnect(ftp)

FtpNext == Connect \/ Poll \/ Answered \/ GiveUp \/ Transfer

-----------------------------------------------------------------------------
FtpTypeOK ==
  /\ ftp.state \in {"DISCONNECTED", "CONNECTING", "CONNECTED", "AUTHENTICATED", "ERROR"}
  /\ ftp.at \in {"idle", "banner", "user", "pass", "in", "quit"}
  /\ ftp.until <= ftp.timer + Wait

(* Late lines of an earlier reply are read as the answer to a later         *)
(* command. Even so the client is authenticated only if the server said so *)
(* on this connection, and the connection's one deadline, set before the   *)
(* first wait, does not turn a login that is under way into an error.      *)
(* (ftp_login, ftp_read_response, ftp_tick)                                *)
LoginStands ==
  /\ ftp.state = "AUTHENTICATED" => ftp.accepted
  /\ ftp.at \in {"banner", "user", "pass", "in"} => ftp.state # "ERROR"
=============================================================================
