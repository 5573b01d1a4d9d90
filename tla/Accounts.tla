------------------------------ MODULE Accounts ------------------------------
(***************************************************************************)
(* One account of an auth collection (operations.ts): signing in with a    *)
(* password and a time-based code, forgotten passwords, e-mail             *)
(* verification, two-factor enrolment, and the ordinary update() of the    *)
(* user's document, which carries the columns it is not given over from    *)
(* the row it read, those of the server included.                          *)
(*                                                                         *)
(* Passwords, secrets and mailed tokens are numbered as they are made;     *)
(* 0 is none.  A tick is one step of the time-based codes.                 *)
(***************************************************************************)
EXTENDS Naturals, FiniteSets

CONSTANTS
  Calls,        (* requests in flight                                      *)
  MaxFailures,  (* LOGIN_MAX_FAILURES                                      *)
  Window,       (* LOGIN_WINDOW_MS, in ticks                               *)
  TokenLife,    (* how long a reset token is good for                      *)
  MaxRequests,  (* bound: requests                                         *)
  MaxTime,      (* bound: the clock                                        *)
  MaxRestarts   (* bound: crashes                                          *)

AccountsAssumption ==
  /\ {MaxFailures, MaxTime} \subseteq Nat \ {0}
  /\ {Window, TokenLife, MaxRequests, MaxRestarts} \subseteq Nat
  /\ IsFiniteSet(Calls)

VARIABLES
  now,
  row,          (* the columns of the account                              *)
  failures,     (* loginFailures, in memory                                *)
  call,
  sessions,     (* tokens issued                                           *)
  made,         (* passwords, secrets and tokens so far                    *)
  spent,        (* codes and reset tokens that were accepted               *)
  again,        (* what was accepted a second time                         *)
  lost,         (* columns written by a call they had changed under        *)
  requests, restarts

history == <<sessions, made, spent, again, lost>>
vars == <<now, row, failures, call, history, requests, restarts>>

Row == [password: Nat, epoch: Nat, reset: Nat, expires: Nat,
        verified: BOOLEAN, secret: Nat, enabled: BOOLEAN, last: Nat]
NewRow == [password |-> 0, epoch |-> 0, reset |-> 0, expires |-> 0,
           verified |-> FALSE, secret |-> 0, enabled |-> FALSE, last |-> 0]
NoFailures == [count |-> 0, start |-> 0]

(* A request; stale are the columns written since it read the row.         *)
Idle == [step |-> "idle", read |-> NewRow, arg |-> 0, stale |-> {}]

Init ==
  /\ now = 1 /\ failures = NoFailures
  /\ \E v \in BOOLEAN : row = [NewRow EXCEPT !.verified = v]   (* or none is asked for *)
  /\ call = [c \in Calls |-> Idle]
  /\ sessions = {} /\ made = 0 /\ spent = {} /\ again = {} /\ lost = {}
  /\ requests = 0 /\ restarts = 0

Tick == now < MaxTime /\ now' = now + 1 /\ UNCHANGED <<row, failures, call, history, requests, restarts>>

Becomes(c, r) == call' = [call EXCEPT ![c] = r]

(* A request reads the row, and may go on.                                 *)
Begin(c, step, arg) ==
  /\ call[c].step = "idle" /\ requests < MaxRequests /\ requests' = requests + 1
  /\ Becomes(c, [Idle EXCEPT !.step = step, !.read = row, !.arg = arg])

(* A request ends with an UPDATE of some columns.                          *)
Store(c, new, columns) ==
  /\ row' = [k \in DOMAIN row |-> IF k \in columns THEN new[k] ELSE row[k]]
  /\ lost' = lost \union (columns \intersect call[c].stale)
  /\ call' = [d \in Calls |->
       IF d = c \/ call[d].step = "idle" THEN Idle
       ELSE [call[d] EXCEPT !.stale = @ \union {k \in columns : new[k] # row[k]}]]

Session(r) == [password |-> r.password, epoch |-> r.epoch]

Spend(x) == spent' = spent \union {x} /\ again' = again \union ({x} \intersect spent)

-----------------------------------------------------------------------------
(* login.                                                                  *)

Elapsed == now - failures.start

(* Variant: one failure more.                                              *)
OneMore == failures.count <= MaxFailures \/ Elapsed > Window

LoginAllowed == failures.count < MaxFailures \/ Elapsed > Window

(* The gate, then the row; arg is the number of the password given.        *)
LoginBegin(c) ==
  /\ LoginAllowed
  /\ failures' = IF Elapsed > Window THEN NoFailures ELSE failures
  /\ \E password \in 0..made : Begin(c, "login", password)
  /\ UNCHANGED <<now, row, history, restarts>>

RecordFailure ==
  failures' = IF failures = NoFailures \/ Elapsed > Window
              THEN [count |-> 1, start |-> now] ELSE [failures EXCEPT !.count = @ + 1]

WrongPassword(c) ==
  /\ call[c].step = "login" /\ call[c].arg # call[c].read.password
  /\ RecordFailure
  /\ Becomes(c, Idle)
  /\ UNCHANGED <<now, row, history, requests, restarts>>

(* Variant: the last step may be repeated.                                 *)
NotOlder(r, step) == step >= r.last

NewStep(r, step) == step > r.last

(* The password is right.  An unverified address, or no acceptable code,   *)
(* ends the call; a code one step early or late is accepted.               *)
RightPassword(c) ==
  LET r == call[c].read
  IN  /\ call[c].step = "login" /\ call[c].arg = r.password
      /\ failures' = NoFailures
      /\ \/ Becomes(c, Idle) /\ UNCHANGED sessions /\ (~ r.verified \/ r.enabled)
         \/ r.verified /\ ~ r.enabled /\ Becomes(c, Idle) /\ sessions' = sessions \union {Session(r)}
         \/ /\ r.verified /\ r.enabled /\ r.secret # 0
            /\ \E step \in (now - 1)..(now + 1) :
                 NewStep(r, step) /\ Becomes(c, [call[c] EXCEPT !.step = "stamp", !.arg = step])
            /\ UNCHANGED sessions
      /\ UNCHANGED <<now, row, made, spent, again, lost, requests, restarts>>

LoginStamp(c) ==
  LET r == call[c]
  IN  /\ r.step = "stamp"
      /\ Store(c, [row EXCEPT !.last = r.arg], {"last"})
      /\ Spend([secret |-> r.read.secret, step |-> r.arg])
      /\ sessions' = sessions \union {Session(r.read)}
      /\ UNCHANGED <<now, failures, made, requests, restarts>>

-----------------------------------------------------------------------------
(* The user's document is saved, with a new password or without.           *)

EditBegin(c) ==
  /\ \E password \in {0, 1} : Begin(c, "edit", password)
  /\ UNCHANGED <<now, row, failures, history, restarts>>

(* Variant: the session epoch is left alone.                               *)
SameEpoch(r) == r.epoch

NextEpoch(r) == r.epoch + 1

Rekeyed(r) == [r EXCEPT !.password = made + 1, !.epoch = NextEpoch(r)]

EditWrite(c) ==
  LET r == call[c]
  IN  /\ r.step = "edit"
      /\ Store(c, IF r.arg = 1 THEN Rekeyed(r.read) ELSE r.read, DOMAIN row)
      /\ made' = made + r.arg
      /\ UNCHANGED <<now, failures, sessions, spent, again, requests, restarts>>

-----------------------------------------------------------------------------
(* A forgotten password.                                                   *)

ForgotBegin(c) == Begin(c, "forgot", 0) /\ UNCHANGED <<now, row, failures, history, restarts>>

ForgotWrite(c) ==
  /\ call[c].step = "forgot"
  /\ Store(c, [row EXCEPT !.reset = made + 1, !.expires = now + TokenLife], {"reset", "expires"})
  /\ made' = made + 1
  /\ UNCHANGED <<now, failures, sessions, spent, again, requests, restarts>>

ResetBegin(c) ==
  /\ row.reset # 0 /\ row.expires >= now
  /\ Begin(c, "reset", row.reset)
  /\ UNCHANGED <<now, row, failures, history, restarts>>

(* The new password is hashed in between, which takes a while.             *)
ResetWrite(c) ==
  LET r == call[c]  new == [Rekeyed(r.read) EXCEPT !.reset = 0, !.expires = 0]
  IN  /\ r.step = "reset"
      /\ Store(c, new, {"password", "epoch", "reset", "expires"})
      /\ Spend([secret |-> 0, step |-> r.arg])
      /\ sessions' = sessions \union {Session(new)}
      /\ made' = made + 1
      /\ UNCHANGED <<now, failures, requests, restarts>>

-----------------------------------------------------------------------------
(* Verification of the address, by the token mailed at sign-up; and        *)
(* two-factor enrolment: set up, confirm with a code, disable.             *)

VerifyBegin(c) ==
  /\ ~ row.verified
  /\ Begin(c, "verify", 0)
  /\ UNCHANGED <<now, row, failures, history, restarts>>

SetupBegin(c) == Begin(c, "setup", 0) /\ UNCHANGED <<now, row, failures, history, restarts>>

EnableBegin(c) ==
  /\ row.secret # 0
  /\ Begin(c, "enable", 0)
  /\ UNCHANGED <<now, row, failures, history, restarts>>

DisableBegin(c) == Begin(c, "disable", 0) /\ UNCHANGED <<now, row, failures, history, restarts>>

SetBy(step) ==
  CASE step = "verify" -> {"verified"}
    [] step = "setup" -> {"secret", "enabled"}
    [] step = "enable" -> {"enabled"}
    [] step = "disable" -> {"secret", "enabled", "last"}

Values(step) ==
  [NewRow EXCEPT !.verified = TRUE, !.enabled = (step = "enable"), !.secret = IF step = "setup" THEN made + 1 ELSE 0]

SettingWrite(c) ==
  LET step == call[c].step
  IN  /\ step \in {"verify", "setup", "enable", "disable"}
      /\ Store(c, Values(step), SetBy(step))
      /\ made' = IF step = "setup" THEN made + 1 ELSE made
      /\ UNCHANGED <<now, failures, sessions, spent, again, requests, restarts>>

-----------------------------------------------------------------------------

Restart ==
  /\ restarts < MaxRestarts /\ restarts' = restarts + 1
  /\ call # [c \in Calls |-> Idle] \/ failures # NoFailures
  /\ failures' = NoFailures /\ call' = [c \in Calls |-> Idle]
  /\ UNCHANGED <<now, row, history, requests>>

Login(c) == LoginBegin(c) \/ WrongPassword(c) \/ RightPassword(c) \/ LoginStamp(c)
Password(c) == EditBegin(c) \/ EditWrite(c) \/ ForgotBegin(c) \/ ForgotWrite(c) \/ ResetBegin(c) \/ ResetWrite(c)
Settings(c) == VerifyBegin(c) \/ SetupBegin(c) \/ EnableBegin(c) \/ DisableBegin(c) \/ SettingWrite(c)

Next == Tick \/ Restart \/ \E c \in Calls : Login(c) \/ Password(c) \/ Settings(c)

Spec == Init /\ [][Next]_vars

-----------------------------------------------------------------------------
(* Properties.                                                             *)

TypeOK ==
  /\ now \in 1..MaxTime /\ row \in Row
  /\ failures \in [count: Nat, start: 0..MaxTime]
  /\ call \in [Calls -> [step: {"idle", "login", "stamp", "edit", "forgot", "reset", "verify", "setup", "enable",
                                "disable"},
                         read: Row, arg: Nat, stale: SUBSET DOMAIN NewRow]]
  /\ sessions \subseteq [password: Nat, epoch: Nat]
  /\ made \in Nat /\ spent \subseteq [secret: Nat, step: Nat] /\ again \subseteq spent
  /\ lost \subseteq DOMAIN NewRow
  /\ requests \in 0..MaxRequests /\ restarts \in 0..MaxRestarts

(* authenticate: a token is honoured in the epoch it was issued in.        *)
Honoured(s) == s.epoch = row.epoch

(* A session ends with the password it was opened with, however sign-ins,  *)
(* resets and changes overlap, unless one of them wrote a password or an   *)
(* epoch that had changed since it read the row.                           *)
SessionsEnd ==
  {"password", "epoch"} \intersect lost = {} =>
    \A s \in sessions : Honoured(s) => s.password = row.password

(* A time-based code and a reset token are good for one use, unless the    *)
(* column that says so was written by a call under which it had changed.   *)
SingleUse ==
  /\ "last" \notin lost => {x \in again : x.secret # 0} = {}
  /\ "reset" \notin lost => {x \in again : x.secret = 0} = {}

(* However many sign-ins are under way when the limit is reached, each     *)
(* adds one failure at most, and no other begins.                          *)
ThrottleHolds == failures.count < MaxFailures + Cardinality(Calls)
=============================================================================
