------------------------------ MODULE Sessions ------------------------------
(***************************************************************************)
(* One account's sign-ins: its row of users, its refresh tokens and its    *)
(* email links, under the requests of app/services/auth_service.py and     *)
(* account_service.py and the admin's block switch.                        *)
(*                                                                         *)
(* Each request is one transaction at READ COMMITTED.  A SELECT sees what  *)
(* is committed; SELECT FOR UPDATE and UPDATE wait for the row's lock and  *)
(* look at the row again; locks last until the end of the transaction.     *)
(* What a request writes appears when it commits, all at once.             *)
(***************************************************************************)
EXTENDS Integers, Sequences, FiniteSets

CONSTANTS
  Requests,   \* requests that may overlap
  Passwords,
  MaxTokens,  \* bound: refresh tokens issued
  MaxLinks    \* bound: email links sent

ASSUME PasswordsAssumption == Passwords # {}
ASSUME BoundsAssumption == MaxTokens \in Nat \ {0} /\ MaxLinks \in Nat

VARIABLES
  user,    \* users: password_hash, is_verified, is_blocked
  tokens,  \* refresh_tokens in the order they were issued, each with the sign-in it stems from
  links,   \* email_tokens in the order they were sent
  req      \* each request: operation, place, rows to update, row locks, and for the
           \* properties had, the tokens (or links) that were there when it began

vars == <<user, tokens, links, req>>

Purposes == {"verify", "reset"}

(* "ended": revoked_at is set, for a link used_at.  Expiry is judged by the clock that a     *)
(* request read when it began, so two requests may disagree on it: any look at expires_at    *)
(* may find it passed.                                                                       *)
States == {"live", "ended"}

Idle == [op |-> "none", arg |-> 0, pc |-> "idle", writes |-> FALSE,
         rows |-> <<>>, locks |-> {}, had |-> 0]

UserRow     == <<"user", 0>>
TokenRow(i) == <<"token", i>>
LinkRow(i)  == <<"link", i>>

PurposeOf(op) == IF op \in {"forgot", "reset"} THEN "reset" ELSE "verify"

-----------------------------------------------------------------------------
(* An account that has just been registered: signed in once, no link sent yet. *)
Init ==
  /\ \E p \in Passwords : user = [password |-> p, verified |-> FALSE, blocked |-> FALSE]
  /\ tokens = <<[session |-> 1, state |-> "live"]>>
  /\ links = <<>>
  /\ req = [r \in Requests |-> Idle]

(* What a request may ask: with any password, any token or link handed out so far. *)
Offers ==
  [op : {"login"}, arg : Passwords] \cup [op : {"refresh", "logout"}, arg : DOMAIN tokens]
  \cup [op : {"verify", "reset"}, arg : DOMAIN links]
  \cup [op : {"forgot", "resend", "block", "unblock"}, arg : {0}]

Doing(ops) == {r \in Requests : req[r].op \in ops}

HasRoom(o) ==
  /\ o.op \in {"login", "refresh"} => Len(tokens) + Cardinality(Doing({"login", "refresh"})) < MaxTokens
  /\ o.op \in {"forgot", "resend"} =>
       Len(links) + Cardinality(Doing({"forgot", "resend"})) < MaxLinks

FirstStep(op) ==
  CASE op \in {"refresh", "logout"} -> "token"
    [] op \in {"verify", "reset"}   -> "link"
    [] OTHER                        -> "user"

(* For the properties: the tokens a sign-out is about, the links that a new one replaces. *)
Existing(op) ==
  CASE op \in {"refresh", "reset"} -> Len(tokens)
    [] op \in {"forgot", "resend"} -> Len(links)
    [] OTHER                       -> 0

Begin(r) ==
  /\ req[r].pc = "idle"
  /\ \E o \in Offers :
       /\ HasRoom(o)
       /\ req' = [req EXCEPT ![r] = [Idle EXCEPT !.op = o.op, !.arg = o.arg, !.pc = FirstStep(o.op),
                    !.had = Existing(o.op)]]
  /\ UNCHANGED <<user, tokens, links>>

Goto(r, pc) == req' = [req EXCEPT ![r].pc = pc]
Refuse(r)   == req' = [req EXCEPT ![r] = Idle]
Commit(r)   == req' = [req EXCEPT ![r] = Idle]

Held(r) == req[r].locks
Unlocked(r, row) == \A s \in Requests \ {r} : row \notin Held(s)

-----------------------------------------------------------------------------
(* mutant: the token is read without FOR UPDATE *)
PlainSelect(r, row) == row \notin Held(r)

(* SELECT ... FOR UPDATE *)
ForUpdate(r, row) == Unlocked(r, row)

(* get_by_hash ... FOR UPDATE.  refresh: a revoked token is a replay and ends every session. *)
(* logout: revokes and commits.                                                               *)
LockToken(r) ==
  LET t == req[r].arg IN
  /\ req[r].pc = "token" /\ ForUpdate(r, TokenRow(t))
  /\ IF req[r].op = "logout"
     THEN tokens' = [tokens EXCEPT ![t].state = "ended"] /\ Commit(r)
     ELSE /\ \/ req' = [req EXCEPT ![r].locks = {TokenRow(t)},
                                  ![r].pc = IF tokens[t].state = "ended" THEN "select" ELSE "user"]
             \/ tokens[t].state = "live" /\ Refuse(r)
          /\ UNCHANGED tokens
  /\ UNCHANGED <<user, links>>

(* _take: the link is looked at without a lock. *)
ReadLink(r) ==
  LET l == links[req[r].arg] IN
  /\ req[r].pc = "link"
  /\ \/ l.purpose = PurposeOf(req[r].op) /\ l.state = "live" /\ Goto(r, "user")
     \/ Refuse(r)
  /\ UNCHANGED <<user, tokens, links>>

(* The account as it is now: may the request go on, and will its flush update the row? *)
Refused(r) ==
  CASE req[r].op = "login"   -> user.password # req[r].arg \/ user.blocked
    [] req[r].op = "resend"  -> user.blocked \/ user.verified
    [] req[r].op \in {"block", "unblock"} -> FALSE
    [] OTHER                 -> user.blocked

Writes(r) ==
  CASE req[r].op = "verify"  -> ~user.verified
    [] req[r].op = "block"   -> ~user.blocked
    [] req[r].op = "unblock" -> user.blocked
    [] OTHER                 -> TRUE

(* verify and reset change the account and the link.  No relationship() joins the two       *)
(* mappers, so the flush may write their rows in either order.                              *)
FlushOrders(r) ==
  LET link == LinkRow(req[r].arg) IN
  IF Writes(r) THEN {<<UserRow, link>>, <<link, UserRow>>} ELSE {<<link>>}

ReadUser(r) ==
  /\ req[r].pc = "user"
  /\ IF Refused(r) THEN Refuse(r)
     ELSE IF req[r].op \in {"forgot", "resend"} THEN Goto(r, "select")
     ELSE IF req[r].op \in {"verify", "reset"}
     THEN \E order \in FlushOrders(r) : req' = [req EXCEPT ![r].pc = "flush", ![r].rows = order]
     ELSE req' = [req EXCEPT ![r].pc = "write", ![r].writes = Writes(r)]
  /\ UNCHANGED <<user, tokens, links>>

-----------------------------------------------------------------------------
(* mutant: the new token gets the sign-in of the old one's number *)
NamedAfterOld(session, old) ==
  [i \in 1..Len(tokens) + 1 |->
     IF i > Len(tokens) THEN [session |-> old, state |-> "live"]
     ELSE IF i = old THEN [tokens[i] EXCEPT !.state = "ended"] ELSE tokens[i]]

(* login, refresh and block write one row of users and commit.  _issue adds a token: a      *)
(* sign-in of its own, or for refresh the successor of the token that is revoked with it.    *)
Issue(session, old) ==
  [i \in 1..Len(tokens) + 1 |->
     IF i > Len(tokens) THEN [session |-> session, state |-> "live"]
     ELSE IF i = old THEN [tokens[i] EXCEPT !.state = "ended"] ELSE tokens[i]]

WriteUser(r) ==
  LET op == req[r].op  arg == req[r].arg IN
  /\ req[r].pc = "write" /\ (req[r].writes => Unlocked(r, UserRow))
  /\ \/ /\ op = "login" /\ Commit(r)
        /\ tokens' = Issue(Len(tokens) + 1, 0) /\ UNCHANGED user
     \/ /\ op = "refresh" /\ Commit(r)
        /\ tokens' = Issue(tokens[arg].session, arg) /\ UNCHANGED user
     \/ /\ op \in {"block", "unblock"} /\ Commit(r)
        /\ user' = IF req[r].writes THEN [user EXCEPT !.blocked = (op = "block")] ELSE user
        /\ UNCHANGED tokens
  /\ UNCHANGED links

(* One UPDATE of the flush: it waits for its row and holds it to the end of the transaction. *)
FlushRow(r) ==
  /\ req[r].pc = "flush" /\ req[r].rows # <<>> /\ Unlocked(r, Head(req[r].rows))
  /\ req' = [req EXCEPT ![r].rows = Tail(@), ![r].locks = @ \cup {Head(req[r].rows)}]
  /\ UNCHANGED <<user, tokens, links>>

(* Both rows are written: verify commits; reset goes on to sign every session out. *)
EndFlush(r) ==
  /\ req[r].pc = "flush" /\ req[r].rows = <<>>
  /\ IF req[r].op = "verify"
     THEN /\ user' = [user EXCEPT !.verified = TRUE]
          /\ links' = [links EXCEPT ![req[r].arg].state = "ended"]
          /\ Commit(r)
     ELSE Goto(r, "select") /\ UNCHANGED <<user, links>>
  /\ UNCHANGED tokens

-----------------------------------------------------------------------------
(* revoke_all_for_user and use_all: one UPDATE of every open row.  It takes the rows that    *)
(* match when it starts, in any order, waits for each and skips those that match no longer.  *)
SignsOut(r) == req[r].op \in {"refresh", "reset"}

(* mutant: links of the other kind are replaced *)
OtherKind(i, r) == links[i].purpose # PurposeOf(req[r].op) /\ links[i].state = "live"

Open(i, r) == links[i].purpose = PurposeOf(req[r].op) /\ links[i].state = "live"

Matching(r) ==
  IF SignsOut(r) THEN {TokenRow(i) : i \in {j \in DOMAIN tokens : tokens[j].state = "live"}}
  ELSE {LinkRow(i) : i \in {j \in DOMAIN links : Open(j, r)}}

Orders(rows) == {order \in [1..Cardinality(rows) -> rows] : \A row \in rows : \E i \in DOMAIN order : order[i] = row}

Select(r) ==
  /\ req[r].pc = "select"
  /\ \E order \in Orders(Matching(r)) : req' = [req EXCEPT ![r].pc = "rows", ![r].rows = order]
  /\ UNCHANGED <<user, tokens, links>>

(* mutant: a locked row is skipped *)
SkipsLocked(r) ==
  LET row == Head(req[r].rows) IN
  /\ req[r].pc = "rows" /\ req[r].rows # <<>>
  /\ req' = [req EXCEPT ![r].rows = Tail(@),
                        ![r].locks = IF Unlocked(r, row) /\ row \in Matching(r) THEN @ \cup {row} ELSE @]
  /\ UNCHANGED <<user, tokens, links>>

UpdateRow(r) ==
  LET row == Head(req[r].rows) IN
  /\ req[r].pc = "rows" /\ req[r].rows # <<>> /\ Unlocked(r, row)
  /\ req' = [req EXCEPT ![r].rows = Tail(@),
                        ![r].locks = IF row \in Matching(r) THEN @ \cup {row} ELSE @]
  /\ UNCHANGED <<user, tokens, links>>

EndAll(rows, RowOf(_), locks) ==
  [i \in DOMAIN rows |-> IF RowOf(i) \in locks THEN [rows[i] EXCEPT !.state = "ended"] ELSE rows[i]]

(* The end of a replayed refresh, of a reset, or of a new link. *)
CommitAll(r) ==
  /\ req[r].pc = "rows" /\ req[r].rows = <<>>
  /\ Commit(r)
  /\ tokens' = EndAll(tokens, TokenRow, Held(r))
  /\ LET left == EndAll(links, LinkRow, Held(r)) IN
     links' = IF SignsOut(r) THEN left
              ELSE Append(left, [purpose |-> PurposeOf(req[r].op), state |-> "live"])
  /\ IF req[r].op = "reset"
     THEN \E p \in Passwords : user' = [user EXCEPT !.password = p, !.verified = TRUE]
     ELSE UNCHANGED user

-----------------------------------------------------------------------------
(* The row a request waits for, if it is at a point where it may have to wait. *)
Wanted(r) ==
  CASE req[r].pc = "token"                       -> {TokenRow(req[r].arg)}
    [] req[r].pc = "write" /\ req[r].writes      -> {UserRow}
    [] req[r].pc \in {"flush", "rows"} /\ req[r].rows # <<>> -> {Head(req[r].rows)}
    [] OTHER                                     -> {}

WaitsFor(r, s) == r # s /\ Wanted(r) \cap Held(s) # {}

(* Requests that wait for each other in a circle. *)
Circle(S) == S # {} /\ \A r \in S : \E s \in S : WaitsFor(r, s)

(* PostgreSQL ends one of them; its transaction is rolled back and the request fails. *)
DeadlockDetected(r) ==
  /\ \E S \in SUBSET Requests : r \in S /\ Circle(S)
  /\ Refuse(r)
  /\ UNCHANGED <<user, tokens, links>>

-----------------------------------------------------------------------------
Step(r) ==
  \/ LockToken(r) \/ ReadLink(r) \/ ReadUser(r) \/ WriteUser(r) \/ FlushRow(r) \/ EndFlush(r)
  \/ Select(r) \/ UpdateRow(r) \/ CommitAll(r) \/ DeadlockDetected(r)

Next == \E r \in Requests : Begin(r) \/ Step(r)

Spec == Init /\ [][Next]_vars

-----------------------------------------------------------------------------
(* Properties                                                              *)

Ops    == {"login", "refresh", "logout", "verify", "reset", "forgot", "resend", "block", "unblock"}
Places == {"idle", "token", "link", "user", "write", "flush", "select", "rows"}
Row    == {"user", "token", "link"} \X Nat

Request == [op : Ops \cup {"none"}, arg : Passwords \cup Nat, pc : Places, writes : BOOLEAN,
            rows : Seq(Row), locks : SUBSET Row, had : Nat]

(* A token's sign-in is one that had begun when the token was issued. *)
TypeOK ==
  /\ user \in [password : Passwords, verified : BOOLEAN, blocked : BOOLEAN]
  /\ tokens \in Seq([session : Nat, state : States])
  /\ \A i \in DOMAIN tokens : tokens[i].session \in 1..i
  /\ links \in Seq([purpose : Purposes, state : States])
  /\ req \in [Requests -> Request]

(* A sign-in has at most one token that still works, however many tabs refresh it at once. *)
OneLivePerSession ==
  \A i, j \in DOMAIN tokens :
    i # j /\ tokens[i].session = tokens[j].session =>
      tokens[i].state = "ended" \/ tokens[j].state = "ended"

EndsMany(r) == req[r].pc = "rows" /\ req[r].rows = <<>> /\ req'[r].pc = "idle"

(* When a reset or a replayed token signs every session out, no token that was there when   *)
(* the request began works any more, whatever other requests were doing with it.            *)
SignOutIsComplete ==
  [][\A r \in Requests : EndsMany(r) /\ SignsOut(r) =>
       \A t \in 1..req[r].had : tokens'[t].state = "ended"]_vars

(* A new link replaces every older one of its kind: two of them can only be open when the   *)
(* requests that sent them overlapped.                                                       *)
NewLinkReplacesOlder ==
  [][\A r \in Requests : EndsMany(r) /\ ~SignsOut(r) =>
       \A l \in 1..req[r].had : links[l].purpose = PurposeOf(req[r].op) => links'[l].state = "ended"]_vars
=============================================================================
