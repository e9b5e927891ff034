-------------------------- MODULE Sessions_proofs --------------------------
(***************************************************************************)
(* Proofs about Sessions, for any number of overlapping requests, tokens   *)
(* and links.                                                              *)
(***************************************************************************)
EXTENDS Sessions, FiniteSetTheorems, TLAPS

USE PasswordsAssumption, BoundsAssumption

Token == [session : Nat, state : States]
Link  == [purpose : Purposes, state : States]

-----------------------------------------------------------------------------
(* Where each operation may be, and what its argument names. *)
PlaceInv(r) ==
  LET q == req[r] IN
  /\ q.pc = "token" => q.op \in {"refresh", "logout"}
  /\ q.pc \in {"link", "flush"} => q.op \in {"verify", "reset"}
  /\ q.pc = "user" => q.op \in Ops \ {"logout"}
  /\ q.pc = "write" => q.op \in {"login", "refresh", "block", "unblock"}
  /\ q.pc \in {"select", "rows"} => q.op \in {"refresh", "reset", "forgot", "resend"}
  /\ q.op \in {"refresh", "logout"} => q.arg \in DOMAIN tokens
  /\ q.op \in {"verify", "reset"} => q.arg \in DOMAIN links

(* A refresh that goes on holds its token, and the token is live. *)
RotationInv(r) ==
  req[r].op = "refresh" /\ req[r].pc \in {"user", "write"} =>
    TokenRow(req[r].arg) \in Held(r) /\ tokens[req[r].arg].state = "live"

(* What an update of many rows still has to do: a row that was there when the request began *)
(* is ended, or locked to be ended, or still on the list.                                   *)
Listed(r, row) == \E i \in DOMAIN req[r].rows : req[r].rows[i] = row
Covered(r, row, state) == state = "ended" \/ row \in Held(r) \/ Listed(r, row)

UpdateInv(r) ==
  /\ SignsOut(r) =>
       /\ req[r].had <= Len(tokens)
       /\ req[r].pc = "rows" => \A t \in 1..req[r].had : Covered(r, TokenRow(t), tokens[t].state)
  /\ req[r].op \in {"forgot", "resend"} =>
       /\ req[r].had <= Len(links)
       /\ req[r].pc = "rows" =>
            \A l \in 1..req[r].had : links[l].purpose = PurposeOf(req[r].op) =>
                                       Covered(r, LinkRow(l), links[l].state)

RequestInv(r) == PlaceInv(r) /\ RotationInv(r) /\ UpdateInv(r)

(* A row is never locked by two transactions. *)
LocksExclude == \A r, s \in Requests : r # s => Held(r) \cap Held(s) = {}

IInv == TypeOK /\ LocksExclude /\ OneLivePerSession /\ \A r \in Requests : RequestInv(r)

-----------------------------------------------------------------------------
(* What any step may do to the rows of a request that does not take it. *)
TokensGo(s) ==
  /\ Len(tokens) <= Len(tokens')
  /\ \A i \in DOMAIN tokens :
       tokens'[i] = tokens[i] \/ (tokens'[i].state = "ended" /\ TokenRow(i) \notin Held(s))

LinksGo ==
  /\ Len(links) <= Len(links')
  /\ \A i \in DOMAIN links :
       links'[i].purpose = links[i].purpose /\ (links'[i] = links[i] \/ links'[i].state = "ended")

LEMMA Others ==
  ASSUME IInv, TypeOK', NEW s \in Requests, req'[s] = req[s], TokensGo(s), LinksGo
  PROVE  RequestInv(s)'
<1>1. DOMAIN tokens = 1..Len(tokens) /\ DOMAIN tokens' = 1..Len(tokens')
      /\ DOMAIN links = 1..Len(links) /\ DOMAIN links' = 1..Len(links')
      /\ Len(tokens) \in Nat /\ Len(tokens') \in Nat /\ Len(links) \in Nat /\ Len(links') \in Nat
  BY DEF IInv, TypeOK
<1>2. PlaceInv(s)'
  BY <1>1 DEF IInv, RequestInv, PlaceInv, TokensGo, LinksGo
<1>3. RotationInv(s)'
  BY <1>1 DEF IInv, RequestInv, PlaceInv, RotationInv, TokensGo, Held
<1>4. UpdateInv(s)'
  <2>1. req[s].had \in Nat
    BY DEF IInv, TypeOK, Request
  <2>2. ASSUME SignsOut(s)'
        PROVE  /\ req'[s].had <= Len(tokens')
               /\ req'[s].pc = "rows" => \A t \in 1..req'[s].had : Covered(s, TokenRow(t), tokens[t].state)'
    <3>1. SignsOut(s) /\ req[s].had <= Len(tokens)
      BY <2>2 DEF IInv, RequestInv, UpdateInv, SignsOut
    <3>2. ASSUME req[s].pc = "rows", NEW t \in 1..req[s].had
          PROVE  Covered(s, TokenRow(t), tokens[t].state)'
      <4>1. Covered(s, TokenRow(t), tokens[t].state) /\ t \in DOMAIN tokens
        BY <1>1, <2>1, <3>1, <3>2 DEF IInv, RequestInv, UpdateInv
      <4> QED
        BY <4>1 DEF Covered, Listed, Held, TokensGo
    <3> QED
      BY <1>1, <2>1, <3>1, <3>2 DEF TokensGo
  <2>3. ASSUME req'[s].op \in {"forgot", "resend"}
        PROVE  /\ req'[s].had <= Len(links')
               /\ req'[s].pc = "rows" =>
                    \A l \in 1..req'[s].had : links'[l].purpose = PurposeOf(req'[s].op) =>
                                                Covered(s, LinkRow(l), links[l].state)'
    <3>1. req[s].had <= Len(links)
      BY <2>3 DEF IInv, RequestInv, UpdateInv
    <3>2. ASSUME req[s].pc = "rows", NEW l \in 1..req[s].had, links'[l].purpose = PurposeOf(req[s].op)
          PROVE  Covered(s, LinkRow(l), links[l].state)'
      <4>1. l \in DOMAIN links
        BY <1>1, <2>1, <3>1
      <4>2. Covered(s, LinkRow(l), links[l].state)
        BY <2>3, <3>2, <4>1 DEF IInv, RequestInv, UpdateInv, LinksGo
      <4> QED
        BY <4>1, <4>2 DEF Covered, Listed, Held, LinksGo
    <3> QED
      BY <1>1, <2>1, <3>1, <3>2 DEF LinksGo
  <2> QED
    BY <2>2, <2>3 DEF UpdateInv, SignsOut
<1> QED
  BY <1>2, <1>3, <1>4 DEF RequestInv

-----------------------------------------------------------------------------
LEMMA IdleType == Idle \in Request
BY DEF Idle, Request, Places, Row

(* A request that ends, by a commit, a refusal or a deadlock, lets go of everything. *)
LEMMA Ends ==
  ASSUME IInv, NEW r \in Requests, req' = [req EXCEPT ![r] = Idle]
  PROVE  /\ req' \in [Requests -> Request]
         /\ LocksExclude'
         /\ RequestInv(r)'
         /\ \A s \in Requests \ {r} : req'[s] = req[s]
<1>1. req' \in [Requests -> Request] /\ req'[r] = Idle /\ \A s \in Requests \ {r} : req'[s] = req[s]
  BY IdleType DEF IInv, TypeOK
<1>2. LocksExclude'
  BY <1>1 DEF IInv, LocksExclude, Held, Idle
<1>3. RequestInv(r)'
  BY <1>1 DEF RequestInv, PlaceInv, RotationInv, UpdateInv, SignsOut, Idle
<1> QED
  BY <1>1, <1>2, <1>3

(* A request that goes on keeps its operation; it may lock a row that nobody else holds. *)
LEMMA GoesOn ==
  ASSUME IInv, NEW r \in Requests, NEW q \in Request, req' = [req EXCEPT ![r] = q],
         \A row \in q.locks \ Held(r) : Unlocked(r, row)
  PROVE  /\ req' \in [Requests -> Request]
         /\ LocksExclude'
         /\ req'[r] = q
         /\ \A s \in Requests \ {r} : req'[s] = req[s]
<1>1. req' \in [Requests -> Request] /\ req'[r] = q /\ \A s \in Requests \ {r} : req'[s] = req[s]
  BY DEF IInv, TypeOK
<1>2. LocksExclude'
  <2> SUFFICES ASSUME NEW s \in Requests, NEW u \in Requests, s # u,
                      NEW row, row \in Held(s)', row \in Held(u)'
               PROVE  FALSE
    BY DEF LocksExclude
  <2> QED
    BY <1>1 DEF IInv, LocksExclude, Held, Unlocked
<1> QED
  BY <1>1, <1>2

(* The parts of a step together. *)
LEMMA StepKeeps ==
  ASSUME IInv, NEW r \in Requests, TypeOK', LocksExclude', OneLivePerSession', RequestInv(r)',
         \A s \in Requests \ {r} : req'[s] = req[s] /\ TokensGo(s), LinksGo
  PROVE  IInv'
<1>1. ASSUME NEW s \in Requests PROVE RequestInv(s)'
  <2>1. CASE s = r
    BY <2>1
  <2>2. CASE s # r
    BY <2>2, Others
  <2> QED
    BY <2>1, <2>2
<1> QED
  BY <1>1 DEF IInv

(* A step that leaves the tables alone. *)
LEMMA TablesUnchanged ==
  ASSUME IInv, UNCHANGED <<user, tokens, links>>, req' \in [Requests -> Request]
  PROVE  TypeOK' /\ OneLivePerSession' /\ LinksGo /\ \A s \in Requests : TokensGo(s)
BY DEF IInv, TypeOK, OneLivePerSession, LinksGo, TokensGo

-----------------------------------------------------------------------------
LEMMA RefuseKeeps ==
  ASSUME IInv, NEW r \in Requests, Refuse(r), UNCHANGED <<user, tokens, links>>
  PROVE  IInv'
<1>1. /\ req' \in [Requests -> Request] /\ LocksExclude' /\ RequestInv(r)'
      /\ \A s \in Requests \ {r} : req'[s] = req[s]
  BY Ends DEF Refuse
<1>2. TypeOK' /\ OneLivePerSession' /\ LinksGo /\ \A s \in Requests : TokensGo(s)
  BY <1>1, TablesUnchanged
<1> QED
  BY <1>1, <1>2, StepKeeps

(* A step that leaves the tables alone and keeps the request's promises. *)
LEMMA GoingOnKeeps ==
  ASSUME IInv, NEW r \in Requests, NEW q \in Request, req' = [req EXCEPT ![r] = q],
         \A row \in q.locks \ Held(r) : Unlocked(r, row), UNCHANGED <<user, tokens, links>>,
         req'[r] = q => RequestInv(r)'
  PROVE  IInv'
<1>1. /\ req' \in [Requests -> Request] /\ LocksExclude' /\ req'[r] = q
      /\ \A s \in Requests \ {r} : req'[s] = req[s]
  BY GoesOn
<1>2. TypeOK' /\ OneLivePerSession' /\ LinksGo /\ \A s \in Requests : TokensGo(s)
  BY <1>1, TablesUnchanged
<1> QED
  BY <1>1, <1>2, StepKeeps

LEMMA BeginKeeps ==
  ASSUME IInv, NEW r \in Requests, Begin(r)
  PROVE  IInv'
<1>1. PICK o \in Offers :
        req' = [req EXCEPT ![r] = [Idle EXCEPT !.op = o.op, !.arg = o.arg, !.pc = FirstStep(o.op),
                  !.had = Existing(o.op)]]
  BY DEF Begin
<1>2. UNCHANGED <<user, tokens, links>>
  BY DEF Begin
<1> DEFINE q == [Idle EXCEPT !.op = o.op, !.arg = o.arg, !.pc = FirstStep(o.op), !.had = Existing(o.op)]
<1>3. DOMAIN tokens \subseteq Nat /\ DOMAIN links \subseteq Nat /\ Len(tokens) \in Nat /\ Len(links) \in Nat
  BY DEF IInv, TypeOK
<1>4. /\ o.op \in Ops /\ o.arg \in Passwords \cup Nat
      /\ o.op \in {"refresh", "logout"} => o.arg \in DOMAIN tokens
      /\ o.op \in {"verify", "reset"} => o.arg \in DOMAIN links
  BY <1>3 DEF Offers, Ops
<1>5. FirstStep(o.op) \in {"token", "link", "user"}
      /\ (FirstStep(o.op) = "token" => o.op \in {"refresh", "logout"})
      /\ (FirstStep(o.op) = "link" => o.op \in {"verify", "reset"})
      /\ (FirstStep(o.op) = "user" => o.op \notin {"refresh", "logout", "verify", "reset"})
  BY DEF FirstStep
<1>6. /\ Existing(o.op) \in Nat
      /\ o.op \in {"refresh", "reset"} => Existing(o.op) = Len(tokens)
      /\ o.op \in {"forgot", "resend"} => Existing(o.op) = Len(links)
  BY <1>3 DEF Existing
<1>7. /\ q \in Request /\ q.locks = {} /\ q.op = o.op /\ q.arg = o.arg
      /\ q.pc = FirstStep(o.op) /\ q.had = Existing(o.op)
  <2>1. FirstStep(o.op) \in Places
    BY <1>5 DEF Places
  <2>2. Idle \in Request /\ Idle.locks = {}
    BY IdleType DEF Idle
  <2> QED
    BY <1>4, <1>6, <2>1, <2>2 DEF Request
<1>8. ASSUME req'[r] = q PROVE RequestInv(r)'
  <2>1. PlaceInv(r)'
    BY <1>2, <1>4, <1>5, <1>7, <1>8 DEF PlaceInv
  <2>2. RotationInv(r)'
    BY <1>5, <1>7, <1>8 DEF RotationInv
  <2>3. UpdateInv(r)'
    BY <1>2, <1>3, <1>5, <1>6, <1>7, <1>8 DEF UpdateInv, SignsOut
  <2> QED
    BY <2>1, <2>2, <2>3 DEF RequestInv
<1>9. req' = [req EXCEPT ![r] = q] /\ \A row \in q.locks \ Held(r) : Unlocked(r, row)
  BY <1>1, <1>7
<1> HIDE DEF q
<1> QED
  BY <1>2, <1>7, <1>8, <1>9, GoingOnKeeps

-----------------------------------------------------------------------------
LEMMA RequestType == ASSUME IInv, NEW r \in Requests PROVE req[r] \in Request
BY DEF IInv, TypeOK

LEMMA RowTypes ==
  ASSUME IInv
  PROVE  /\ tokens \in [1..Len(tokens) -> Token] /\ Len(tokens) \in Nat /\ DOMAIN tokens = 1..Len(tokens)
         /\ links \in [1..Len(links) -> Link] /\ Len(links) \in Nat /\ DOMAIN links = 1..Len(links)
         /\ \A i \in DOMAIN tokens : tokens[i] \in Token /\ tokens[i].state \in States
         /\ \A i \in DOMAIN links : links[i] \in Link /\ links[i].state \in States
<1>1. tokens \in Seq(Token) /\ links \in Seq(Link)
  BY DEF IInv, TypeOK, Token, Link
<1>2. /\ tokens \in [1..Len(tokens) -> Token] /\ Len(tokens) \in Nat
      /\ links \in [1..Len(links) -> Link] /\ Len(links) \in Nat
  BY <1>1
<1> QED
  BY <1>2 DEF Token, Link

LEMMA ReadLinkKeeps ==
  ASSUME IInv, NEW r \in Requests, ReadLink(r)
  PROVE  IInv'
<1>1. CASE Refuse(r)
  BY <1>1, RefuseKeeps DEF ReadLink
<1>2. CASE Goto(r, "user")
  <2> DEFINE q == [req[r] EXCEPT !.pc = "user"]
  <2>1. q \in Request /\ q.locks = Held(r) /\ req' = [req EXCEPT ![r] = q]
    BY <1>2, RequestType DEF Goto, Request, Places, Held
  <2>2. req[r].op \in {"verify", "reset"} /\ UNCHANGED <<user, tokens, links>>
    BY DEF IInv, RequestInv, PlaceInv, ReadLink
  <2>3. ASSUME req'[r] = q PROVE RequestInv(r)'
    <3>1. req'[r].op = req[r].op /\ req'[r].arg = req[r].arg /\ req'[r].pc = "user" /\ req'[r].had = req[r].had
      BY <2>3, RequestType DEF Request
    <3> QED
      BY <2>2, <3>1 DEF IInv, RequestInv, PlaceInv, RotationInv, UpdateInv, SignsOut, Ops
  <2> HIDE DEF q
  <2> QED
    BY <2>1, <2>2, <2>3, GoingOnKeeps
<1> QED
  BY <1>1, <1>2 DEF ReadLink

LEMMA ReadUserKeeps ==
  ASSUME IInv, NEW r \in Requests, ReadUser(r)
  PROVE  IInv'
<1>1. CASE Refuse(r)
  BY <1>1, RefuseKeeps DEF ReadUser
<1>2. CASE req[r].op \in {"forgot", "resend"} /\ Goto(r, "select")
  <2> DEFINE q == [req[r] EXCEPT !.pc = "select"]
  <2>1. q \in Request /\ q.locks = Held(r) /\ req' = [req EXCEPT ![r] = q]
    BY <1>2, RequestType DEF Goto, Request, Places, Held
  <2>2. UNCHANGED <<user, tokens, links>>
    BY DEF ReadUser
  <2>3. ASSUME req'[r] = q PROVE RequestInv(r)'
    <3>1. req'[r].op = req[r].op /\ req'[r].arg = req[r].arg /\ req'[r].pc = "select" /\ req'[r].had = req[r].had
      BY <2>3, RequestType DEF Request
    <3> QED
      BY <1>2, <2>2, <3>1 DEF IInv, RequestInv, PlaceInv, RotationInv, UpdateInv, SignsOut
  <2> HIDE DEF q
  <2> QED
    BY <2>1, <2>2, <2>3, GoingOnKeeps
<1>3. CASE /\ req[r].op \notin {"forgot", "resend", "verify", "reset"}
           /\ req' = [req EXCEPT ![r].pc = "write", ![r].writes = Writes(r)]
  <2> DEFINE q == [req[r] EXCEPT !.pc = "write", !.writes = Writes(r)]
  <2>0. Writes(r) \in BOOLEAN
    BY DEF Writes, IInv, TypeOK
  <2>1. q \in Request /\ q.locks = Held(r) /\ req' = [req EXCEPT ![r] = q]
    BY <1>3, <2>0, RequestType DEF Request, Places, Held, IInv, TypeOK
  <2>2. UNCHANGED <<user, tokens, links>> /\ req[r].pc = "user"
    BY DEF ReadUser
  <2>3. ASSUME req'[r] = q PROVE RequestInv(r)'
    <3>1. req'[r].op = req[r].op /\ req'[r].arg = req[r].arg /\ req'[r].pc = "write" /\ req'[r].had = req[r].had
          /\ req'[r].locks = req[r].locks
      BY <2>3, RequestType DEF Request
    <3> QED
      BY <1>3, <2>2, <3>1 DEF IInv, RequestInv, PlaceInv, RotationInv, UpdateInv, SignsOut, Held, Ops
  <2> HIDE DEF q
  <2> QED
    BY <2>1, <2>2, <2>3, GoingOnKeeps
<1>4. ASSUME req[r].op \in {"verify", "reset"}, NEW order \in FlushOrders(r),
             req' = [req EXCEPT ![r].pc = "flush", ![r].rows = order]
      PROVE  IInv'
  <2> DEFINE q == [req[r] EXCEPT !.pc = "flush", !.rows = order]
  <2>1. order \in Seq(Row)
    <3>1. req[r].arg \in Nat
      BY <1>4, RowTypes DEF IInv, RequestInv, PlaceInv
    <3> DEFINE link == LinkRow(req[r].arg)
    <3>2. UserRow \in Row /\ link \in Row
      BY <3>1 DEF Row, UserRow, LinkRow
    <3>3. order \in {<<UserRow, link>>, <<link, UserRow>>, <<link>>}
      BY <1>4 DEF FlushOrders
    <3>4. ASSUME NEW S, NEW a \in S, NEW b \in S
          PROVE  <<a, b>> \in Seq(S) /\ <<b>> \in Seq(S)
      OBVIOUS
    <3> HIDE DEF link
    <3>5. <<UserRow, link>> \in Seq(Row) /\ <<link, UserRow>> \in Seq(Row) /\ <<link>> \in Seq(Row)
      BY <3>2, <3>4
    <3> QED
      BY <3>3, <3>5, Zenon
  <2>2. q \in Request /\ q.locks = Held(r) /\ req' = [req EXCEPT ![r] = q]
    <3>1. req[r] \in Request /\ "flush" \in Places /\ r \in DOMAIN req
      BY RequestType DEF Places, IInv, TypeOK
    <3>2. q \in Request /\ q.locks = req[r].locks
      BY <2>1, <3>1 DEF Request
    <3> QED
      BY <1>4, <3>1, <3>2, Zenon DEF Held
  <2>3. UNCHANGED <<user, tokens, links>>
    BY DEF ReadUser
  <2>4. ASSUME req'[r] = q PROVE RequestInv(r)'
    <3>1. req'[r].op = req[r].op /\ req'[r].arg = req[r].arg /\ req'[r].pc = "flush" /\ req'[r].had = req[r].had
      BY <2>4, RequestType DEF Request
    <3> QED
      BY <1>4, <2>3, <3>1 DEF IInv, RequestInv, PlaceInv, RotationInv, UpdateInv, SignsOut
  <2> HIDE DEF q
  <2> QED
    BY <2>2, <2>3, <2>4, GoingOnKeeps
<1> QED
  BY <1>1, <1>2, <1>3, <1>4 DEF ReadUser

(* A token that nobody else holds may be ended. *)
LEMMA EndTokenKeeps ==
  ASSUME IInv, NEW r \in Requests, req' = [req EXCEPT ![r] = Idle], UNCHANGED <<user, links>>,
         NEW t \in DOMAIN tokens, Unlocked(r, TokenRow(t)), tokens' = [tokens EXCEPT ![t].state = "ended"]
  PROVE  IInv'
<1>1. /\ req' \in [Requests -> Request] /\ LocksExclude' /\ RequestInv(r)'
      /\ \A s \in Requests \ {r} : req'[s] = req[s]
  BY Ends
<1>2. tokens \in Seq(Token)
  BY DEF IInv, TypeOK, Token
<1>3. /\ tokens' \in Seq(Token) /\ DOMAIN tokens' = DOMAIN tokens /\ Len(tokens') = Len(tokens)
      /\ \A i \in DOMAIN tokens : tokens'[i].session = tokens[i].session
      /\ \A i \in DOMAIN tokens : i # t => tokens'[i] = tokens[i]
      /\ tokens'[t].state = "ended"
  <2>1. tokens \in [1..Len(tokens) -> Token] /\ Len(tokens) \in Nat /\ DOMAIN tokens = 1..Len(tokens)
    BY <1>2
  <2>2. [tokens[t] EXCEPT !.state = "ended"] \in Token
        /\ [tokens[t] EXCEPT !.state = "ended"].session = tokens[t].session
        /\ [tokens[t] EXCEPT !.state = "ended"].state = "ended"
    BY <2>1 DEF Token, States
  <2>3. tokens' \in [1..Len(tokens) -> Token] /\ tokens'[t] = [tokens[t] EXCEPT !.state = "ended"]
        /\ \A i \in DOMAIN tokens : i # t => tokens'[i] = tokens[i]
    BY <2>1, <2>2
  <2> QED
    BY <2>1, <2>2, <2>3
<1>4. TypeOK'
  BY <1>1, <1>3 DEF IInv, TypeOK, Token
<1>5. OneLivePerSession'
  BY <1>3 DEF IInv, OneLivePerSession
<1>6. LinksGo /\ \A s \in Requests \ {r} : TokensGo(s)
  BY <1>2, <1>3 DEF IInv, TypeOK, LinksGo, TokensGo, Unlocked
<1> QED
  BY <1>1, <1>4, <1>5, <1>6, StepKeeps

LEMMA LockTokenKeeps ==
  ASSUME IInv, NEW r \in Requests, LockToken(r)
  PROVE  IInv'
<1> DEFINE t == req[r].arg
<1>1. t \in DOMAIN tokens /\ Unlocked(r, TokenRow(t)) /\ t \in Nat
  BY DEF IInv, TypeOK, RequestInv, PlaceInv, LockToken, ForUpdate
<1>2. CASE req[r].op = "logout"
  <2>1. UNCHANGED <<user, links>> /\ tokens' = [tokens EXCEPT ![t].state = "ended"] /\ req' = [req EXCEPT ![r] = Idle]
    BY <1>2 DEF LockToken, Commit
  <2> QED
    BY <1>1, <2>1, EndTokenKeeps
<1>3. CASE req[r].op # "logout" /\ Refuse(r)
  BY <1>3, RefuseKeeps DEF LockToken
<1>4. ASSUME req[r].op # "logout",
             NEW pc \in {"select", "user"}, pc = "user" => tokens[t].state = "live",
             req' = [req EXCEPT ![r].locks = {TokenRow(t)}, ![r].pc = pc]
      PROVE  IInv'
  <2> DEFINE q == [req[r] EXCEPT !.locks = {TokenRow(t)}, !.pc = pc]
  <2>1. q \in Request /\ q.locks = {TokenRow(t)} /\ req' = [req EXCEPT ![r] = q]
    <3>1. {TokenRow(t)} \in SUBSET Row
      BY <1>1 DEF Row, TokenRow
    <3> QED
      BY <1>4, <3>1, RequestType DEF Request, Places, IInv, TypeOK
  <2>2. UNCHANGED <<user, tokens, links>> /\ req[r].op = "refresh"
    BY <1>4 DEF LockToken, IInv, RequestInv, PlaceInv
  <2>3. ASSUME req'[r] = q PROVE RequestInv(r)'
    <3>1. req'[r].op = req[r].op /\ req'[r].arg = t /\ req'[r].pc = pc /\ req'[r].had = req[r].had
          /\ req'[r].locks = {TokenRow(t)}
      BY <2>3, RequestType DEF Request
    <3> QED
      BY <1>1, <1>4, <2>2, <3>1 DEF IInv, RequestInv, PlaceInv, RotationInv, UpdateInv, SignsOut, Held, Ops
  <2> HIDE DEF q
  <2> QED
    BY <1>1, <2>1, <2>2, <2>3, GoingOnKeeps
<1>5. tokens[t].state \in States
  BY <1>1, RowTypes
<1>6. CASE req[r].op # "logout" /\ ~Refuse(r) /\ tokens[t].state = "ended"
  <2>1. req' = [req EXCEPT ![r].locks = {TokenRow(t)}, ![r].pc = "select"]
    BY <1>6 DEF LockToken
  <2> QED
    BY <1>4, <1>6, <2>1
<1>7. CASE req[r].op # "logout" /\ ~Refuse(r) /\ tokens[t].state = "live"
  <2>1. req' = [req EXCEPT ![r].locks = {TokenRow(t)}, ![r].pc = "user"]
    BY <1>7 DEF LockToken
  <2> QED
    BY <1>4, <1>7, <2>1
<1> QED
  BY <1>2, <1>3, <1>5, <1>6, <1>7 DEF States

LEMMA DeadlockDetectedKeeps ==
  ASSUME IInv, NEW r \in Requests, DeadlockDetected(r)
  PROVE  IInv'
BY RefuseKeeps DEF DeadlockDetected

-----------------------------------------------------------------------------
(* The tables after _issue. *)
LEMMA IssueType ==
  ASSUME IInv, NEW session \in Nat, NEW old \in Nat
  PROVE  LET new == Issue(session, old)  n == Len(tokens) IN
         /\ new \in Seq(Token) /\ Len(new) = n + 1 /\ DOMAIN new = 1..(n + 1)
         /\ new[n + 1] = [session |-> session, state |-> "live"]
         /\ \A i \in 1..n : /\ new[i].session = tokens[i].session
                            /\ i # old => new[i] = tokens[i]
                            /\ i = old => new[i].state = "ended"
<1> DEFINE n == Len(tokens)
           new == Issue(session, old)
<1>1. n \in Nat /\ \A i \in 1..n : tokens[i] \in Token
  BY RowTypes
<1>2. ASSUME NEW i \in 1..n
      PROVE  LET e == [tokens[i] EXCEPT !.state = "ended"] IN
             e \in Token /\ e.session = tokens[i].session /\ e.state = "ended"
  BY <1>1, <1>2 DEF Token, States
<1>3. [session |-> session, state |-> "live"] \in Token
  BY DEF Token, States
<1>4. \A i \in 1..(n + 1) : new[i] \in Token
  BY <1>1, <1>2, <1>3 DEF Issue
<1>5. new \in [1..(n + 1) -> Token]
  BY <1>4 DEF Issue
<1>6. new \in Seq(Token) /\ Len(new) = n + 1 /\ DOMAIN new = 1..(n + 1)
  BY <1>1, <1>5
<1>7. new[n + 1] = [session |-> session, state |-> "live"]
  BY <1>1 DEF Issue
<1>8. ASSUME NEW i \in 1..n
      PROVE  /\ new[i].session = tokens[i].session
             /\ i # old => new[i] = tokens[i]
             /\ i = old => new[i].state = "ended"
  BY <1>1, <1>2 DEF Issue
<1> QED
  BY <1>6, <1>7, <1>8

(* A commit that issues a token: for a sign-in of its own, or in place of a live token that *)
(* nobody else holds.                                                                       *)
LEMMA IssueKeeps ==
  ASSUME IInv, NEW r \in Requests, req' = [req EXCEPT ![r] = Idle], UNCHANGED <<user, links>>,
         NEW session \in Nat, NEW old \in Nat, tokens' = Issue(session, old),
         \/ session = Len(tokens) + 1 /\ old = 0
         \/ /\ old \in DOMAIN tokens /\ session = tokens[old].session /\ tokens[old].state = "live"
            /\ \A s \in Requests \ {r} : TokenRow(old) \notin Held(s)
  PROVE  IInv'
<1> DEFINE n == Len(tokens)
<1>1. /\ req' \in [Requests -> Request] /\ LocksExclude' /\ RequestInv(r)'
      /\ \A s \in Requests \ {r} : req'[s] = req[s]
  BY Ends
<1>2. /\ tokens' \in Seq(Token) /\ Len(tokens') = n + 1 /\ DOMAIN tokens' = 1..(n + 1)
      /\ tokens'[n + 1] = [session |-> session, state |-> "live"]
      /\ \A i \in 1..n : /\ tokens'[i].session = tokens[i].session
                         /\ i # old => tokens'[i] = tokens[i]
                         /\ i = old => tokens'[i].state = "ended"
  BY IssueType
<1>3. n \in Nat /\ DOMAIN tokens = 1..n /\ \A i \in 1..n : tokens[i].session \in 1..i
  BY RowTypes DEF IInv, TypeOK
<1>4. session \in 1..(n + 1)
  BY <1>3
<1>5. \A i \in 1..(n + 1) : tokens'[i].session \in 1..i
  BY <1>2, <1>3, <1>4
<1>6. TypeOK'
  BY <1>1, <1>2, <1>5 DEF IInv, TypeOK, Token
<1>7. OneLivePerSession'
  <2> SUFFICES ASSUME NEW i \in 1..(n + 1), NEW j \in 1..(n + 1), i # j,
                      tokens'[i].session = tokens'[j].session,
                      tokens'[i].state # "ended", tokens'[j].state # "ended"
               PROVE  FALSE
    BY <1>2 DEF OneLivePerSession
  <2>1. CASE i \in 1..n /\ j \in 1..n
    <3>1. tokens'[i] = tokens[i] /\ tokens'[j] = tokens[j]
      BY <1>2, <2>1
    <3>2. OneLivePerSession /\ i \in DOMAIN tokens /\ j \in DOMAIN tokens
      BY <1>3, <2>1 DEF IInv
    <3> QED
      BY <3>1, <3>2 DEF OneLivePerSession
  <2>2. ASSUME NEW k \in 1..n, tokens'[k].session = session, tokens'[k].state # "ended"
        PROVE  FALSE
    <3>1. k # old /\ tokens[k].session = session /\ tokens[k].state # "ended" /\ k < n + 1
      BY <1>2, <1>3, <2>2
    <3>2. old \in DOMAIN tokens /\ session = tokens[old].session /\ tokens[old].state = "live"
      BY <1>3, <3>1
    <3> QED
      BY <1>3, <3>1, <3>2 DEF IInv, OneLivePerSession
  <2>3. i \in 1..n \/ j \in 1..n
    BY <1>3
  <2>4. i \in 1..n \/ i = n + 1
    BY <1>3
  <2>5. j \in 1..n \/ j = n + 1
    BY <1>3
  <2> QED
    BY <1>2, <2>1, <2>2, <2>3, <2>4, <2>5
<1>8. LinksGo /\ \A s \in Requests \ {r} : TokensGo(s)
  BY <1>2, <1>3, RowTypes DEF LinksGo, TokensGo
<1> QED
  BY <1>1, <1>6, <1>7, <1>8, StepKeeps

LEMMA WriteUserKeeps ==
  ASSUME IInv, NEW r \in Requests, WriteUser(r)
  PROVE  IInv'
<1> DEFINE op == req[r].op
           arg == req[r].arg
<1>1. UNCHANGED links /\ req[r].pc = "write" /\ op \in {"login", "refresh", "block", "unblock"}
  BY DEF WriteUser, IInv, RequestInv, PlaceInv
<1>2. CASE op = "login"
  <2>1. req' = [req EXCEPT ![r] = Idle] /\ tokens' = Issue(Len(tokens) + 1, 0) /\ UNCHANGED user
    BY <1>2 DEF WriteUser, Commit
  <2>2. Len(tokens) + 1 \in Nat
    BY RowTypes
  <2> QED
    BY <1>1, <2>1, <2>2, IssueKeeps
<1>3. CASE op = "refresh"
  <2>1. req' = [req EXCEPT ![r] = Idle] /\ tokens' = Issue(tokens[arg].session, arg) /\ UNCHANGED user
    BY <1>3 DEF WriteUser, Commit
  <2>2. arg \in DOMAIN tokens /\ arg \in Nat /\ tokens[arg].session \in Nat
    BY <1>3, RowTypes DEF IInv, RequestInv, PlaceInv, Token
  <2>3. TokenRow(arg) \in Held(r) /\ tokens[arg].state = "live"
    BY <1>1, <1>3 DEF IInv, RequestInv, RotationInv
  <2>4. \A s \in Requests \ {r} : TokenRow(arg) \notin Held(s)
    BY <2>3 DEF IInv, LocksExclude
  <2> QED
    BY <1>1, <2>1, <2>2, <2>3, <2>4, IssueKeeps
<1>4. CASE op \in {"block", "unblock"}
  <2>1. req' = [req EXCEPT ![r] = Idle] /\ UNCHANGED tokens
        /\ user' = IF req[r].writes THEN [user EXCEPT !.blocked = (op = "block")] ELSE user
    BY <1>4 DEF WriteUser, Commit
  <2>2. /\ req' \in [Requests -> Request] /\ LocksExclude' /\ RequestInv(r)'
        /\ \A s \in Requests \ {r} : req'[s] = req[s]
    BY <2>1, Ends
  <2>3. user' \in [password : Passwords, verified : BOOLEAN, blocked : BOOLEAN]
    BY <2>1 DEF IInv, TypeOK
  <2>4. TypeOK' /\ OneLivePerSession' /\ LinksGo /\ \A s \in Requests : TokensGo(s)
    BY <1>1, <2>1, <2>2, <2>3 DEF IInv, TypeOK, OneLivePerSession, LinksGo, TokensGo
  <2> QED
    BY <2>2, <2>4, StepKeeps
<1> QED
  BY <1>1, <1>2, <1>3, <1>4

LEMMA FlushRowKeeps ==
  ASSUME IInv, NEW r \in Requests, FlushRow(r)
  PROVE  IInv'
<1> DEFINE row == Head(req[r].rows)
           tail == Tail(req[r].rows)
           locks == Held(r) \cup {row}
           q == [req[r] EXCEPT !.rows = tail, !.locks = locks]
<1>1. /\ UNCHANGED <<user, tokens, links>> /\ req[r].pc = "flush" /\ req[r].rows # <<>> /\ Unlocked(r, row)
      /\ req' = [req EXCEPT ![r].rows = Tail(@), ![r].locks = @ \cup {row}]
  BY DEF FlushRow
<1>2. req[r].rows \in Seq(Row) /\ req[r].locks \in SUBSET Row /\ Held(r) = req[r].locks
  BY RequestType DEF Request, Held
<1>3. row \in Row /\ tail \in Seq(Row) /\ locks \in SUBSET Row /\ \A x \in locks \ Held(r) : x = row
  BY <1>1, <1>2
<1>4. q \in Request /\ q.locks = locks /\ req' = [req EXCEPT ![r] = q]
  <2>1. req' = [req EXCEPT ![r].rows = tail, ![r].locks = locks]
    BY <1>1, RequestType DEF IInv, TypeOK, Request, Held
  <2> HIDE DEF locks, row, tail
  <2> QED
    BY <1>3, <2>1, RequestType DEF Request, IInv, TypeOK
<1>5. ASSUME req'[r] = q PROVE RequestInv(r)'
  <2>1. req'[r].op = req[r].op /\ req'[r].arg = req[r].arg /\ req'[r].pc = "flush" /\ req'[r].had = req[r].had
    <3>1. req[r].pc = "flush" /\ req[r] \in Request
      BY <1>1, RequestType
    <3> HIDE DEF locks, row, tail
    <3>2. req'[r] = [req[r] EXCEPT !.rows = tail, !.locks = locks]
      BY <1>5
    <3> QED
      BY <3>1, <3>2 DEF Request
  <2> QED
    BY <1>1, <2>1 DEF IInv, RequestInv, PlaceInv, RotationInv, UpdateInv, SignsOut
<1> HIDE DEF q, locks, row, tail
<1> QED
  BY <1>1, <1>3, <1>4, <1>5, GoingOnKeeps

LEMMA EndFlushKeeps ==
  ASSUME IInv, NEW r \in Requests, EndFlush(r)
  PROVE  IInv'
<1> DEFINE l == req[r].arg
<1>1. UNCHANGED tokens /\ req[r].op \in {"verify", "reset"} /\ l \in DOMAIN links
  BY DEF EndFlush, IInv, RequestInv, PlaceInv
<1>2. CASE req[r].op = "verify"
  <2>1. /\ req' = [req EXCEPT ![r] = Idle] /\ user' = [user EXCEPT !.verified = TRUE]
        /\ links' = [links EXCEPT ![l].state = "ended"]
    BY <1>2 DEF EndFlush, Commit
  <2>2. /\ req' \in [Requests -> Request] /\ LocksExclude' /\ RequestInv(r)'
        /\ \A s \in Requests \ {r} : req'[s] = req[s]
    BY <2>1, Ends
  <2>3. LET e == [links[l] EXCEPT !.state = "ended"] IN
        e \in Link /\ e.purpose = links[l].purpose /\ e.state = "ended"
    BY <1>1, RowTypes DEF Link, States
  <2>4. links' \in [1..Len(links) -> Link] /\ links'[l] = [links[l] EXCEPT !.state = "ended"]
        /\ \A i \in DOMAIN links : i # l => links'[i] = links[i]
    BY <1>1, <2>1, <2>3, RowTypes
  <2>5. links' \in Seq(Link) /\ Len(links') = Len(links)
    BY <2>4, RowTypes
  <2>6. LinksGo
    <3>1. links'[l].purpose = links[l].purpose /\ links'[l].state = "ended"
      BY <2>3, <2>4
    <3>2. Len(links) <= Len(links')
      BY <2>5, RowTypes
    <3> QED
      BY <2>4, <3>1, <3>2 DEF LinksGo
  <2>7. user' \in [password : Passwords, verified : BOOLEAN, blocked : BOOLEAN]
    BY <2>1 DEF IInv, TypeOK
  <2>8. TypeOK'
    BY <1>1, <2>2, <2>5, <2>7 DEF IInv, TypeOK, Link
  <2>9. OneLivePerSession' /\ \A s \in Requests : TokensGo(s)
    BY <1>1, RowTypes DEF IInv, OneLivePerSession, TokensGo
  <2> QED
    BY <2>2, <2>6, <2>8, <2>9, StepKeeps
<1>3. CASE req[r].op = "reset"
  <2> DEFINE q == [req[r] EXCEPT !.pc = "select"]
  <2>1. UNCHANGED <<user, tokens, links>> /\ Goto(r, "select")
    BY <1>1, <1>3 DEF EndFlush
  <2>2. q \in Request /\ q.locks = Held(r) /\ req' = [req EXCEPT ![r] = q]
    BY <2>1, RequestType DEF Goto, Request, Places, Held
  <2>3. ASSUME req'[r] = q PROVE RequestInv(r)'
    <3>1. req'[r].op = req[r].op /\ req'[r].arg = req[r].arg /\ req'[r].pc = "select" /\ req'[r].had = req[r].had
      BY <2>3, RequestType DEF Request
    <3> QED
      BY <1>3, <2>1, <3>1 DEF IInv, RequestInv, PlaceInv, RotationInv, UpdateInv, SignsOut
  <2> HIDE DEF q
  <2> QED
    BY <2>1, <2>2, <2>3, GoingOnKeeps
<1> QED
  BY <1>1, <1>2, <1>3

-----------------------------------------------------------------------------
(* The rows an UPDATE finds are finitely many, so that they can be taken one by one. *)
LEMMA MatchingIsFinite ==
  ASSUME IInv, NEW r \in Requests
  PROVE  IsFiniteSet(Matching(r)) /\ Matching(r) \subseteq Row
<1>1. ASSUME NEW kind \in {"token", "link"}, NEW n \in Nat
      PROVE  IsFiniteSet({kind} \X (1..n)) /\ {kind} \X (1..n) \subseteq Row
  <2>1. IsFiniteSet({kind})
    BY FS_Singleton, Zenon
  <2>2. IsFiniteSet(1..n)
    <3>1. n \in Int /\ 1 \in Int
      OBVIOUS
    <3> QED
      BY <3>1, FS_Interval
  <2>3. IsFiniteSet({kind} \X (1..n))
    BY <2>1, <2>2, FS_Product
  <2> QED
    BY <2>3 DEF Row
<1>2. ASSUME NEW S, NEW T, IsFiniteSet(S), S \subseteq Row, T \subseteq S
      PROVE  IsFiniteSet(T) /\ T \subseteq Row
  BY <1>2, FS_Subset
<1>3. CASE SignsOut(r)
  <2>1. Matching(r) \subseteq {"token"} \X (1..Len(tokens)) /\ Len(tokens) \in Nat
    BY <1>3, RowTypes DEF Matching, TokenRow
  <2>2. IsFiniteSet({"token"} \X (1..Len(tokens))) /\ {"token"} \X (1..Len(tokens)) \subseteq Row
    BY <1>1, <2>1
  <2> QED
    BY <1>2, <2>1, <2>2, Zenon
<1>4. CASE ~SignsOut(r)
  <2>1. Matching(r) \subseteq {"link"} \X (1..Len(links)) /\ Len(links) \in Nat
    BY <1>4, RowTypes DEF Matching, LinkRow
  <2>2. IsFiniteSet({"link"} \X (1..Len(links))) /\ {"link"} \X (1..Len(links)) \subseteq Row
    BY <1>1, <2>1
  <2> QED
    BY <1>2, <2>1, <2>2, Zenon
<1> QED
  BY <1>3, <1>4

LEMMA SelectKeeps ==
  ASSUME IInv, NEW r \in Requests, Select(r)
  PROVE  IInv'
<1>1. PICK order \in Orders(Matching(r)) : req' = [req EXCEPT ![r].pc = "rows", ![r].rows = order]
  BY DEF Select
<1>2. UNCHANGED <<user, tokens, links>> /\ req[r].pc = "select"
  BY DEF Select
<1>3. order \in Seq(Row) /\ DOMAIN order = 1..Len(order)
      /\ \A row \in Matching(r) : \E i \in DOMAIN order : order[i] = row
  <2>1. Cardinality(Matching(r)) \in Nat
    BY MatchingIsFinite, FS_CardinalityType
  <2> QED
    BY <1>1, <2>1, MatchingIsFinite DEF Orders
<1> DEFINE q == [req[r] EXCEPT !.pc = "rows", !.rows = order]
<1>4. q \in Request /\ q.locks = Held(r) /\ req' = [req EXCEPT ![r] = q]
  BY <1>1, <1>3, RequestType, ZenonT(60) DEF Request, Places, Held, IInv, TypeOK
<1>5. ASSUME req'[r] = q PROVE RequestInv(r)'
  <2>1. req'[r].op = req[r].op /\ req'[r].arg = req[r].arg /\ req'[r].pc = "rows" /\ req'[r].had = req[r].had
        /\ req'[r].rows = order /\ req'[r].locks = req[r].locks /\ req[r].had \in Nat
    BY <1>5, RequestType DEF Request
  <2>2. PlaceInv(r)' /\ RotationInv(r)'
    BY <1>2, <2>1 DEF IInv, RequestInv, PlaceInv, RotationInv
  <2>3. ASSUME SignsOut(r), NEW t \in 1..req[r].had
        PROVE  Covered(r, TokenRow(t), tokens[t].state)'
    <3>1. t \in DOMAIN tokens
      BY <2>1, <2>3, RowTypes DEF IInv, RequestInv, UpdateInv
    <3>2. tokens[t].state = "ended" \/ TokenRow(t) \in Matching(r)
      BY <2>3, <3>1, RowTypes DEF Matching, States
    <3> QED
      BY <1>2, <1>3, <2>1, <3>2 DEF Covered, Listed
  <2>4. ASSUME req[r].op \in {"forgot", "resend"}, NEW l \in 1..req[r].had,
               links[l].purpose = PurposeOf(req[r].op)
        PROVE  Covered(r, LinkRow(l), links[l].state)'
    <3>1. l \in DOMAIN links
      BY <2>1, <2>4, RowTypes DEF IInv, RequestInv, UpdateInv
    <3>2. links[l].state = "ended" \/ LinkRow(l) \in Matching(r)
      BY <2>4, <3>1, RowTypes DEF Matching, States, Open, SignsOut
    <3> QED
      BY <1>2, <1>3, <2>1, <3>2 DEF Covered, Listed
  <2>5. UpdateInv(r)'
    BY <1>2, <2>1, <2>3, <2>4 DEF IInv, RequestInv, UpdateInv, SignsOut
  <2> QED
    BY <2>2, <2>5 DEF RequestInv
<1> HIDE DEF q
<1> QED
  BY <1>2, <1>4, <1>5, GoingOnKeeps

(* The row at the head of the list is locked if it still matches, and skipped if not. *)
LEMMA UpdateRowKeeps ==
  ASSUME IInv, NEW r \in Requests, UpdateRow(r)
  PROVE  IInv'
<1> DEFINE row == Head(req[r].rows)
           locks == IF row \in Matching(r) THEN Held(r) \cup {row} ELSE Held(r)
           q == [req[r] EXCEPT !.rows = Tail(req[r].rows), !.locks = locks]
<1>1. /\ UNCHANGED <<user, tokens, links>> /\ req[r].pc = "rows" /\ req[r].rows # <<>> /\ Unlocked(r, row)
      /\ req' = [req EXCEPT ![r].rows = Tail(@), ![r].locks = IF row \in Matching(r) THEN @ \cup {row} ELSE @]
  BY DEF UpdateRow
<1>2. req[r].rows \in Seq(Row) /\ req[r].locks \in SUBSET Row /\ Held(r) = req[r].locks /\ req[r].had \in Nat
  BY RequestType DEF Request, Held
<1>3. row \in Row /\ Tail(req[r].rows) \in Seq(Row)
  BY <1>1, <1>2
<1>4. locks \in SUBSET Row /\ (\A x \in locks \ Held(r) : x = row) /\ Held(r) \subseteq locks
      /\ (row \in Matching(r) => row \in locks)
  BY <1>2, <1>3
<1>5. q \in Request /\ q.locks = locks /\ req' = [req EXCEPT ![r] = q]
  <2>1. req' = [req EXCEPT ![r].rows = Tail(req[r].rows), ![r].locks = locks]
    BY <1>1, RequestType DEF IInv, TypeOK, Request, Held
  <2> HIDE DEF locks, row
  <2> QED
    BY <1>3, <1>4, <2>1, RequestType DEF Request, IInv, TypeOK
<1>6. ASSUME NEW x, Listed(r, x), x # row
      PROVE  \E i \in DOMAIN Tail(req[r].rows) : Tail(req[r].rows)[i] = x
  <2>1. PICK i \in DOMAIN req[r].rows : req[r].rows[i] = x
    BY <1>6 DEF Listed
  <2>2. i # 1 /\ i \in 1..Len(req[r].rows) /\ Len(req[r].rows) \in Nat
    BY <1>1, <1>2, <1>6, <2>1
  <2>3. i - 1 \in DOMAIN Tail(req[r].rows) /\ Tail(req[r].rows)[i - 1] = x
    BY <1>1, <1>2, <2>1, <2>2
  <2> QED
    BY <2>3
<1>7. ASSUME req'[r] = q PROVE RequestInv(r)'
  <2>1. req'[r].op = req[r].op /\ req'[r].arg = req[r].arg /\ req'[r].pc = "rows" /\ req'[r].had = req[r].had
        /\ req'[r].rows = Tail(req[r].rows) /\ req'[r].locks = locks
    <3>1. req[r].pc = "rows"
      BY <1>1
    <3>2. req[r] \in Request
      BY RequestType
    <3> DEFINE tail == Tail(req[r].rows)
    <3> HIDE DEF locks, tail
    <3>3. req'[r] = [req[r] EXCEPT !.rows = tail, !.locks = locks]
      BY <1>7 DEF tail
    <3>4. req'[r].op = req[r].op /\ req'[r].arg = req[r].arg /\ req'[r].pc = "rows" /\ req'[r].had = req[r].had
          /\ req'[r].rows = tail /\ req'[r].locks = locks
      BY <3>1, <3>2, <3>3 DEF Request
    <3> QED
      BY <3>4 DEF tail
  <2>2. PlaceInv(r)' /\ RotationInv(r)'
    <3> HIDE DEF locks
    <3> QED
      BY <1>1, <2>1 DEF IInv, RequestInv, PlaceInv, RotationInv
  <2>3. ASSUME NEW x, NEW state, Covered(r, x, state), x = row => x \in Matching(r) \/ state = "ended"
        PROVE  state = "ended" \/ x \in locks \/ \E i \in DOMAIN Tail(req[r].rows) : Tail(req[r].rows)[i] = x
    <3> HIDE DEF locks
    <3> QED
      BY <1>4, <1>6, <2>3 DEF Covered
  <2> HIDE DEF locks
  <2>4. ASSUME SignsOut(r), NEW t \in 1..req[r].had
        PROVE  Covered(r, TokenRow(t), tokens[t].state)'
    <3>1. t \in DOMAIN tokens /\ Covered(r, TokenRow(t), tokens[t].state)
      BY <1>1, <1>2, <2>4, RowTypes DEF IInv, RequestInv, UpdateInv
    <3>2. tokens[t].state = "ended" \/ TokenRow(t) \in Matching(r)
      BY <2>4, <3>1, RowTypes DEF Matching, States
    <3>3. \/ tokens[t].state = "ended" \/ TokenRow(t) \in locks
          \/ \E i \in DOMAIN Tail(req[r].rows) : Tail(req[r].rows)[i] = TokenRow(t)
      BY <2>3, <3>1, <3>2
    <3> QED
      BY <1>1, <2>1, <3>3 DEF Covered, Listed, Held
  <2>5. ASSUME req[r].op \in {"forgot", "resend"}, NEW l \in 1..req[r].had,
               links[l].purpose = PurposeOf(req[r].op)
        PROVE  Covered(r, LinkRow(l), links[l].state)'
    <3>0. UpdateInv(r) /\ l \in Nat
      BY <1>2 DEF IInv, RequestInv
    <3>1. l \in DOMAIN links /\ Covered(r, LinkRow(l), links[l].state)
      BY <1>1, <1>2, <2>5, <3>0, RowTypes, SMTT(30) DEF UpdateInv
    <3>2. links[l].state = "ended" \/ LinkRow(l) \in Matching(r)
      BY <2>5, <3>1, RowTypes DEF Matching, States, Open, SignsOut
    <3>3. \/ links[l].state = "ended" \/ LinkRow(l) \in locks
          \/ \E i \in DOMAIN Tail(req[r].rows) : Tail(req[r].rows)[i] = LinkRow(l)
      BY <2>3, <3>1, <3>2
    <3> QED
      BY <1>1, <2>1, <3>3 DEF Covered, Listed, Held
  <2>6. UpdateInv(r)'
    BY <1>1, <2>1, <2>4, <2>5 DEF IInv, RequestInv, UpdateInv, SignsOut
  <2> QED
    BY <2>2, <2>6 DEF RequestInv
<1> HIDE DEF q, locks, row
<1> QED
  BY <1>1, <1>4, <1>5, <1>7, GoingOnKeeps

-----------------------------------------------------------------------------
(* The tables after an update of many rows. *)
LEMMA EndAllTypes ==
  ASSUME IInv, NEW locks
  PROVE  LET t == EndAll(tokens, TokenRow, locks)  l == EndAll(links, LinkRow, locks) IN
         /\ t \in Seq(Token) /\ Len(t) = Len(tokens) /\ DOMAIN t = DOMAIN tokens
         /\ \A i \in DOMAIN tokens :
              /\ t[i].session = tokens[i].session
              /\ IF TokenRow(i) \in locks THEN t[i].state = "ended" ELSE t[i] = tokens[i]
         /\ l \in Seq(Link) /\ Len(l) = Len(links) /\ DOMAIN l = DOMAIN links
         /\ \A i \in DOMAIN links :
              /\ l[i].purpose = links[i].purpose
              /\ IF LinkRow(i) \in locks THEN l[i].state = "ended" ELSE l[i] = links[i]
<1> DEFINE t == EndAll(tokens, TokenRow, locks)
           l == EndAll(links, LinkRow, locks)
<1>1. ASSUME NEW i \in DOMAIN tokens
      PROVE  LET e == [tokens[i] EXCEPT !.state = "ended"] IN
             e \in Token /\ e.session = tokens[i].session /\ e.state = "ended" /\ tokens[i] \in Token
  BY <1>1, RowTypes DEF Token, States
<1>2. ASSUME NEW i \in DOMAIN links
      PROVE  LET e == [links[i] EXCEPT !.state = "ended"] IN
             e \in Link /\ e.purpose = links[i].purpose /\ e.state = "ended" /\ links[i] \in Link
  BY <1>2, RowTypes DEF Link, States
<1>3. t = [i \in DOMAIN tokens |-> IF TokenRow(i) \in locks THEN [tokens[i] EXCEPT !.state = "ended"] ELSE tokens[i]]
  BY DEF EndAll
<1>4. l = [i \in DOMAIN links |-> IF LinkRow(i) \in locks THEN [links[i] EXCEPT !.state = "ended"] ELSE links[i]]
  BY DEF EndAll
<1> HIDE DEF t, l
<1>5. \A i \in DOMAIN tokens :
        /\ t[i] \in Token /\ t[i].session = tokens[i].session
        /\ IF TokenRow(i) \in locks THEN t[i].state = "ended" ELSE t[i] = tokens[i]
  BY <1>1, <1>3
<1>6. \A i \in DOMAIN links :
        /\ l[i] \in Link /\ l[i].purpose = links[i].purpose
        /\ IF LinkRow(i) \in locks THEN l[i].state = "ended" ELSE l[i] = links[i]
  BY <1>2, <1>4
<1>7. t \in [1..Len(tokens) -> Token] /\ l \in [1..Len(links) -> Link]
  BY <1>3, <1>4, <1>5, <1>6, RowTypes
<1>8. t \in Seq(Token) /\ Len(t) = Len(tokens) /\ DOMAIN t = DOMAIN tokens
      /\ l \in Seq(Link) /\ Len(l) = Len(links) /\ DOMAIN l = DOMAIN links
  BY <1>7, RowTypes
<1> QED
  BY <1>5, <1>6, <1>8 DEF t, l

(* What of it a new link needs. *)
LEMMA LinksEnded ==
  ASSUME IInv, NEW locks
  PROVE  /\ EndAll(links, LinkRow, locks) \in Seq(Link)
         /\ DOMAIN EndAll(links, LinkRow, locks) = DOMAIN links
         /\ \A i \in DOMAIN links :
              IF LinkRow(i) \in locks THEN EndAll(links, LinkRow, locks)[i].state = "ended"
              ELSE EndAll(links, LinkRow, locks)[i] = links[i]
  BY EndAllTypes, ZenonT(60)

LEMMA CommitAllKeeps ==
  ASSUME IInv, NEW r \in Requests, CommitAll(r)
  PROVE  IInv'
<1> DEFINE kept == EndAll(tokens, TokenRow, Held(r))
           left == EndAll(links, LinkRow, Held(r))
           new  == [purpose |-> PurposeOf(req[r].op), state |-> "live"]
<1>1. /\ req' = [req EXCEPT ![r] = Idle] /\ tokens' = kept
      /\ links' = IF SignsOut(r) THEN left ELSE Append(left, new)
      /\ \/ \E p \in Passwords : user' = [user EXCEPT !.password = p, !.verified = TRUE]
         \/ UNCHANGED user
  BY DEF CommitAll, Commit
<1>2. /\ req' \in [Requests -> Request] /\ LocksExclude' /\ RequestInv(r)'
      /\ \A s \in Requests \ {r} : req'[s] = req[s]
  BY <1>1, Ends
<1>3. /\ tokens' \in Seq(Token) /\ Len(tokens') = Len(tokens) /\ DOMAIN tokens' = DOMAIN tokens
      /\ \A i \in DOMAIN tokens :
           /\ tokens'[i].session = tokens[i].session
           /\ IF TokenRow(i) \in Held(r) THEN tokens'[i].state = "ended" ELSE tokens'[i] = tokens[i]
  <2>1. /\ kept \in Seq(Token) /\ Len(kept) = Len(tokens) /\ DOMAIN kept = DOMAIN tokens
        /\ \A i \in DOMAIN tokens :
             /\ kept[i].session = tokens[i].session
             /\ IF TokenRow(i) \in Held(r) THEN kept[i].state = "ended" ELSE kept[i] = tokens[i]
    BY EndAllTypes
  <2>2. tokens' = kept
    BY <1>1
  <2> HIDE DEF kept
  <2> QED
    BY <2>1, <2>2
<1>4. /\ left \in Seq(Link) /\ Len(left) = Len(links) /\ DOMAIN left = DOMAIN links
      /\ \A i \in DOMAIN links :
           /\ left[i].purpose = links[i].purpose
           /\ IF LinkRow(i) \in Held(r) THEN left[i].state = "ended" ELSE left[i] = links[i]
  BY EndAllTypes
<1>5. new \in Link
  BY DEF Link, Purposes, States, PurposeOf
<1> HIDE DEF kept, left, new
<1>6. /\ links' \in Seq(Link) /\ Len(links) <= Len(links')
      /\ \A i \in DOMAIN links : links'[i] = left[i]
  <2>1. CASE SignsOut(r)
    <3>1. links' = left
      BY <1>1, <2>1
    <3> QED
      BY <1>4, <3>1, RowTypes
  <2>2. CASE ~SignsOut(r)
    <3>1. links' = Append(left, new)
      BY <1>1, <2>2
    <3>2. Len(left) \in Nat /\ DOMAIN left = 1..Len(left) /\ Len(left) = Len(links)
      BY <1>4, RowTypes
    <3>3. links' \in Seq(Link) /\ Len(links') = Len(left) + 1 /\ \A i \in 1..Len(left) : links'[i] = left[i]
      BY <1>4, <1>5, <3>1, <3>2
    <3> QED
      BY <1>4, <3>2, <3>3
  <2> QED
    BY <2>1, <2>2
<1>7. LinksGo
  BY <1>4, <1>6 DEF LinksGo
<1>8. \A s \in Requests \ {r} : TokensGo(s)
  <2> SUFFICES ASSUME NEW s \in Requests \ {r}, NEW i \in DOMAIN tokens
               PROVE  tokens'[i] = tokens[i] \/ (tokens'[i].state = "ended" /\ TokenRow(i) \notin Held(s))
    BY <1>3, RowTypes DEF TokensGo
  <2>1. TokenRow(i) \in Held(r) => TokenRow(i) \notin Held(s)
    BY DEF IInv, LocksExclude
  <2> QED
    BY <1>3, <2>1
<1>9. OneLivePerSession'
  BY <1>3 DEF IInv, OneLivePerSession
<1>10. user' \in [password : Passwords, verified : BOOLEAN, blocked : BOOLEAN]
  BY <1>1 DEF IInv, TypeOK
<1>11. TypeOK'
  BY <1>2, <1>3, <1>6, <1>10 DEF IInv, TypeOK, Token, Link
<1> QED
  BY <1>2, <1>7, <1>8, <1>9, <1>11, StepKeeps

-----------------------------------------------------------------------------
(* An account that has just been registered. *)
LEMMA InitInv == Init => IInv
<1> SUFFICES ASSUME Init PROVE IInv
  OBVIOUS
<1>1. req = [r \in Requests |-> Idle] /\ links = <<>> /\ tokens = <<[session |-> 1, state |-> "live"]>>
      /\ \E p \in Passwords : user = [password |-> p, verified |-> FALSE, blocked |-> FALSE]
  BY DEF Init
<1>2. \A r \in Requests : req[r] = Idle
  BY <1>1
<1>3. TypeOK
  <2>1. user \in [password : Passwords, verified : BOOLEAN, blocked : BOOLEAN]
    BY <1>1
  <2>2. tokens \in Seq([session : Nat, state : States]) /\ \A i \in DOMAIN tokens : tokens[i].session \in 1..i
    BY <1>1 DEF States
  <2>3. links \in Seq([purpose : Purposes, state : States])
    BY <1>1
  <2>4. req \in [Requests -> Request]
    BY <1>1, IdleType
  <2> QED
    BY <2>1, <2>2, <2>3, <2>4 DEF TypeOK
<1>4. LocksExclude
  BY <1>2 DEF LocksExclude, Held, Idle
<1>5. OneLivePerSession
  BY <1>1 DEF OneLivePerSession
<1>6. \A r \in Requests : RequestInv(r)
  BY <1>2 DEF RequestInv, PlaceInv, RotationInv, UpdateInv, SignsOut, Idle
<1> QED
  BY <1>3, <1>4, <1>5, <1>6 DEF IInv

(* Every step of every request keeps the invariant. *)
LEMMA NextKeeps == IInv /\ [Next]_vars => IInv'
<1> SUFFICES ASSUME IInv, [Next]_vars PROVE IInv'
  OBVIOUS
<1>1. CASE UNCHANGED vars
  BY <1>1 DEF vars, IInv, TypeOK, LocksExclude, Held, OneLivePerSession, RequestInv, PlaceInv, RotationInv,
     UpdateInv, SignsOut, Covered, Listed
<1>2. ASSUME NEW r \in Requests, Begin(r) PROVE IInv'
  BY <1>2, BeginKeeps
<1>3. ASSUME NEW r \in Requests, Step(r) PROVE IInv'
  BY <1>3, LockTokenKeeps, ReadLinkKeeps, ReadUserKeeps, WriteUserKeeps, FlushRowKeeps, EndFlushKeeps, SelectKeeps,
     UpdateRowKeeps, CommitAllKeeps, DeadlockDetectedKeeps DEF Step
<1> QED
  BY <1>1, <1>2, <1>3 DEF Next

(* The invariant holds in every reachable state: locks exclude each other, a refresh that   *)
(* goes on holds the live token it will replace, and an update of many rows has ended,      *)
(* locked or still listed every row that was there when its request began.                  *)
THEOREM Invariant == Spec => []IInv
<1>1. Init => IInv
  BY InitInv
<1>2. IInv /\ [Next]_vars => IInv'
  BY NextKeeps
<1> QED
  BY <1>1, <1>2, PTL DEF Spec

(* Whatever requests overlap, the account, its tokens, its links and every request keep     *)
(* their types, and a token's sign-in is one that had begun when it was issued.             *)
THEOREM Typed == Spec => []TypeOK
<1>1. IInv => TypeOK
  BY DEF IInv
<1> QED
  BY <1>1, Invariant, PTL

(* However many tabs refresh one token at once, a sign-in never has two tokens that work:   *)
(* AuthService.refresh reads the token FOR UPDATE and revokes it with the commit that       *)
(* issues its successor.                                                                    *)
THEOREM OneTokenPerSession == Spec => []OneLivePerSession
<1>1. IInv => OneLivePerSession
  BY DEF IInv
<1> QED
  BY <1>1, Invariant, PTL

-----------------------------------------------------------------------------
(* Only the commit of an update of many rows ends it. *)
LEMMA EndsManyIsCommit ==
  ASSUME IInv, [Next]_vars, NEW r \in Requests, EndsMany(r)
  PROVE  CommitAll(r)
<1>1. req[r].pc = "rows" /\ req[r].rows = <<>> /\ req'[r].pc = "idle"
  BY DEF EndsMany
<1>2. CASE UNCHANGED vars
  BY <1>1, <1>2 DEF vars
<1>3. ASSUME NEW s \in Requests, s # r, Begin(s) \/ Step(s)
      PROVE  FALSE
  <2>1. \E q : req' = [req EXCEPT ![s] = q]
    BY <1>3 DEF Begin, Step, LockToken, ReadLink, ReadUser, WriteUser, FlushRow, EndFlush, Select, UpdateRow, CommitAll,
       DeadlockDetected, Goto, Refuse, Commit
  <2> QED
    BY <1>1, <1>3, <2>1 DEF IInv, TypeOK
<1>4. ~Begin(r) /\ ~LockToken(r) /\ ~ReadLink(r) /\ ~ReadUser(r) /\ ~WriteUser(r) /\ ~FlushRow(r) /\ ~EndFlush(r)
      /\ ~Select(r) /\ ~UpdateRow(r)
  BY <1>1 DEF Begin, LockToken, ReadLink, ReadUser, WriteUser, FlushRow, EndFlush, Select, UpdateRow
<1>5. ~DeadlockDetected(r)
  <2>1. Wanted(r) = {}
    BY <1>1 DEF Wanted
  <2> QED
    BY <2>1 DEF DeadlockDetected, Circle, WaitsFor
<1> QED
  BY <1>2, <1>3, <1>4, <1>5 DEF Next, Step

LEMMA SignOutStep ==
  ASSUME IInv, [Next]_vars, NEW r \in Requests, EndsMany(r), SignsOut(r), NEW t \in 1..req[r].had
  PROVE  tokens'[t].state = "ended"
<1>1. CommitAll(r) /\ req[r].pc = "rows" /\ req[r].rows = <<>>
  BY EndsManyIsCommit DEF EndsMany
<1>2. UpdateInv(r) /\ req[r].had \in Nat
  BY RequestType DEF IInv, RequestInv, Request
<1>3. t \in DOMAIN tokens /\ Covered(r, TokenRow(t), tokens[t].state)
  BY <1>1, <1>2, RowTypes DEF UpdateInv
<1>4. tokens[t].state = "ended" \/ TokenRow(t) \in Held(r)
  BY <1>1, <1>3 DEF Covered, Listed
<1> DEFINE kept == EndAll(tokens, TokenRow, Held(r))
<1>5. tokens' = kept
  BY <1>1 DEF CommitAll
<1>6. /\ kept \in Seq(Token) /\ Len(kept) = Len(tokens) /\ DOMAIN kept = DOMAIN tokens
      /\ \A i \in DOMAIN tokens :
           /\ kept[i].session = tokens[i].session
           /\ IF TokenRow(i) \in Held(r) THEN kept[i].state = "ended" ELSE kept[i] = tokens[i]
  BY EndAllTypes
<1> HIDE DEF kept
<1> QED
  BY <1>3, <1>4, <1>5, <1>6

LEMMA NewLinkStep ==
  ASSUME IInv, [Next]_vars, NEW r \in Requests, EndsMany(r), ~SignsOut(r), NEW l \in 1..req[r].had,
         links[l].purpose = PurposeOf(req[r].op)
  PROVE  links'[l].state = "ended"
<1>1. CommitAll(r) /\ req[r].pc = "rows" /\ req[r].rows = <<>>
  BY EndsManyIsCommit DEF EndsMany
<1>2. UpdateInv(r) /\ PlaceInv(r) /\ req[r].had \in Nat
  BY RequestType DEF IInv, RequestInv, Request
<1>3. req[r].op \in {"forgot", "resend"}
  BY <1>1, <1>2 DEF PlaceInv, SignsOut
<1>4. l \in DOMAIN links /\ Covered(r, LinkRow(l), links[l].state)
  BY <1>1, <1>2, <1>3, RowTypes DEF UpdateInv
<1>5. links[l].state = "ended" \/ LinkRow(l) \in Held(r)
  BY <1>1, <1>4 DEF Covered, Listed
<1> DEFINE left == EndAll(links, LinkRow, Held(r))
           new  == [purpose |-> PurposeOf(req[r].op), state |-> "live"]
<1>6. links' = Append(left, new)
  BY <1>1 DEF CommitAll
<1>7. left \in Seq(Link) /\ DOMAIN left = DOMAIN links
      /\ \A i \in DOMAIN links : IF LinkRow(i) \in Held(r) THEN left[i].state = "ended" ELSE left[i] = links[i]
  BY LinksEnded
<1> HIDE DEF left, new
<1>8. links'[l] = left[l]
  BY <1>4, <1>6, <1>7
<1> QED
  BY <1>4, <1>5, <1>7, <1>8

(* revoke_all_for_user misses none: when a password reset or a replayed refresh token       *)
(* commits, every refresh token that existed when the request began is revoked, whatever    *)
(* other requests held, revoked or replaced meanwhile.                                      *)
THEOREM SignOutCovers == Spec => SignOutIsComplete
<1>1. IInv /\ [Next]_vars =>
        [\A r \in Requests : EndsMany(r) /\ SignsOut(r) => \A t \in 1..req[r].had : tokens'[t].state = "ended"]_vars
  BY SignOutStep
<1> QED
  BY <1>1, Invariant, PTL DEF Spec, SignOutIsComplete

(* use_all misses none: a new email link commits with every link of its kind that existed   *)
(* when its request began used up.                                                          *)
THEOREM NewLinkCovers == Spec => NewLinkReplacesOlder
<1>1. IInv /\ [Next]_vars =>
        [\A r \in Requests : EndsMany(r) /\ ~SignsOut(r) =>
           \A l \in 1..req[r].had : links[l].purpose = PurposeOf(req[r].op) => links'[l].state = "ended"]_vars
  BY NewLinkStep
<1> QED
  BY <1>1, Invariant, PTL DEF Spec, NewLinkReplacesOlder

=============================================================================
