-------------------------- MODULE TokenQuotaProofs --------------------------
(***************************************************************************)
(* Proofs about TokenQuota for any calls, amounts, limits and windows.      *)
(*                                                                          *)
(* WithinLimit and DenialGenuine are not inductive: they need that, where   *)
(* updates have not raced, a call about to write has read the usage that is *)
(* still in the row (Current, with Serial), that no copy of the usage, in   *)
(* the cache or on its way there, is ahead of the row (NotAhead), and that  *)
(* a refusal decided earlier is still justified (Refused).                  *)
(***************************************************************************)
EXTENDS TokenQuota, TLAPS

\* A charged call keeps the limit it was charged under.
Charges == \A c \in charged : call[c].at \in {"store", "allowed", "thrown"}

\* Only a consume of something with a limit above 0 updates.
Asks ==
    \A c \in Calls :
        /\ call[c].kind = "check" => call[c].amount = 0
        /\ call[c].at \in {"update", "write"} => call[c].amount > 0

Serial ==
    \A c, d \in Calls :
        c # d /\ call[c].at = "write" /\ call[d].at = "write" /\ call[c].win = call[d].win
            => call[c].win \in raced

Current ==
    \A c \in Calls : call[c].at = "write" /\ call[c].win \notin raced
        => call[c].value = used[call[c].win]

NotAhead ==
    /\ \A c \in Calls : call[c].at \in {"store", "fill"} /\ call[c].win \notin raced
          => call[c].value <= used[call[c].win]
    /\ \A w \in Windows \ raced : cached[w] # Miss => cached[w] <= used[w]

Refused ==
    \A c \in Calls :
        call[c].at \in {"lookup", "load", "fill"} /\ call[c].win \notin raced
        /\ call[c].kind = "consume" /\ call[c].amount > 0
            => used[call[c].win] + call[c].amount > call[c].limit

IInv ==
    TypeOK /\ Charges /\ Asks /\ Serial /\ Current /\ NotAhead /\ Refused
           /\ WithinLimit /\ DenialGenuine

LEMMA InitInv == Init => IInv
  <1> SUFFICES ASSUME Init PROVE IInv  OBVIOUS
  <1> USE DEF Init, Idle
  <1>1. 0 \in Windows
    BY QuotaAssumption DEF Windows
  <1>2. TypeOK
    BY <1>1 DEF TypeOK, Call, Places
  <1>3. Charges /\ Asks /\ Serial
    BY DEF Charges, Asks, Serial
  <1>4. Current /\ NotAhead /\ Refused
    BY DEF Current, NotAhead, Refused
  <1>5. WithinLimit /\ DenialGenuine
    BY DEF WithinLimit, DenialGenuine
  <1> QED  BY <1>2, <1>3, <1>4, <1>5 DEF IInv

----------------------------------------------------------------------------
\* What the invariant asks of one call's record r while the usage rows are u.
RecordOK(r, u) ==
    /\ r \in Call
    /\ r.kind = "check" => r.amount = 0
    /\ r.at \in {"update", "write"} => r.amount > 0
    /\ r.at = "write" /\ r.win \notin raced => r.value = u[r.win]
    /\ r.at \in {"store", "fill"} /\ r.win \notin raced => r.value <= u[r.win]
    /\ r.at \in {"lookup", "load", "fill"} /\ r.win \notin raced
       /\ r.kind = "consume" /\ r.amount > 0 => u[r.win] + r.amount > r.limit
    /\ r.at = "denied" /\ r.win \notin raced /\ r.kind = "check" => u[r.win] >= r.limit
    /\ r.at = "denied" /\ r.win \notin raced /\ r.kind # "check"
       => u[r.win] + r.amount > r.limit

LEMMA RecordsOK ==
  ASSUME IInv, NEW c \in Calls
  PROVE  RecordOK(call[c], used)
  <1> USE DEF IInv
  <1>1. call[c] \in Call
    BY DEF TypeOK
  <1>2. call[c].kind \in {"check", "consume"}
    BY <1>1 DEF Call
  <1>3. /\ call[c].kind = "check" => call[c].amount = 0
        /\ call[c].at \in {"update", "write"} => call[c].amount > 0
    BY DEF Asks
  <1>4. call[c].at = "write" /\ call[c].win \notin raced => call[c].value = used[call[c].win]
    BY DEF Current
  <1>5. call[c].at \in {"store", "fill"} /\ call[c].win \notin raced
            => call[c].value <= used[call[c].win]
    BY DEF NotAhead
  <1>6. call[c].at \in {"lookup", "load", "fill"} /\ call[c].win \notin raced
        /\ call[c].kind = "consume" /\ call[c].amount > 0
            => used[call[c].win] + call[c].amount > call[c].limit
    BY DEF Refused
  <1>7. /\ call[c].at = "denied" /\ call[c].win \notin raced /\ call[c].kind = "check"
            => used[call[c].win] >= call[c].limit
        /\ call[c].at = "denied" /\ call[c].win \notin raced /\ call[c].kind # "check"
            => used[call[c].win] + call[c].amount > call[c].limit
    BY DEF DenialGenuine
  <1> QED  BY <1>1, <1>3, <1>4, <1>5, <1>6, <1>7 DEF RecordOK

\* A step of one call that charges nothing keeps the invariant, if its new
\* record and the cache are in order.
LEMMA QuietStep ==
  ASSUME IInv, NEW c \in Calls, NEW r,
         call' = [call EXCEPT ![c] = r],
         RecordOK(r, used),
         r.at = "write" => \A d \in Calls \ {c} :
            call[d].at = "write" /\ call[d].win = r.win => r.win \in raced',
         c \in charged => /\ r.at \in {"store", "allowed", "thrown"}
                          /\ r.win = call[c].win /\ r.limit = call[c].limit,
         UNCHANGED <<window, used, charged>>,
         raced \subseteq raced', raced' \subseteq Windows, disturbed' \subseteq Windows,
         cached' \in [Windows -> Nat \cup {Miss}],
         \A w \in Windows \ raced' : cached'[w] # Miss => cached'[w] <= used[w]
  PROVE  IInv'
  <1> USE DEF IInv
  <1>1. TypeOK'
    BY DEF TypeOK, RecordOK
  <1>2. call'[c] = r /\ \A d \in Calls : d # c => call'[d] = call[d]
    BY DEF TypeOK
  <1>3. \A d \in Calls : RecordOK(call'[d], used)
    BY <1>2, RecordsOK
  <1>4. Charges'
    BY <1>2 DEF Charges, TypeOK
  <1>5. Asks'
    BY <1>3 DEF Asks, RecordOK
  <1>6. Serial'
    <2> SUFFICES ASSUME NEW d \in Calls, NEW e \in Calls, d # e,
                        call'[d].at = "write", call'[e].at = "write",
                        call'[d].win = call'[e].win
                 PROVE  call'[d].win \in raced'
      BY DEF Serial
    <2>1. CASE d # c /\ e # c
      BY <1>2, <2>1 DEF Serial
    <2>2. CASE d = c
      BY <1>2, <2>2
    <2>3. CASE e = c
      BY <1>2, <2>3
    <2> QED  BY <2>1, <2>2, <2>3
  <1>7. Current'
    BY <1>3 DEF Current, RecordOK
  <1>8. NotAhead'
    BY <1>3 DEF NotAhead, RecordOK, Windows
  <1>9. Refused'
    BY <1>3 DEF Refused, RecordOK
  <1>10. WithinLimit'
    <2> SUFFICES ASSUME NEW w \in Windows \ raced', used[w] > 0
                 PROVE  \E d \in charged : call'[d].win = w /\ used[w] <= call'[d].limit
      BY DEF WithinLimit, Windows
    <2>1. PICK d \in charged : call[d].win = w /\ used[w] <= call[d].limit
      BY DEF WithinLimit
    <2>2. call'[d].win = w /\ call'[d].limit = call[d].limit
      BY <1>2, <2>1 DEF TypeOK
    <2> QED  BY <2>1, <2>2
  <1>11. DenialGenuine'
    BY <1>3 DEF DenialGenuine, RecordOK
  <1> QED  BY <1>1, <1>4, <1>5, <1>6, <1>7, <1>8, <1>9, <1>10, <1>11

----------------------------------------------------------------------------
\* The record of a call that goes on to another place with another value.
Moved(c, at, v) == [call[c] EXCEPT !.at = at, !.value = v]

LEMMA MovedFacts ==
  ASSUME TypeOK, NEW c \in Calls, NEW at \in Places, NEW v \in Nat
  PROVE  /\ Moved(c, at, v) \in Call
         /\ Moved(c, at, v).at = at /\ Moved(c, at, v).value = v
         /\ Moved(c, at, v).kind = call[c].kind /\ Moved(c, at, v).amount = call[c].amount
         /\ Moved(c, at, v).win = call[c].win /\ Moved(c, at, v).limit = call[c].limit
  <1>1. call[c] \in Call
    BY DEF TypeOK
  <1> QED  BY <1>1 DEF Moved, Call

LEMMA BeginStep ==
  ASSUME IInv, NEW c \in Calls, NEW kind \in {"check", "consume"}, NEW amount \in Nat,
         kind = "check" => amount = 0, Begin(c, kind, amount)
  PROVE  IInv'
  <1> DEFINE r == [Idle EXCEPT !.at = "limit", !.kind = kind, !.amount = amount, !.win = window]
  <1>1. r \in Call /\ r.at = "limit" /\ r.kind = kind /\ r.amount = amount
    BY DEF Idle, Call, Places, IInv, TypeOK
  <1>2. call' = [call EXCEPT ![c] = r] /\ UNCHANGED <<window, used, cached, charged, raced>>
    BY DEF Begin
  <1> HIDE DEF r
  <1>3. RecordOK(r, used)
    BY <1>1 DEF RecordOK
  <1>4. c \notin charged
    BY DEF Begin, IInv, Charges
  <1>5. disturbed' \subseteq Windows
    BY DEF Begin, IInv, TypeOK
  <1>6. \A w \in Windows \ raced' : cached'[w] # Miss => cached'[w] <= used[w]
    BY <1>2 DEF IInv, NotAhead
  <1> QED  BY <1>1, <1>2, <1>3, <1>4, <1>5, <1>6, QuietStep DEF IInv, TypeOK

LEMMA ResolveStep ==
  ASSUME IInv, NEW c \in Calls, NEW limit \in Limits, Resolve(c, limit)
  PROVE  IInv'
  <1> DEFINE at == IF call[c].amount > 0 /\ limit > 0 THEN "update" ELSE "lookup"
             r == [call[c] EXCEPT !.limit = limit, !.at = at]
  <1>1. call[c] \in Call /\ limit \in Nat
    BY QuotaAssumption DEF IInv, TypeOK
  <1>2. /\ r \in Call /\ r.at = at /\ r.limit = limit
        /\ r.kind = call[c].kind /\ r.amount = call[c].amount /\ r.win = call[c].win
    BY <1>1 DEF Call, Places
  <1>3. call' = [call EXCEPT ![c] = r] /\ UNCHANGED <<window, used, cached, charged, raced, disturbed>>
    <2>1. call' = [call EXCEPT ![c].limit = limit, ![c].at = at]
      BY DEF Resolve
    <2> QED  BY <2>1, <1>1 DEF Resolve, IInv, TypeOK, Call
  <1>4. at \in {"update", "lookup"} /\ (at = "update" => call[c].amount > 0)
        /\ (at = "lookup" => call[c].amount = 0 \/ limit = 0)
    BY <1>1 DEF Call
  <1>5. call[c].kind = "check" => call[c].amount = 0
    BY DEF IInv, Asks
  <1>6. used[call[c].win] \in Nat
    BY <1>1 DEF IInv, TypeOK, Call
  <1> HIDE DEF r, at
  <1>7. RecordOK(r, used)
    BY <1>1, <1>2, <1>4, <1>5, <1>6 DEF RecordOK, Call
  <1>8. c \notin charged
    BY DEF Resolve, IInv, Charges
  <1>9. \A w \in Windows \ raced' : cached'[w] # Miss => cached'[w] <= used[w]
    BY <1>3 DEF IInv, NotAhead
  <1> QED  BY <1>2, <1>3, <1>4, <1>7, <1>8, <1>9, QuietStep DEF IInv, TypeOK

\* Every other step that charges nothing moves the call and leaves the cache
\* alone or gives it the call's value, which is not ahead.
LEMMA MoveStep ==
  ASSUME IInv, NEW c \in Calls, NEW at \in Places, NEW v \in Nat,
         call' = [call EXCEPT ![c] = Moved(c, at, v)],
         RecordOK(Moved(c, at, v), used), at # "write",
         c \in charged => at \in {"allowed", "thrown"},
         \/ cached' = cached
         \/ cached' = [cached EXCEPT ![call[c].win] = v]
            /\ (call[c].win \notin raced => v <= used[call[c].win]),
         UNCHANGED <<window, used, charged, raced>>,
         disturbed' \subseteq Windows
  PROVE  IInv'
  <1>1. call[c] \in Call /\ call[c].win \in Windows
    BY DEF IInv, TypeOK, Call
  <1>2. /\ Moved(c, at, v).at = at
        /\ Moved(c, at, v).win = call[c].win /\ Moved(c, at, v).limit = call[c].limit
    BY MovedFacts DEF IInv
  <1>3. cached' \in [Windows -> Nat \cup {Miss}]
    BY DEF IInv, TypeOK
  <1>4. \A w \in Windows \ raced' : cached'[w] # Miss => cached'[w] <= used[w]
    BY <1>1 DEF IInv, NotAhead, TypeOK
  <1> QED  BY <1>2, <1>3, <1>4, QuietStep DEF IInv, TypeOK

\* Go is such a move, with the value unchanged.
LEMMA GoMoves ==
  ASSUME TypeOK, NEW c \in Calls, NEW at \in Places, Go(c, at)
  PROVE  call[c].value \in Nat /\ call' = [call EXCEPT ![c] = Moved(c, at, call[c].value)]
  <1>1. call[c] \in Call
    BY DEF TypeOK
  <1> QED  BY <1>1 DEF Go, Moved, Call

LEMMA AnswerMoves ==
  ASSUME TypeOK, NEW c \in Calls, NEW u \in Nat, Answer(c, u)
  PROVE  \E at \in {"allowed", "denied"} :
            /\ call' = [call EXCEPT ![c] = Moved(c, at, u)]
            /\ at = "denied" => ~Allowed(c, u)
  <1> DEFINE at == IF Allowed(c, u) THEN "allowed" ELSE "denied"
  <1>1. call[c] \in Call
    BY DEF TypeOK
  <1>2. call' = [call EXCEPT ![c].value = u, ![c].at = at]
    BY DEF Answer
  <1>3. call' = [call EXCEPT ![c] = Moved(c, at, u)]
    BY <1>1, <1>2 DEF Moved, Call, TypeOK
  <1> QED  BY <1>3

\* An answer computed from a copy that is not ahead is a genuine one.
LEMMA AnswerOK ==
  ASSUME IInv, NEW c \in Calls, NEW u \in Nat, call[c].at \in {"lookup", "fill"},
         call[c].win \notin raced => u <= used[call[c].win],
         NEW at \in {"allowed", "denied"}, at = "denied" => ~Allowed(c, u)
  PROVE  RecordOK(Moved(c, at, u), used)
  <1>1. RecordOK(call[c], used) /\ used[call[c].win] \in Nat
    BY RecordsOK DEF IInv, TypeOK, Call
  <1>2. call[c].limit \in Nat /\ call[c].amount \in Nat /\ call[c].kind \in {"check", "consume"}
    BY <1>1 DEF RecordOK, Call
  <1>3. at \in Places
    BY DEF Places
  <1> QED  BY <1>1, <1>2, <1>3, MovedFacts DEF RecordOK, Allowed, IInv

LEMMA ReadUsageStep ==
  ASSUME IInv, NEW c \in Calls, ReadUsage(c)
  PROVE  IInv'
  <1> DEFINE r == Moved(c, "write", used[call[c].win])
  <1>1. call[c] \in Call /\ call[c].win \in Windows /\ used[call[c].win] \in Nat
    BY DEF IInv, TypeOK, Call
  <1>2. /\ r \in Call /\ r.at = "write" /\ r.value = used[call[c].win]
        /\ r.kind = call[c].kind /\ r.amount = call[c].amount
        /\ r.win = call[c].win /\ r.limit = call[c].limit
    BY <1>1, MovedFacts DEF Places, IInv
  <1>3. call' = [call EXCEPT ![c] = r]
    BY <1>1 DEF ReadUsage, Moved, Call, IInv, TypeOK
  <1>4. call[c].at = "update" /\ RecordOK(call[c], used)
    BY RecordsOK DEF ReadUsage
  <1> HIDE DEF r
  <1>5. RecordOK(r, used)
    BY <1>2, <1>4 DEF RecordOK
  <1>6. \A d \in Calls \ {c} : call[d].at = "write" /\ call[d].win = r.win => r.win \in raced'
    BY <1>2 DEF ReadUsage, OpenIn, Open
  <1>7. c \notin charged
    BY <1>4 DEF IInv, Charges
  <1>8. raced \subseteq raced' /\ raced' \subseteq Windows
    BY <1>1 DEF ReadUsage, IInv, TypeOK
  <1>9. UNCHANGED <<window, used, cached, charged, disturbed>>
    BY DEF ReadUsage
  <1>10. \A w \in Windows \ raced' : cached'[w] # Miss => cached'[w] <= used[w]
    BY <1>8, <1>9 DEF IInv, NotAhead
  <1> QED  BY <1>2, <1>3, <1>5, <1>6, <1>7, <1>8, <1>9, <1>10, QuietStep DEF IInv, TypeOK

LEMMA ExceededStep ==
  ASSUME IInv, NEW c \in Calls, Exceeded(c)
  PROVE  IInv'
  <1>1. call[c].at = "write" /\ RecordOK(call[c], used) /\ c \notin charged
    BY RecordsOK DEF Exceeded, IInv, Charges
  <1>2. call[c].value \in Nat /\ call' = [call EXCEPT ![c] = Moved(c, "lookup", call[c].value)]
    BY GoMoves DEF Exceeded, IInv, Places
  <1>3. "lookup" \in Places
    BY DEF Places
  <1>4. RecordOK(Moved(c, "lookup", call[c].value), used)
    BY <1>1, <1>2, <1>3, MovedFacts DEF RecordOK, Exceeded, OverLimit, IInv
  <1> QED  BY <1>1, <1>2, <1>3, <1>4, MoveStep DEF Exceeded, IInv, TypeOK

LEMMA StoreStep ==
  ASSUME IInv, NEW c \in Calls, Store(c)
  PROVE  IInv'
  <1>1. call[c].at = "store" /\ RecordOK(call[c], used)
    BY RecordsOK DEF Store
  <1>2. call[c].value \in Nat /\ call' = [call EXCEPT ![c] = Moved(c, "allowed", call[c].value)]
    BY GoMoves DEF Store, IInv, Places
  <1>3. "allowed" \in Places
    BY DEF Places
  <1>4. RecordOK(Moved(c, "allowed", call[c].value), used)
    BY <1>1, <1>2, <1>3, MovedFacts DEF RecordOK, IInv
  <1>5. call[c].win \notin raced => call[c].value <= used[call[c].win]
    BY <1>1 DEF RecordOK
  <1> QED  BY <1>2, <1>3, <1>4, <1>5, MoveStep DEF Store, IInv, TypeOK

LEMMA HitStep ==
  ASSUME IInv, NEW c \in Calls, Hit(c)
  PROVE  IInv'
  <1> DEFINE u == cached[call[c].win]
  <1>1. call[c].win \in Windows /\ c \notin charged /\ call[c].at = "lookup"
    BY DEF Hit, IInv, TypeOK, Call, Charges
  <1>2. u \in Nat /\ (call[c].win \notin raced => u <= used[call[c].win])
    BY <1>1 DEF Hit, IInv, TypeOK, NotAhead
  <1>3. Answer(c, u) /\ UNCHANGED <<window, used, cached, charged, raced, disturbed>>
    BY DEF Hit
  <1> HIDE DEF u
  <1>4. PICK at \in {"allowed", "denied"} :
            call' = [call EXCEPT ![c] = Moved(c, at, u)] /\ (at = "denied" => ~Allowed(c, u))
    BY <1>2, <1>3, AnswerMoves DEF IInv
  <1>5. RecordOK(Moved(c, at, u), used) /\ at \in Places /\ at # "write"
    BY <1>1, <1>2, <1>4, AnswerOK DEF Places
  <1> QED  BY <1>1, <1>2, <1>3, <1>4, <1>5, MoveStep DEF IInv, TypeOK

LEMMA FillStep ==
  ASSUME IInv, NEW c \in Calls, Fill(c)
  PROVE  IInv'
  <1> DEFINE u == call[c].value
  <1>1. c \notin charged /\ call[c].at = "fill" /\ RecordOK(call[c], used)
    BY RecordsOK DEF Fill, IInv, Charges
  <1>2. u \in Nat /\ (call[c].win \notin raced => u <= used[call[c].win])
    BY <1>1 DEF RecordOK, Call
  <1>3. /\ Answer(c, u) /\ UNCHANGED <<window, used, charged, raced, disturbed>>
        /\ cached' = [cached EXCEPT ![call[c].win] = u]
    BY DEF Fill
  <1> HIDE DEF u
  <1>4. PICK at \in {"allowed", "denied"} :
            call' = [call EXCEPT ![c] = Moved(c, at, u)] /\ (at = "denied" => ~Allowed(c, u))
    BY <1>2, <1>3, AnswerMoves DEF IInv
  <1>5. RecordOK(Moved(c, at, u), used) /\ at \in Places /\ at # "write"
    BY <1>1, <1>2, <1>4, AnswerOK DEF Places
  <1> QED  BY <1>1, <1>2, <1>3, <1>4, <1>5, MoveStep DEF IInv, TypeOK

LEMMA MissCacheStep ==
  ASSUME IInv, NEW c \in Calls, MissCache(c)
  PROVE  IInv'
  <1>1. call[c].at = "lookup" /\ RecordOK(call[c], used) /\ c \notin charged
    BY RecordsOK DEF MissCache, IInv, Charges
  <1>2. call[c].value \in Nat /\ call' = [call EXCEPT ![c] = Moved(c, "load", call[c].value)]
    BY GoMoves DEF MissCache, IInv, Places
  <1>3. "load" \in Places
    BY DEF Places
  <1>4. RecordOK(Moved(c, "load", call[c].value), used)
    BY <1>1, <1>2, <1>3, MovedFacts DEF RecordOK, IInv
  <1> QED  BY <1>1, <1>2, <1>3, <1>4, MoveStep DEF MissCache, IInv, TypeOK

LEMMA LoadStep ==
  ASSUME IInv, NEW c \in Calls, Load(c)
  PROVE  IInv'
  <1> DEFINE u == used[call[c].win]
  <1>1. call[c].at = "load" /\ RecordOK(call[c], used) /\ c \notin charged
    BY RecordsOK DEF Load, IInv, Charges
  <1>2. call[c] \in Call /\ u \in Nat
    BY DEF IInv, TypeOK, Call
  <1>3. call' = [call EXCEPT ![c] = Moved(c, "fill", u)]
    BY <1>2 DEF Load, Moved, Call, IInv, TypeOK
  <1>4. "fill" \in Places
    BY DEF Places
  <1>5. RecordOK(Moved(c, "fill", u), used)
    BY <1>1, <1>2, <1>4, MovedFacts DEF RecordOK, IInv
  <1> HIDE DEF u
  <1> QED  BY <1>1, <1>2, <1>3, <1>4, <1>5, MoveStep DEF Load, IInv, TypeOK

LEMMA ThrowStep ==
  ASSUME IInv, NEW c \in Calls, Throw(c)
  PROVE  IInv'
  <1>1. RecordOK(call[c], used) /\ call[c].win \in Windows
    BY RecordsOK DEF RecordOK, Call
  <1>2. call[c].value \in Nat /\ call' = [call EXCEPT ![c] = Moved(c, "thrown", call[c].value)]
    BY GoMoves DEF Throw, IInv, Places
  <1>3. "thrown" \in Places
    BY DEF Places
  <1>4. RecordOK(Moved(c, "thrown", call[c].value), used)
    BY <1>1, <1>2, <1>3, MovedFacts DEF RecordOK, IInv
  <1>5. disturbed' \subseteq Windows
    BY <1>1 DEF Throw, IInv, TypeOK
  <1> QED  BY <1>2, <1>3, <1>4, <1>5, MoveStep DEF Throw, IInv, TypeOK

----------------------------------------------------------------------------
\* A charge raises the row its call has read; where updates do not race no
\* other call is about to write, and larger usage refutes no earlier refusal.
LEMMA ChargeStep ==
  ASSUME IInv, NEW c \in Calls, Charge(c)
  PROVE  IInv'
  <1> USE DEF IInv
  <1> DEFINE w == call[c].win
             next == call[c].value + call[c].amount
             r == Moved(c, "store", next)
  <1>1. /\ call[c] \in Call /\ w \in Windows /\ next \in Nat /\ used[w] \in Nat
        /\ call[c].at = "write" /\ next <= call[c].limit /\ call[c].limit \in Nat
    BY DEF Charge, OverLimit, TypeOK, Call
  <1>2. /\ r \in Call /\ r.at = "store" /\ r.value = next
        /\ r.kind = call[c].kind /\ r.amount = call[c].amount
        /\ r.win = w /\ r.limit = call[c].limit
    BY <1>1, MovedFacts DEF Places
  <1>3. /\ call' = [call EXCEPT ![c] = r]
        /\ used' = [used EXCEPT ![w] = next]
        /\ charged' = charged \cup {c}
        /\ UNCHANGED <<window, cached, raced, disturbed>>
    BY <1>1 DEF Charge, Moved, Call, TypeOK
  <1>4. w \notin raced => used[w] < next
    <2>1. w \notin raced => call[c].value = used[w]
      BY <1>1 DEF Current
    <2>2. call[c].amount > 0
      BY <1>1 DEF Asks
    <2> QED  BY <1>1, <2>1, <2>2 DEF Call
  <1> HIDE DEF w, next, r
  <1>5. used' \in [Windows -> Nat] /\ used'[w] = next
    BY <1>1, <1>3 DEF TypeOK
  <1>6. \A v \in Windows \ raced : used[v] <= used'[v]
    BY <1>1, <1>3, <1>4 DEF TypeOK
  <1>7. call'[c] = r /\ \A d \in Calls : d # c => call'[d] = call[d]
    BY <1>3 DEF TypeOK
  <1>8. \A d \in Calls : d # c /\ call[d].at = "write" /\ call[d].win \notin raced
            => call[d].win # w
    BY <1>1 DEF Serial, w
  <1>9. \A d \in Calls : RecordOK(call'[d], used')
    <2> SUFFICES ASSUME NEW d \in Calls PROVE RecordOK(call'[d], used')
      OBVIOUS
    <2>1. CASE d = c
      <3>1. r.kind = "check" => r.amount = 0
        BY <1>2 DEF Asks
      <3> QED  BY <1>2, <1>5, <1>7, <1>1, <2>1, <3>1 DEF RecordOK
    <2>2. CASE d # c
      <3>1. call'[d] = call[d] /\ RecordOK(call[d], used) /\ call[d] \in Call
        BY <1>7, <2>2, RecordsOK DEF RecordOK
      <3>2. /\ call[d].win \in Windows /\ call[d].value \in Nat /\ call[d].amount \in Nat
            /\ call[d].limit \in Nat
            /\ used[call[d].win] \in Nat /\ used'[call[d].win] \in Nat
        BY <1>5, <3>1 DEF Call, TypeOK
      <3>3. call[d].win \notin raced => used[call[d].win] <= used'[call[d].win]
        BY <1>6, <3>2
      <3>4. call[d].at = "write" /\ call[d].win \notin raced
                => used'[call[d].win] = used[call[d].win]
        BY <1>3, <1>8, <2>2, <3>2 DEF TypeOK
      <3> QED  BY <3>1, <3>2, <3>3, <3>4 DEF RecordOK
    <2> QED  BY <2>1, <2>2
  <1>10. TypeOK'
    BY <1>2, <1>3, <1>5 DEF TypeOK
  <1>11. Charges'
    BY <1>2, <1>3, <1>7 DEF Charges, TypeOK
  <1>12. Asks'
    BY <1>9 DEF Asks, RecordOK
  <1>13. Serial'
    <2> SUFFICES ASSUME NEW d \in Calls, NEW e \in Calls, d # e,
                        call'[d].at = "write", call'[e].at = "write",
                        call'[d].win = call'[e].win
                 PROVE  call'[d].win \in raced
      BY <1>3 DEF Serial
    <2>1. d # c /\ e # c
      BY <1>2, <1>7
    <2> QED  BY <1>7, <2>1 DEF Serial
  <1>14. Current'
    BY <1>3, <1>9 DEF Current, RecordOK
  <1>15. NotAhead'
    <2>1. \A v \in Windows \ raced : cached[v] # Miss => cached[v] <= used'[v]
      BY <1>5, <1>6 DEF NotAhead, TypeOK
    <2> QED  BY <1>3, <1>9, <2>1 DEF NotAhead, RecordOK, Windows
  <1>16. Refused'
    BY <1>3, <1>9 DEF Refused, RecordOK
  <1>17. WithinLimit'
    <2> SUFFICES ASSUME NEW v \in Windows \ raced, used'[v] > 0
                 PROVE  \E d \in charged' : call'[d].win = v /\ used'[v] <= call'[d].limit
      BY <1>3 DEF WithinLimit, Windows
    <2>1. CASE v = w
      BY <1>1, <1>2, <1>3, <1>5, <1>7, <2>1
    <2>2. CASE v # w
      <3>1. used'[v] = used[v]
        BY <1>3, <2>2 DEF TypeOK
      <3>2. PICK d \in charged : call[d].win = v /\ used[v] <= call[d].limit
        BY <3>1 DEF WithinLimit
      <3>3. d # c
        BY <2>2, <3>2 DEF w
      <3> QED  BY <1>3, <1>7, <3>1, <3>2, <3>3 DEF TypeOK
    <2> QED  BY <2>1, <2>2
  <1>18. DenialGenuine'
    BY <1>3, <1>9 DEF DenialGenuine, RecordOK
  <1> QED  BY <1>10, <1>11, <1>12, <1>13, <1>14, <1>15, <1>16, <1>17, <1>18

\* The cache loses entries, windows turn and nothing else happens.
LEMMA EnvironmentStep ==
  ASSUME IInv, UNCHANGED <<used, call, charged, raced, disturbed>>,
         window' \in Windows,
         cached' \in [Windows -> Nat \cup {Miss}],
         \A w \in Windows : cached'[w] \in {cached[w], Miss}
  PROVE  IInv'
  <1> USE DEF IInv
  <1>1. TypeOK'
    BY DEF TypeOK
  <1>2. Charges' /\ Asks'
    BY DEF Charges, Asks
  <1>3. Serial' /\ Current'
    BY DEF Serial, Current
  <1>4. NotAhead'
    BY DEF NotAhead, Windows
  <1>5. Refused'
    BY DEF Refused
  <1>6. WithinLimit'
    BY DEF WithinLimit, Windows
  <1>7. DenialGenuine'
    BY DEF DenialGenuine
  <1> QED  BY <1>1, <1>2, <1>3, <1>4, <1>5, <1>6, <1>7

\* Every step keeps the invariant.
LEMMA StepInv == IInv /\ [Next]_vars => IInv'
  <1> SUFFICES ASSUME IInv, [Next]_vars PROVE IInv'  OBVIOUS
  <1>1. CASE UNCHANGED vars
    BY <1>1, EnvironmentStep DEF vars, IInv, TypeOK
  <1>2. CASE NextWindow
    <2>1. window' \in Windows
      BY <1>2, QuotaAssumption DEF NextWindow, IInv, TypeOK, Windows
    <2> QED  BY <1>2, <2>1, EnvironmentStep DEF NextWindow, IInv, TypeOK
  <1>3. ASSUME NEW w \in Windows, Evict(w)  PROVE IInv'
    BY <1>3, EnvironmentStep DEF Evict, IInv, TypeOK
  <1>4. ASSUME NEW c \in Calls, Begin(c, "check", 0)  PROVE IInv'
    BY <1>4, BeginStep
  <1>5. ASSUME NEW c \in Calls, NEW amount \in Amounts, Begin(c, "consume", amount)
        PROVE  IInv'
    BY <1>5, BeginStep, QuotaAssumption
  <1>6. ASSUME NEW c \in Calls, NEW limit \in Limits, Resolve(c, limit)  PROVE IInv'
    BY <1>6, ResolveStep
  <1>7. ASSUME NEW c \in Calls, ReadUsage(c) \/ Charge(c) \/ Exceeded(c) \/ Store(c)
        PROVE  IInv'
    BY <1>7, ReadUsageStep, ChargeStep, ExceededStep, StoreStep
  <1>8. ASSUME NEW c \in Calls, Hit(c) \/ MissCache(c) \/ Load(c) \/ Fill(c) \/ Throw(c)
        PROVE  IInv'
    BY <1>8, HitStep, MissCacheStep, LoadStep, FillStep, ThrowStep
  <1> QED  BY <1>1, <1>2, <1>3, <1>4, <1>5, <1>6, <1>7, <1>8 DEF Next

LEMMA Invariance == Spec => []IInv
  BY InitInv, StepInv, PTL DEF Spec

\* Usage rows, cache entries and the values calls carry keep their types: a
\* missing row or entry never reaches a comparison.
THEOREM TypeCorrect == Spec => []TypeOK
  <1>1. IInv => TypeOK
    BY DEF IInv
  <1> QED  BY <1>1, Invariance, PTL

\* However consume calls interleave, what a window is charged fits the limit of
\* a call charged to it, unless the storage let two updates race.
THEOREM WithinLimitHolds == Spec => []WithinLimit
  <1>1. IInv => WithinLimit
    BY DEF IInv
  <1> QED  BY <1>1, Invariance, PTL

\* Although check answers from a cache that is filled out of order, it denies
\* only what storage would deny as well, unless the storage let updates race.
THEOREM DenialGenuineHolds == Spec => []DenialGenuine
  <1>1. IInv => DenialGenuine
    BY DEF IInv
  <1> QED  BY <1>1, Invariance, PTL
=============================================================================
