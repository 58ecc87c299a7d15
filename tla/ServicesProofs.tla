--------------------------- MODULE ServicesProofs ---------------------------
(***************************************************************************)
(* The refresh tokens of a user, for any number of requests, devices and   *)
(* tokens, and the form of a travel enquiry, for any number of applicants. *)
(* A request in flight that no sign-out crossed stands for the current     *)
(* period, and one that rotates a session nobody contests holds its only   *)
(* valid token.  What the form asked is answered, and an answer changes    *)
(* only what is still to be asked.  At the end the composed specification  *)
(* that TLC runs: each of its behaviours is one of every service, so that  *)
(* the theorems of the services hold in it.                                *)
(***************************************************************************)
EXTENDS MCServices, BookingsProofs, DeliveryProofs

-----------------------------------------------------------------------------
(* The refresh tokens.                                                     *)

TokenType == [device : Device, family : Nat, live : BOOLEAN, expired : BOOLEAN,
              period : Nat, crossed : BOOLEAN]
VisitType == [pc : InFlight \cup {"unused", "done"}, device : Device, tok : Nat,
              period : Nat, crossed : BOOLEAN]
Tokens == 1 .. Len(token)
TokensTyped ==
    /\ token \in Seq(TokenType)
    /\ visit \in [Visit -> VisitType]
    /\ \A v \in Visit : visit[v].pc \in {"rotate", "replay", "expire"} => visit[v].tok \in Tokens
    /\ period \in Nat

\* A family is named by its first token.
Families == \A t \in Tokens : token[t].family \in Tokens

\* Who read before the sign-out is known to have been crossed.
PeriodCurrent ==
    /\ \A t \in Tokens : token[t].live => token[t].period = period \/ token[t].crossed
    /\ \A v \in Visit : ~visit[v].crossed =>
          /\ visit[v].pc \in {"login", "register"} => visit[v].period = period
          /\ visit[v].pc = "rotate" =>
                token[visit[v].tok].period = period \/ token[visit[v].tok].crossed

\* The family a request rotates.
Rotates(v, f) == visit[v].pc = "rotate" /\ token[visit[v].tok].family = f

\* A session nobody contests has one valid token and one request that rotates it.
Single ==
    /\ \A s, t \in Tokens :
          token[s].live /\ token[t].live /\ token[s].family = token[t].family
          /\ token[s].family \notin contested => s = t
    /\ \A v, w \in Visit, f \in Nat : Rotates(v, f) /\ Rotates(w, f) /\ f \notin contested => v = w
    /\ \A v \in Visit, t \in Tokens, f \in Nat :
          Rotates(v, f) /\ token[t].family = f /\ token[t].live /\ f \notin contested
            => t = visit[v].tok

SessionsInv == TokensTyped /\ Families /\ PeriodCurrent /\ Single

-----------------------------------------------------------------------------
(* The tokens that a step leaves.                                          *)

\* Every token is what it was, but may be revoked or have expired.
SameTokens ==
    /\ token' \in Seq(TokenType) /\ Len(token') = Len(token)
    /\ \A t \in Tokens : /\ token'[t].family = token[t].family
                         /\ token'[t].period = token[t].period
                         /\ token'[t].crossed = token[t].crossed
                         /\ token'[t].live => token[t].live

\* The tokens are numbered in the order of their creation.
LEMMA TokenFunction ==
    ASSUME TokensTyped
    PROVE  /\ token \in [Tokens -> TokenType] /\ Len(token) \in Nat /\ DOMAIN token = Tokens
           /\ \A t \in Tokens : token[t].family \in Nat /\ token[t].live \in BOOLEAN
<1>1. token \in [Tokens -> TokenType] /\ Len(token) \in Nat /\ DOMAIN token = Tokens
  BY DEF TokensTyped, Tokens
<1> QED
  BY <1>1 DEF TokenType

\* Revocation keeps the tokens.
LEMMA RevokedTokens ==
    ASSUME TokensTyped, NEW S
    PROVE  /\ Revoked(S) \in Seq(TokenType) /\ Len(Revoked(S)) = Len(token)
           /\ \A t \in Tokens : /\ Revoked(S)[t].family = token[t].family
                                /\ Revoked(S)[t].period = token[t].period
                                /\ Revoked(S)[t].crossed = token[t].crossed
                                /\ Revoked(S)[t].live => token[t].live /\ t \notin S
<1> DEFINE dead(t) == [token[t] EXCEPT !.live = FALSE]
<1>1. token \in [Tokens -> TokenType] /\ Len(token) \in Nat /\ DOMAIN token = Tokens
  BY TokenFunction
<1>2. \A t \in Tokens : /\ dead(t) \in TokenType
                        /\ dead(t).family = token[t].family /\ dead(t).period = token[t].period
                        /\ dead(t).crossed = token[t].crossed /\ ~dead(t).live
  BY <1>1 DEF TokenType
<1>3. Revoked(S) = [t \in Tokens |-> IF t \in S THEN dead(t) ELSE token[t]]
  BY <1>1 DEF Revoked
<1> HIDE DEF dead
<1>4. Revoked(S) \in [1 .. Len(token) -> TokenType]
  BY <1>1, <1>2, <1>3 DEF Tokens
<1>5. Revoked(S) \in Seq(TokenType)
  BY <1>1, <1>4, SeqDef
<1>6. Len(Revoked(S)) = Len(token)
  BY <1>1, <1>4, <1>5, LenProperties
<1> QED
  BY <1>1, <1>2, <1>3, <1>5, <1>6

\* A token is added at the end.
LEMMA AddedToken ==
    ASSUME NEW s \in Seq(TokenType), NEW e \in TokenType
    PROVE  /\ Append(s, e) \in Seq(TokenType) /\ Len(Append(s, e)) = Len(s) + 1
           /\ \A t \in 1 .. Len(s) : Append(s, e)[t] = s[t]
           /\ Append(s, e)[Len(s) + 1] = e
  BY AppendProperties

-----------------------------------------------------------------------------
\* Nobody is signed in.
LEMMA InitSessions == SessionsInit => SessionsInv
<1> SUFFICES ASSUME SessionsInit
             PROVE  SessionsInv
  OBVIOUS
<1>1. token = <<>> /\ Len(token) = 0 /\ Tokens = {} /\ token \in Seq(TokenType)
  BY DEF SessionsInit, Tokens
<1>2. PICK d \in [Visit -> Device] : visit = [v \in Visit |-> Unused(d[v])]
  BY DEF SessionsInit
<1>3. \A v \in Visit : visit[v] \in VisitType /\ visit[v].pc = "unused"
  BY <1>2 DEF Unused, VisitType
<1> QED
  BY <1>1, <1>2, <1>3 DEF SessionsInit, SessionsInv, TokensTyped, Families, PeriodCurrent, Single, Rotates

\* Steps that only revoke or let expire, within the same period, and take requests
\* out of flight or into a phase that holds no token.
LEMMA RevokingStep ==
    ASSUME SessionsInv, SameTokens, UNCHANGED <<period, contested>>,
           visit' \in [Visit -> VisitType],
           \A v \in Visit : \/ visit'[v] = visit[v]
                            \/ visit'[v].pc = "done"
                            \/ /\ visit'[v].pc \in {"login", "register"}
                               /\ visit'[v].crossed \/ visit'[v].period = period
    PROVE  SessionsInv'
<1>1. Tokens' = Tokens /\ \A t \in Tokens : token'[t].family = token[t].family
  BY DEF SameTokens, Tokens
<1>2. TokensTyped' /\ Families'
  BY <1>1 DEF SameTokens, SessionsInv, TokensTyped, Families
<1>3. \A v \in Visit : visit'[v].pc \in {"rotate", "replay", "expire"} =>
          visit'[v] = visit[v] /\ visit[v].tok \in Tokens
  BY DEF SessionsInv, TokensTyped
<1>4. PeriodCurrent'
  BY <1>1, <1>3 DEF SameTokens, SessionsInv, PeriodCurrent
<1>5. \A v \in Visit, f \in Nat : Rotates(v, f)' => Rotates(v, f) /\ visit'[v] = visit[v]
  BY <1>1, <1>3 DEF Rotates
<1>6. \A t \in Tokens : token[t].family \in Nat
  BY TokenFunction DEF SessionsInv
<1>7. Single'
  BY <1>1, <1>5, <1>6 DEF SameTokens, SessionsInv, Single
<1> QED
  BY <1>2, <1>4, <1>7 DEF SessionsInv

\* The end of every session: what was read before is crossed.
LEMMA EndingStep ==
    ASSUME SessionsInv, EndEverything, UNCHANGED contested, visit' \in [Visit -> VisitType],
           \A v \in Visit : \/ visit'[v].pc \in {"unused", "done"}
                            \/ /\ visit'[v].pc = visit[v].pc /\ visit'[v].tok = visit[v].tok
                               /\ visit'[v].crossed
    PROVE  SessionsInv'
<1>1. token' = Revoked(DOMAIN token) /\ DOMAIN token = Tokens /\ period' = period + 1 /\ period \in Nat
  BY LenProperties DEF EndEverything, SessionsInv, TokensTyped, Tokens
<1>2. /\ token' \in Seq(TokenType) /\ Tokens' = Tokens
      /\ \A t \in Tokens : token'[t].family = token[t].family /\ ~token'[t].live
  BY <1>1, RevokedTokens DEF SessionsInv, Tokens
<1>3. \A v \in Visit : visit'[v].pc \in {"rotate", "replay", "expire"} =>
          /\ visit[v].pc = visit'[v].pc /\ visit'[v].tok = visit[v].tok /\ visit[v].tok \in Tokens
  BY DEF SessionsInv, TokensTyped
<1>4. TokensTyped' /\ Families'
  BY <1>1, <1>2, <1>3 DEF SessionsInv, TokensTyped, Families
<1>5. PeriodCurrent'
  BY <1>2, <1>3 DEF PeriodCurrent
<1>6. \A v \in Visit, f \in Nat : Rotates(v, f)' => Rotates(v, f)
  BY <1>2, <1>3 DEF Rotates
<1>7. \A t \in Tokens : token[t].family \in Nat
  BY TokenFunction DEF SessionsInv
<1>8. Single'
  BY <1>2, <1>6, <1>7 DEF SessionsInv, Single
<1> QED
  BY <1>4, <1>5, <1>8 DEF SessionsInv

\* A new token is added to those that were, some of which may be revoked.
Added(new) ==
    /\ token' \in Seq(TokenType) /\ Len(token') = Len(token) + 1
    /\ token'[Len(token) + 1] = new
    /\ \A t \in Tokens : /\ token'[t].family = token[t].family
                         /\ token'[t].period = token[t].period
                         /\ token'[t].crossed = token[t].crossed
                         /\ token'[t].live => token[t].live

\* A new token: the first of its family, or in the place of the one its request
\* rotated; the request is done.
LEMMA AddingStep ==
    ASSUME SessionsInv, period' = period, contested' = contested, NEW v \in Visit,
           visit' \in [Visit -> VisitType], visit'[v].pc = "done",
           \A w \in Visit \ {v} : visit'[w] = visit[w],
           NEW STATE new, new \in TokenType, Added(new), new.period = period \/ new.crossed,
           \/ new.family = Len(token) + 1
           \/ Rotates(v, new.family) /\ ~token'[visit[v].tok].live
    PROVE  SessionsInv'
<1> DEFINE newest == Len(token) + 1
<1>n. Len(token) \in Nat
  BY TokenFunction DEF SessionsInv
<1>0. token' \in Seq(TokenType) /\ Len(token') = newest
  BY DEF Added
<1>1. /\ token'[newest] = new
      /\ \A t \in Tokens : /\ token'[t].family = token[t].family
                           /\ token'[t].period = token[t].period
                           /\ token'[t].crossed = token[t].crossed
                           /\ token'[t].live => token[t].live
  BY DEF Added
<1>2. Tokens' = Tokens \cup {newest} /\ newest \notin Tokens
  BY <1>0, <1>n DEF Tokens
<1> HIDE DEF newest
<1>3. \A w \in Visit : visit'[w].pc \in {"rotate", "replay", "expire", "login", "register"} =>
          w # v /\ visit'[w] = visit[w]
  OBVIOUS
<1>t. \A w \in Visit : visit[w].pc \in {"rotate", "replay", "expire"} => visit[w].tok \in Tokens
  BY DEF SessionsInv, TokensTyped
<1>4. TokensTyped'
  BY <1>0, <1>2, <1>3, <1>t DEF SessionsInv, TokensTyped
<1>f. new.family \in Tokens \/ new.family = newest
  BY <1>t DEF SessionsInv, Families, Rotates, newest
<1>5. Families'
  BY <1>1, <1>2, <1>f DEF SessionsInv, Families
<1>6. PeriodCurrent'
  <2>1. \A t \in Tokens' : token'[t].live => token'[t].period = period \/ token'[t].crossed
    BY <1>1, <1>2 DEF SessionsInv, PeriodCurrent
  <2>2. \A w \in Visit : visit'[w].pc = "rotate" =>
            /\ token'[visit'[w].tok].period = token[visit[w].tok].period
            /\ token'[visit'[w].tok].crossed = token[visit[w].tok].crossed
    BY <1>1, <1>3, <1>t
  <2> QED
    BY <1>3, <2>1, <2>2 DEF SessionsInv, PeriodCurrent
<1>7. \A w \in Visit, f \in Nat : Rotates(w, f)' =>
          Rotates(w, f) /\ w # v /\ f \in Tokens /\ visit'[w].tok = visit[w].tok
  BY <1>1, <1>3, <1>t DEF Rotates, SessionsInv, Families
<1>8. \A t \in Tokens : token[t].family \in Nat /\ token[t].family \in Tokens
  BY TokenFunction DEF SessionsInv, Families
\* Where the family goes on, it has no other valid token and nobody else's rotation.
<1>9. new.family \notin contested =>
        /\ \A t \in Tokens : token[t].family = new.family => ~token'[t].live
        /\ \A w \in Visit \ {v} : ~Rotates(w, new.family)
  <2>1. CASE new.family = newest
    BY <1>2, <1>8, <1>t, <2>1 DEF Rotates
  <2>2. CASE Rotates(v, new.family) /\ ~token'[visit[v].tok].live
    <3>1. new.family \in Nat
      BY DEF TokenType
    <3>2. \A t \in Tokens : token[t].family = new.family /\ token[t].live /\ new.family \notin contested
                              => t = visit[v].tok
      BY <2>2, <3>1 DEF SessionsInv, Single
    <3>3. \A w \in Visit : Rotates(w, new.family) /\ new.family \notin contested => w = v
      BY <2>2, <3>1 DEF SessionsInv, Single
    <3> QED
      BY <1>1, <2>2, <3>2, <3>3
  <2> QED
    BY <2>1, <2>2 DEF newest
<1>10. Single'
  <2>1. \A s, t \in Tokens' :
          token'[s].live /\ token'[t].live /\ token'[s].family = token'[t].family
          /\ token'[s].family \notin contested => s = t
    BY <1>1, <1>2, <1>9 DEF SessionsInv, Single
  <2>2. \A u, w \in Visit, f \in Nat : Rotates(u, f)' /\ Rotates(w, f)' /\ f \notin contested => u = w
    BY <1>7 DEF SessionsInv, Single
  <2>3. \A w \in Visit, t \in Tokens', f \in Nat :
          Rotates(w, f)' /\ token'[t].family = f /\ token'[t].live /\ f \notin contested
            => t = visit'[w].tok
    <3> SUFFICES ASSUME NEW w \in Visit, NEW t \in Tokens', NEW f \in Nat, Rotates(w, f)',
                        token'[t].family = f, token'[t].live, f \notin contested
                 PROVE  t = visit'[w].tok
      OBVIOUS
    <3>1. CASE t \in Tokens
      BY <1>1, <1>7, <3>1 DEF SessionsInv, Single
    <3>2. CASE t = newest
      BY <1>1, <1>7, <1>9, <3>2
    <3> QED
      BY <1>2, <3>1, <3>2
  <2> QED
    BY <2>1, <2>2, <2>3 DEF Single
<1> QED
  BY <1>4, <1>5, <1>6, <1>10 DEF SessionsInv

-----------------------------------------------------------------------------
(* The requests that a step leaves.                                        *)

\* One request moves on and the others stay.
LEMMA ProceedVisit ==
    ASSUME TokensTyped, NEW v \in Visit, NEW pc \in InFlight \cup {"unused", "done"}, Proceed(v, pc)
    PROVE  /\ visit' \in [Visit -> VisitType]
           /\ visit'[v].pc = pc /\ visit'[v].period = visit[v].period
           /\ visit'[v].crossed = visit[v].crossed
           /\ \A w \in Visit \ {v} : visit'[w] = visit[w]
<1> DEFINE next == [visit[v] EXCEPT !.pc = pc]
<1>1. next \in VisitType /\ next.pc = pc /\ next.period = visit[v].period
      /\ next.crossed = visit[v].crossed
  BY DEF TokensTyped, VisitType
<1>2. visit' = [visit EXCEPT ![v] = next]
  BY DEF Proceed
<1> HIDE DEF next
<1> QED
  BY <1>1, <1>2 DEF TokensTyped

\* Who has read and not yet committed is crossed.
LEMMA CrossingVisits ==
    ASSUME TokensTyped
    PROVE  /\ Crossing \in [Visit -> VisitType]
           /\ \A v \in Visit : /\ Crossing[v].pc = visit[v].pc /\ Crossing[v].tok = visit[v].tok
                               /\ visit[v].pc \in InFlight => Crossing[v].crossed
<1> DEFINE mark(v) == [visit[v] EXCEPT !.crossed = TRUE]
<1>1. \A v \in Visit : /\ mark(v) \in VisitType /\ mark(v).pc = visit[v].pc
                       /\ mark(v).tok = visit[v].tok /\ mark(v).crossed
  BY DEF TokensTyped, VisitType
<1>2. Crossing = [v \in Visit |-> IF visit[v].pc \in InFlight THEN mark(v) ELSE visit[v]]
  BY DEF Crossing
<1> HIDE DEF mark
<1> QED
  BY <1>1, <1>2 DEF TokensTyped

\* Revocation, or a commit that failed.
LEMMA SameOrRevoked ==
    ASSUME TokensTyped, UNCHANGED token \/ \E S \in SUBSET Nat : token' = Revoked(S)
    PROVE  SameTokens
<1>1. CASE UNCHANGED token
  BY <1>1 DEF SameTokens, TokensTyped
<1>2. ASSUME NEW S \in SUBSET Nat, token' = Revoked(S)
      PROVE  SameTokens
  BY <1>2, RevokedTokens DEF SameTokens
<1> QED
  BY <1>1, <1>2

\* What is filtered out of the tokens is a set of numbers.
LEMMA TokensAreNumbers ==
    ASSUME TokensTyped
    PROVE  DOMAIN token \subseteq Nat
  BY TokenFunction DEF Tokens

-----------------------------------------------------------------------------
(* The actions.                                                            *)

\* Sign-in verifies the password in the current period.
LEMMA LogInStep ==
    ASSUME SessionsInv, NEW v \in Visit, LogIn(v)
    PROVE  SessionsInv'
<1> DEFINE next == [visit[v] EXCEPT !.pc = "login", !.period = period]
<1>1. next \in VisitType /\ next.pc = "login" /\ next.period = period
  BY DEF SessionsInv, TokensTyped, VisitType, InFlight
<1>2. visit' = [visit EXCEPT ![v] = next]
  BY DEF LogIn, SessionsInv, TokensTyped
<1> HIDE DEF next
<1>3. /\ visit' \in [Visit -> VisitType] /\ visit'[v] = next
      /\ \A w \in Visit \ {v} : visit'[w] = visit[w]
  BY <1>1, <1>2 DEF SessionsInv, TokensTyped
<1>4. SameTokens /\ UNCHANGED <<period, contested>>
  BY SameOrRevoked DEF LogIn, SessionsInv
<1> QED
  BY <1>1, <1>3, <1>4, RevokingStep

\* The device's tokens go before the new one is registered.
LEMMA DropDeviceStep ==
    ASSUME SessionsInv, NEW v \in Visit, DropDevice(v)
    PROVE  SessionsInv'
<1>1. SameTokens /\ UNCHANGED <<period, contested>>
  BY SameOrRevoked, TokensAreNumbers DEF DropDevice, SessionsInv
<1>2. /\ visit' \in [Visit -> VisitType]
      /\ visit'[v].pc = "register" /\ visit'[v].period = visit[v].period
      /\ visit'[v].crossed = visit[v].crossed
      /\ \A w \in Visit \ {v} : visit'[w] = visit[w]
  BY ProceedVisit DEF DropDevice, SessionsInv, InFlight
<1>3. visit'[v].crossed \/ visit'[v].period = period
  BY <1>2 DEF DropDevice, SessionsInv, PeriodCurrent
<1> QED
  BY <1>1, <1>2, <1>3, RevokingStep

\* A request ends and no token is added.
LEMMA DoneStep ==
    ASSUME SessionsInv, NEW v \in Visit, Proceed(v, "done"), SameTokens,
           UNCHANGED <<period, contested>>
    PROVE  SessionsInv'
<1>1. /\ visit' \in [Visit -> VisitType] /\ visit'[v].pc = "done"
      /\ \A w \in Visit \ {v} : visit'[w] = visit[w]
  BY ProceedVisit DEF SessionsInv
<1> QED
  BY <1>1, RevokingStep

\* A sign-in starts a family of its own.
LEMMA RegisterStep ==
    ASSUME SessionsInv, NEW v \in Visit, Register(v)
    PROVE  SessionsInv'
<1> DEFINE new == RefreshToken(visit[v].device, Len(token) + 1, visit[v].period, visit[v].crossed)
<1>1. /\ visit[v].pc = "register" /\ Proceed(v, "done") /\ UNCHANGED <<period, contested>>
      /\ token' = Append(token, new) \/ UNCHANGED token
  BY DEF Register
<1>2. CASE UNCHANGED token
  BY <1>1, <1>2, DoneStep, SameOrRevoked DEF SessionsInv
<1>3. CASE token' = Append(token, new)
  <2>1. new \in TokenType /\ new.family = Len(token) + 1 /\ new.period = visit[v].period
        /\ new.crossed = visit[v].crossed
    <3>1. Len(token) \in Nat /\ visit[v] \in VisitType
      BY TokenFunction DEF SessionsInv, TokensTyped
    <3> QED
      BY <3>1 DEF RefreshToken, TokenType, VisitType
  <2> HIDE DEF new
  <2>2. new.period = period \/ new.crossed
    BY <1>1, <2>1 DEF SessionsInv, PeriodCurrent
  <2>3. Added(new)
    BY <1>3, <2>1, AddedToken DEF Added, Tokens, SessionsInv, TokensTyped
  <2>4. /\ visit' \in [Visit -> VisitType] /\ visit'[v].pc = "done"
        /\ \A w \in Visit \ {v} : visit'[w] = visit[w]
    BY <1>1, ProceedVisit DEF SessionsInv
  <2> QED
    BY <1>1, <2>1, <2>2, <2>3, <2>4, AddingStep
<1> QED
  BY <1>1, <1>2, <1>3

\* A rotation goes on with the family of the token that was read.
LEMMA RotateStep ==
    ASSUME SessionsInv, NEW v \in Visit, Rotate(v)
    PROVE  SessionsInv'
<1> DEFINE old == Revoked({visit[v].tok})
           new == Successor(v)
<1>1. /\ visit[v].pc = "rotate" /\ Proceed(v, "done") /\ UNCHANGED <<period, contested>>
      /\ token' = Append(old, new) \/ UNCHANGED token
      /\ visit[v].tok \in Tokens
  BY DEF Rotate, SessionsInv, TokensTyped
<1>2. CASE UNCHANGED token
  BY <1>1, <1>2, DoneStep, SameOrRevoked DEF SessionsInv
<1>3. CASE token' = Append(old, new)
  <2>1. /\ new \in TokenType /\ new.family = token[visit[v].tok].family
        /\ new.period = token[visit[v].tok].period
        /\ new.crossed = (token[visit[v].tok].crossed \/ visit[v].crossed)
    <3>1. token[visit[v].tok] \in TokenType /\ visit[v] \in VisitType
      BY <1>1, TokenFunction DEF SessionsInv, TokensTyped
    <3> QED
      BY <3>1 DEF Successor, RefreshToken, TokenType, VisitType
  <2>2. /\ old \in Seq(TokenType) /\ Len(old) = Len(token)
        /\ \A t \in Tokens : /\ old[t].family = token[t].family
                             /\ old[t].period = token[t].period
                             /\ old[t].crossed = token[t].crossed
                             /\ old[t].live => token[t].live /\ t # visit[v].tok
    BY RevokedTokens DEF SessionsInv
  <2> HIDE DEF new, old
  <2>3. new.period = period \/ new.crossed
    BY <1>1, <2>1 DEF SessionsInv, PeriodCurrent
  <2>4. /\ token' \in Seq(TokenType) /\ Len(token') = Len(token) + 1
        /\ token'[Len(token) + 1] = new /\ \A t \in Tokens : token'[t] = old[t]
    BY <1>3, <2>1, <2>2, AddedToken DEF Tokens
  <2>5. Added(new) /\ ~token'[visit[v].tok].live
    BY <1>1, <2>2, <2>4 DEF Added
  <2>6. /\ visit' \in [Visit -> VisitType] /\ visit'[v].pc = "done"
        /\ \A w \in Visit \ {v} : visit'[w] = visit[w]
    BY <1>1, ProceedVisit DEF SessionsInv
  <2>7. Rotates(v, new.family)
    BY <1>1, <2>1 DEF Rotates
  <2> QED
    BY <1>1, <2>1, <2>3, <2>5, <2>6, <2>7, AddingStep
<1> QED
  BY <1>1, <1>2, <1>3

\* A token that is presented: who rotates it while another does contests it.
LEMMA PresentStep ==
    ASSUME SessionsInv, NEW v \in Visit, NEW t \in DOMAIN token, Present(v, t)
    PROVE  SessionsInv'
<1> DEFINE pc == IF ~token[t].live THEN "replay" ELSE IF token[t].expired THEN "expire" ELSE "rotate"
           overlap == \E w \in Visit : visit[w].pc = "rotate"
                                       /\ token[visit[w].tok].family = token[t].family
           next == [visit[v] EXCEPT !.pc = pc, !.tok = t]
<1>1. /\ visit' = [visit EXCEPT ![v].pc = pc, ![v].tok = t]
      /\ contested' = IF pc = "rotate" /\ overlap THEN contested \cup {token[t].family} ELSE contested
      /\ UNCHANGED <<token, period>>
  BY DEF Present
<1>2. t \in Tokens /\ t \in Nat
  BY TokenFunction, TokensAreNumbers DEF SessionsInv
<1>3. next \in VisitType /\ next.pc = pc /\ next.tok = t /\ next.crossed = visit[v].crossed
  BY <1>2 DEF SessionsInv, TokensTyped, VisitType, InFlight
<1>4. pc \in {"replay", "expire", "rotate"} /\ (pc = "rotate" => token[t].live)
  OBVIOUS
<1>5. visit' = [visit EXCEPT ![v] = next]
  BY <1>1 DEF SessionsInv, TokensTyped
<1>6. \A f \in Nat : f \notin contested' => f \notin contested
  BY <1>1
<1>7. ASSUME pc = "rotate", token[t].family \notin contested', NEW w \in Visit
      PROVE  ~Rotates(w, token[t].family)
  BY <1>1, <1>7 DEF Rotates
<1> HIDE DEF pc, overlap, next
<1>8. /\ visit' \in [Visit -> VisitType] /\ visit'[v] = next
      /\ \A w \in Visit \ {v} : visit'[w] = visit[w]
  BY <1>3, <1>5 DEF SessionsInv, TokensTyped
<1>9. TokensTyped' /\ Families' /\ Tokens' = Tokens
  BY <1>1, <1>2, <1>3, <1>8 DEF SessionsInv, TokensTyped, Families, Tokens
<1>10. PeriodCurrent'
  BY <1>1, <1>2, <1>3, <1>4, <1>8, <1>9 DEF SessionsInv, PeriodCurrent
<1>11. /\ \A w \in Visit \ {v}, f \in Nat : Rotates(w, f)' => Rotates(w, f) /\ visit'[w].tok = visit[w].tok
       /\ \A f \in Nat : Rotates(v, f)' => pc = "rotate" /\ f = token[t].family
  BY <1>1, <1>3, <1>8 DEF Rotates
<1>12. Single'
  <2>1. \A s, u \in Tokens' :
          token'[s].live /\ token'[u].live /\ token'[s].family = token'[u].family
          /\ token'[s].family \notin contested' => s = u
    BY <1>1, <1>6, <1>9, TokenFunction DEF SessionsInv, Single
  <2>2. \A u, w \in Visit, f \in Nat : Rotates(u, f)' /\ Rotates(w, f)' /\ f \notin contested' => u = w
    BY <1>6, <1>7, <1>11 DEF SessionsInv, Single
  <2>3. \A w \in Visit, s \in Tokens', f \in Nat :
          Rotates(w, f)' /\ token'[s].family = f /\ token'[s].live /\ f \notin contested'
            => s = visit'[w].tok
    <3> SUFFICES ASSUME NEW w \in Visit, NEW s \in Tokens, NEW f \in Nat, Rotates(w, f)',
                        token[s].family = f, token[s].live, f \notin contested'
                 PROVE  s = visit'[w].tok
      BY <1>1, <1>9
    <3>1. CASE w = v
      BY <1>2, <1>3, <1>4, <1>6, <1>8, <1>11, <3>1 DEF SessionsInv, Single
    <3>2. CASE w # v
      BY <1>6, <1>11, <3>2 DEF SessionsInv, Single
    <3> QED
      BY <3>1, <3>2
  <2> QED
    BY <2>1, <2>2, <2>3 DEF Single
<1> QED
  BY <1>9, <1>10, <1>12 DEF SessionsInv

\* A token that came back ends every session, and so does a sign-out of all devices.
LEMMA EndStep ==
    ASSUME SessionsInv, LogOutAll \/ \E v \in Visit : Replay(v)
    PROVE  SessionsInv'
<1>c. /\ Crossing \in [Visit -> VisitType]
      /\ \A v \in Visit : /\ Crossing[v].pc = visit[v].pc /\ Crossing[v].tok = visit[v].tok
                          /\ visit[v].pc \in InFlight => Crossing[v].crossed
  BY CrossingVisits DEF SessionsInv
<1>t. \A v \in Visit : visit[v].pc \in InFlight \cup {"unused", "done"}
  BY DEF SessionsInv, TokensTyped, VisitType
<1>1. CASE LogOutAll
  <2>1. EndEverything /\ visit' = Crossing /\ UNCHANGED contested
    BY <1>1 DEF LogOutAll
  <2>2. \A v \in Visit : \/ visit'[v].pc \in {"unused", "done"}
                         \/ /\ visit'[v].pc = visit[v].pc /\ visit'[v].tok = visit[v].tok
                            /\ visit'[v].crossed
    BY <1>c, <1>t, <2>1
  <2> QED
    BY <1>c, <2>1, <2>2, EndingStep
<1>2. ASSUME NEW v \in Visit, Replay(v)
      PROVE  SessionsInv'
  <2>1. CASE EndEverything /\ visit' = [Crossing EXCEPT ![v].pc = "done"]
    <3> DEFINE next == [Crossing[v] EXCEPT !.pc = "done"]
    <3>1. next \in VisitType /\ next.pc = "done"
      BY <1>c DEF VisitType
    <3>2. visit' = [Crossing EXCEPT ![v] = next]
      BY <2>1, <1>c
    <3> HIDE DEF next
    <3>3. /\ visit' \in [Visit -> VisitType] /\ visit'[v].pc = "done"
          /\ \A w \in Visit \ {v} : visit'[w] = Crossing[w]
      BY <1>c, <3>1, <3>2
    <3>4. UNCHANGED contested
      BY <1>2 DEF Replay
    <3>5. \A w \in Visit : \/ visit'[w].pc \in {"unused", "done"}
                           \/ /\ visit'[w].pc = visit[w].pc /\ visit'[w].tok = visit[w].tok
                              /\ visit'[w].crossed
      BY <1>c, <1>t, <3>3
    <3> QED
      BY <2>1, <3>3, <3>4, <3>5, EndingStep
  <2>2. CASE Proceed(v, "done") /\ UNCHANGED <<token, period>>
    BY <1>2, <2>2, DoneStep, SameOrRevoked DEF Replay, SessionsInv
  <2> QED
    BY <1>2, <2>1, <2>2 DEF Replay
<1> QED
  BY <1>1, <1>2

\* Every step keeps the invariant.
LEMMA NextSessions == SessionsInv /\ [SessionsNext]_sessionVars => SessionsInv'
<1> SUFFICES ASSUME SessionsInv, [SessionsNext]_sessionVars
             PROVE  SessionsInv'
  OBVIOUS
<1>n. DOMAIN token \subseteq Nat /\ TokensTyped /\ visit \in [Visit -> VisitType]
  BY TokensAreNumbers DEF SessionsInv, TokensTyped
<1>1. ASSUME NEW v \in Visit, RevokeExpired(v)
      PROVE  SessionsInv'
  <2>1. visit[v].tok \in Nat
    BY <1>n DEF VisitType
  <2>2. SameTokens
    BY <1>1, <1>n, <2>1, SameOrRevoked DEF RevokeExpired
  <2> QED
    BY <1>1, <2>2, DoneStep DEF RevokeExpired
<1>2. ASSUME NEW t \in DOMAIN token, LogOut(t)
      PROVE  SessionsInv'
  <2>1. SameTokens
    BY <1>2, <1>n, SameOrRevoked DEF LogOut
  <2> QED
    BY <1>2, <1>n, <2>1, RevokingStep DEF LogOut
<1>3. ASSUME NEW d \in Device, LogOutDevice(d)
      PROVE  SessionsInv'
  <2>1. SameTokens
    BY <1>3, <1>n, SameOrRevoked DEF LogOutDevice
  <2> QED
    BY <1>3, <1>n, <2>1, RevokingStep DEF LogOutDevice
<1>4. ASSUME NEW t \in DOMAIN token, ExpireToken(t)
      PROVE  SessionsInv'
  <2> DEFINE old == [token[t] EXCEPT !.expired = TRUE]
  <2>1. t \in Tokens /\ token[t] \in TokenType
    BY <1>n, TokenFunction
  <2>2. old \in TokenType /\ old.family = token[t].family /\ old.period = token[t].period
        /\ old.crossed = token[t].crossed /\ old.live = token[t].live
    BY <2>1 DEF TokenType
  <2>3. token' = [token EXCEPT ![t] = old]
    BY <1>4 DEF ExpireToken
  <2> HIDE DEF old
  <2>4. SameTokens
    BY <1>n, <2>1, <2>2, <2>3, ExceptSeq DEF SameTokens, Tokens, TokensTyped
  <2> QED
    BY <1>4, <1>n, <2>4, RevokingStep DEF ExpireToken
<1>5. CASE UNCHANGED sessionVars
  <2>1. SameTokens
    BY <1>5, <1>n, SameOrRevoked DEF sessionVars
  <2> QED
    BY <1>5, <1>n, <2>1, RevokingStep DEF sessionVars
<1> QED
  BY <1>1, <1>2, <1>3, <1>4, <1>5, LogInStep, DropDeviceStep, RegisterStep, RotateStep, PresentStep,
     EndStep DEF SessionsNext

\* Sessions end when they must and have one token each, for any number of
\* requests, devices and tokens, unless a sign-out or a second rotation fell
\* between a request's read and its commit (rotate_refresh_token,
\* change_password).
THEOREM SessionsTheorem == SessionsSpec => []SessionRules
<1>1. SessionsInv => SessionRules
  <2> SUFFICES ASSUME SessionsInv
               PROVE  SessionRules
    OBVIOUS
  <2>1. DOMAIN token = Tokens
    BY TokenFunction DEF SessionsInv
  <2> QED
    BY <2>1 DEF SessionsInv, PeriodCurrent, Single, SessionRules, SessionsEnd, SingleUse
<1> QED
  BY <1>1, InitSessions, NextSessions, PTL DEF SessionsSpec

-----------------------------------------------------------------------------
(* The plan of a travel enquiry, position by position.                     *)

Corporate(answers) == IF Says(answers, "behalf", "corporate") THEN 1 ELSE 0
Travellers(answers) == Number(answers, "travellers")

\* k is the question at position i, when c companies are asked for and n applicants.
VisaQuestion(answers, c, n, i, k) ==
    /\ i = 1 => k = "destination"
    /\ i = 2 => k = "passport"
    /\ i = 3 => k = "residence"
    /\ i = 4 => k = "behalf"
    /\ i = 5 /\ c = 1 => k = "company"
    /\ i = 5 + c => k = "purpose"
    /\ i = 6 + c => k = "date_mode"
    /\ i = 7 + c => k = IF Says(answers, "date_mode", "tentative") THEN "month" ELSE "travel_date"
    /\ i = 8 + c => k = "travellers"
    /\ i \in 9 + c .. 8 + c + n => k = Applicant[i - 8 - c]
    /\ i = 9 + c + n => k = "contact_name"
    /\ i = 10 + c + n => k = "contact_email"
    /\ i = 11 + c + n => k = "contact_phone"
    /\ i = 12 + c + n => k = "notes"

Word == Question \cup ToSet(Applicant)

\* The bounds are numbers.
LEMMA FormBounds == MaxApplicant \in Nat \ {0} /\ MaxDay \in Nat \ {0}
BY EnquiryAssumption, LenProperties DEF MaxApplicant

\* The questions about the applicants, one by one.
LEMMA Applicants ==
    /\ Len(Applicant) = MaxApplicant
    /\ Applicant \in Seq(Word)
    /\ \A i \in 1 .. MaxApplicant : Applicant[i] \in ToSet(Applicant)
<1>1. Applicant \in Seq(ToSet(Applicant))
  BY EnquiryAssumption
<1>2. ToSet(Applicant) \subseteq Word
  BY DEF Word
<1> HIDE DEF Word
<1>3. Applicant \in [1 .. MaxApplicant -> ToSet(Applicant)]
  BY <1>1, LenProperties, ElementOfSeq DEF MaxApplicant
<1>4. Applicant \in [1 .. MaxApplicant -> Word]
  BY <1>2, <1>3
<1>5. Applicant \in Seq(Word)
  BY <1>4, FormBounds, SeqDef
<1> QED
  BY <1>3, <1>5 DEF MaxApplicant

\* Two parts of a plan.
LEMMA Joined ==
    ASSUME NEW s \in Seq(Word), NEW t \in Seq(Word)
    PROVE  /\ s \o t \in Seq(Word) /\ Len(s \o t) = Len(s) + Len(t)
           /\ \A i \in 1 .. Len(s) : (s \o t)[i] = s[i]
           /\ \A i \in Len(s) + 1 .. Len(s) + Len(t) : (s \o t)[i] = t[i - Len(s)]
<1>1. \A i \in 1 .. Len(s) + Len(t) : (s \o t)[i] = IF i <= Len(s) THEN s[i] ELSE t[i - Len(s)]
  BY ConcatProperties
<1>2. s \o t \in Seq(Word) /\ Len(s \o t) = Len(s) + Len(t)
  BY ConcatProperties
<1>3. Len(s) \in Nat /\ Len(t) \in Nat
  OBVIOUS
<1>4. /\ \A i \in 1 .. Len(s) : (s \o t)[i] = s[i]
      /\ \A i \in Len(s) + 1 .. Len(s) + Len(t) : (s \o t)[i] = t[i - Len(s)]
  BY <1>1, <1>3
<1> QED
  BY <1>2, <1>4

\* The plan of a visa enquiry, position by position.
LEMMA VisaPlan ==
    ASSUME NEW answers, Travellers(answers) \in 0 .. MaxApplicant
    PROVE  /\ Len(PlanVisa(answers)) = 12 + Corporate(answers) + Travellers(answers)
           /\ PlanVisa(answers) \in Seq(Word)
           /\ \A i \in 1 .. 12 + Corporate(answers) + Travellers(answers) :
                 VisaQuestion(answers, Corporate(answers), Travellers(answers), i, PlanVisa(answers)[i])
<1> DEFINE n == Travellers(answers)
           c == Corporate(answers)
           s1 == <<"destination", "passport", "residence", "behalf">>
           s2 == IF Says(answers, "behalf", "corporate") THEN <<"company">> ELSE <<>>
           date == IF Says(answers, "date_mode", "tentative") THEN "month" ELSE "travel_date"
           s3 == <<"purpose", "date_mode", date, "travellers">>
           s4 == SubSeq(Applicant, 1, n)
           s5 == <<"contact_name", "contact_email", "contact_phone", "notes">>
<1>1. s1 \in Seq(Word) /\ Len(s1) = 4
  BY DEF Word, Question
<1>2. s2 \in Seq(Word) /\ Len(s2) = c /\ (c = 1 => s2[1] = "company") /\ c \in {0, 1}
  <2>1. CASE Says(answers, "behalf", "corporate")
    BY <2>1 DEF Corporate, Word, Question
  <2>2. CASE ~Says(answers, "behalf", "corporate")
    BY <2>2, EmptySeq DEF Corporate
  <2> QED
    BY <2>1, <2>2
<1>3. s3 \in Seq(Word) /\ Len(s3) = 4
  BY DEF Word, Question
<1>4. s4 \in Seq(Word) /\ Len(s4) = n /\ \A i \in 1 .. n : s4[i] = Applicant[i]
  <2>1. Applicant \in Seq(Word) /\ Len(Applicant) = MaxApplicant
    BY Applicants
  <2>2. n \in Int /\ \A i \in 1 .. n : Applicant[i] \in Word
    BY <2>1, ElementOfSeq, FormBounds
  <2>3. \A i \in 1 .. n - 1 + 1 : s4[i] = Applicant[1 + i - 1]
    BY <2>2, SubSeqProperties
  <2>4. s4 \in Seq(Word) /\ Len(s4) = IF 1 <= n THEN n - 1 + 1 ELSE 0
    BY <2>2, SubSeqProperties
  <2> HIDE DEF n, s4
  <2> QED
    BY <2>2, <2>3, <2>4, FormBounds DEF n
<1>5. s5 \in Seq(Word) /\ Len(s5) = 4
  BY DEF Word, Question
<1>6. n \in Nat
  BY FormBounds
<1>7. PlanVisa(answers) = (((s1 \o s2) \o s3) \o s4) \o s5
  BY DEF PlanVisa, Travellers
<1>8. /\ s1[1] = "destination" /\ s1[2] = "passport" /\ s1[3] = "residence" /\ s1[4] = "behalf"
      /\ s3[1] = "purpose" /\ s3[2] = "date_mode" /\ s3[3] = date /\ s3[4] = "travellers"
      /\ date = IF Says(answers, "date_mode", "tentative") THEN "month" ELSE "travel_date"
      /\ s5[1] = "contact_name" /\ s5[2] = "contact_email" /\ s5[3] = "contact_phone" /\ s5[4] = "notes"
  OBVIOUS
<1> HIDE DEF s1, s2, s3, s4, s5, n, c, date
<1> DEFINE a == s1 \o s2
<1>9. /\ a \in Seq(Word) /\ Len(a) = 4 + c
      /\ \A i \in 1 .. 4 : a[i] = s1[i]
      /\ \A i \in 4 + 1 .. 4 + c : a[i] = s2[i - (4)]
  <2>1. s1 \in Seq(Word) /\ s2 \in Seq(Word) /\ Len(s1) = 4 /\ Len(s2) = c
    BY <1>1, <1>2
  <2>2. /\ a \in Seq(Word) /\ Len(a) = Len(s1) + Len(s2)
        /\ \A i \in 1 .. Len(s1) : a[i] = s1[i]
        /\ \A i \in Len(s1) + 1 .. Len(s1) + Len(s2) : a[i] = s2[i - Len(s1)]
    BY <2>1, Joined
  <2> HIDE DEF a
  <2> QED
    BY <1>2, <1>6, <2>1, <2>2
<1> HIDE DEF a
<1> DEFINE b == a \o s3
<1>11. /\ b \in Seq(Word) /\ Len(b) = 8 + c
       /\ \A i \in 1 .. 4 + c : b[i] = a[i]
       /\ \A i \in 4 + c + 1 .. 4 + c + 4 : b[i] = s3[i - (4 + c)]
  <2>1. a \in Seq(Word) /\ s3 \in Seq(Word) /\ Len(a) = 4 + c /\ Len(s3) = 4
    BY <1>3, <1>9
  <2>2. /\ b \in Seq(Word) /\ Len(b) = Len(a) + Len(s3)
        /\ \A i \in 1 .. Len(a) : b[i] = a[i]
        /\ \A i \in Len(a) + 1 .. Len(a) + Len(s3) : b[i] = s3[i - Len(a)]
    BY <2>1, Joined
  <2> HIDE DEF b
  <2> QED
    BY <1>2, <1>6, <2>1, <2>2
<1> HIDE DEF b
<1> DEFINE d == b \o s4
<1>12. /\ d \in Seq(Word) /\ Len(d) = 8 + c + n
       /\ \A i \in 1 .. 8 + c : d[i] = b[i]
       /\ \A i \in 8 + c + 1 .. 8 + c + n : d[i] = s4[i - (8 + c)]
  <2>1. b \in Seq(Word) /\ s4 \in Seq(Word) /\ Len(b) = 8 + c /\ Len(s4) = n
    BY <1>4, <1>11
  <2>2. /\ d \in Seq(Word) /\ Len(d) = Len(b) + Len(s4)
        /\ \A i \in 1 .. Len(b) : d[i] = b[i]
        /\ \A i \in Len(b) + 1 .. Len(b) + Len(s4) : d[i] = s4[i - Len(b)]
    BY <2>1, Joined
  <2> HIDE DEF d
  <2> QED
    BY <1>2, <1>6, <2>1, <2>2
<1> HIDE DEF d
<1> DEFINE e == d \o s5
<1>13. /\ e \in Seq(Word) /\ Len(e) = 12 + c + n
       /\ \A i \in 1 .. 8 + c + n : e[i] = d[i]
       /\ \A i \in 8 + c + n + 1 .. 8 + c + n + 4 : e[i] = s5[i - (8 + c + n)]
  <2>1. d \in Seq(Word) /\ s5 \in Seq(Word) /\ Len(d) = 8 + c + n /\ Len(s5) = 4
    BY <1>5, <1>12
  <2>2. /\ e \in Seq(Word) /\ Len(e) = Len(d) + Len(s5)
        /\ \A i \in 1 .. Len(d) : e[i] = d[i]
        /\ \A i \in Len(d) + 1 .. Len(d) + Len(s5) : e[i] = s5[i - Len(d)]
    BY <2>1, Joined
  <2> HIDE DEF e
  <2> QED
    BY <1>2, <1>6, <2>1, <2>2
<1> HIDE DEF e
<1>14. PlanVisa(answers) = e
  BY <1>7 DEF a, b, d, e
<1> HIDE DEF e
<1>15. ASSUME NEW i \in 1 .. 12 + c + n PROVE VisaQuestion(answers, c, n, i, e[i])
  <2>1. CASE i <= 4
    <3>1. e[i] = s1[i]
      BY <2>1, <1>2, <1>6, <1>9, <1>11, <1>12, <1>13
    <3> QED
      BY <2>1, <3>1, <1>2, <1>6, <1>8 DEF VisaQuestion
  <2>2. CASE i = 5 /\ c = 1
    <3>1. e[i] = s2[1]
      BY <2>2, <1>2, <1>6, <1>9, <1>11, <1>12, <1>13
    <3> QED
      BY <2>2, <3>1, <1>2, <1>6 DEF VisaQuestion
  <2>3. CASE i \in 5 + c .. 8 + c
    <3>1. i \in 1 .. 8 + c + n /\ i \in 1 .. 8 + c /\ i \in 4 + c + 1 .. 4 + c + 4
      BY <2>3, <1>2, <1>6
    <3>4. e[i] = d[i]
      BY <3>1, <1>13
    <3>5. d[i] = b[i]
      BY <3>1, <1>12
    <3>7. \A j \in 4 + c + 1 .. 4 + c + 4 : b[j] = s3[j - (4 + c)]
      BY <1>11, <1>2
    <3>8. i \in 4 + c + 1 .. 4 + c + 4
      BY <3>1
    <3>6. b[i] = s3[i - (4 + c)]
      BY <3>7, <3>8
    <3>3. e[i] = s3[i - (4 + c)]
      BY <3>4, <3>5, <3>6
    <3>2. i \in {5 + c, 6 + c, 7 + c, 8 + c}
      BY <2>3, <1>2
    <3> QED
      BY <3>3, <3>2, <1>2, <1>6, <1>8 DEF VisaQuestion
  <2>4. CASE i \in 9 + c .. 8 + c + n
    <3>3. i \in 1 .. 8 + c + n /\ i \in 8 + c + 1 .. 8 + c + n /\ i - (8 + c) \in 1 .. n
      BY <2>4, <1>2, <1>6
    <3>4. e[i] = d[i]
      BY <3>3, <1>13
    <3>7. \A j \in 8 + c + 1 .. 8 + c + n : d[j] = s4[j - (8 + c)]
      BY <1>12, <1>2, <1>6
    <3>8. i \in 8 + c + 1 .. 8 + c + n
      BY <3>3
    <3>5. d[i] = s4[i - (8 + c)]
      BY <3>7, <3>8
    <3>6. s4[i - (8 + c)] = Applicant[i - (8 + c)]
      BY <3>3, <1>4
    <3>1. e[i] = Applicant[i - (8 + c)]
      BY <3>4, <3>5, <3>6
    <3>2. i - (8 + c) = i - 8 - c
      BY <2>4, <1>2
    <3> QED
      BY <2>4, <3>1, <3>2, <1>2, <1>6 DEF VisaQuestion
  <2>5. CASE i \in 9 + c + n .. 12 + c + n
    <3>1. e[i] = s5[i - (8 + c + n)]
      BY <2>5, <1>2, <1>6, <1>13
    <3>2. i \in {9 + c + n, 10 + c + n, 11 + c + n, 12 + c + n}
      BY <2>5, <1>2, <1>6
    <3> QED
      BY <3>1, <3>2, <1>2, <1>6, <1>8 DEF VisaQuestion
  <2> QED
    BY <2>1, <2>2, <2>3, <2>4, <2>5, <1>2, <1>6
<1> QED
  BY <1>13, <1>14, <1>15 DEF c, n

\* The same position of two plans, where what decides it is the same.
LEMMA SameVisaQuestion ==
    ASSUME NEW x, NEW y, NEW c \in {0, 1}, NEW n \in Nat, NEW m \in Nat, NEW i \in 1 .. 12 + c + n,
           NEW k, NEW l, VisaQuestion(x, c, n, i, k), VisaQuestion(y, c, m, i, l),
           i <= 6 + c \/ (Says(x, "date_mode", "tentative") <=> Says(y, "date_mode", "tentative")),
           i <= 8 + c \/ n = m
    PROVE  k = l
<1>1. CASE i <= 4
  BY <1>1 DEF VisaQuestion
<1>2. CASE i = 5 /\ c = 1
  BY <1>2 DEF VisaQuestion
<1>3. CASE i \in {5 + c, 6 + c, 8 + c}
  BY <1>3 DEF VisaQuestion
<1>4. CASE i = 7 + c
  BY <1>4 DEF VisaQuestion
<1>5. CASE i > 8 + c
  <2>1. n = m
    BY <1>5
  <2>2. CASE i \in 9 + c .. 8 + c + n
    BY <2>1, <2>2 DEF VisaQuestion
  <2>3. CASE i > 8 + c + n
    BY <2>1, <2>3 DEF VisaQuestion
  <2> QED
    BY <1>5, <2>2, <2>3
<1> QED
  BY <1>1, <1>2, <1>3, <1>4, <1>5

\* A question about an applicant is none of the others.
LEMMA ApplicantsApart == \A i \in 1 .. MaxApplicant : Applicant[i] \notin Question
BY Applicants, EnquiryAssumption

\* The questions that decide the plan stand where they decide what follows.
LEMMA Deciding ==
    ASSUME NEW answers, NEW c \in {0, 1}, NEW n \in 0 .. MaxApplicant, NEW i \in 1 .. 12 + c + n,
           NEW k, VisaQuestion(answers, c, n, i, k)
    PROVE  /\ k = "behalf" => i = 4
           /\ k = "date_mode" => i = 6 + c
           /\ k = "travellers" => i = 8 + c
           /\ k \notin {"trip_type", "depart_date", "return_date"}
<1>1. CASE i \in 9 + c .. 8 + c + n
  <2>1. i - 8 - c \in 1 .. MaxApplicant
    BY <1>1, FormBounds
  <2>2. k = Applicant[i - 8 - c]
    BY <1>1 DEF VisaQuestion
  <2> QED
    BY <2>1, <2>2, ApplicantsApart DEF Question
<1>2. CASE i < 9 + c
  <2>1. i \in {1, 2, 3, 4} \/ (i = 5 /\ c = 1) \/ i \in {5 + c, 6 + c, 7 + c, 8 + c}
    BY <1>2
  <2> QED
    BY <2>1 DEF VisaQuestion
<1>3. CASE i > 8 + c + n
  <2>1. i \in {9 + c + n, 10 + c + n, 11 + c + n, 12 + c + n}
    BY <1>3, FormBounds
  <2> QED
    BY <2>1, FormBounds DEF VisaQuestion
<1> QED
  BY <1>1, <1>2, <1>3, FormBounds

\* An answer changes the plan only behind its question.
Filled(answers, key, value) ==
    [k \in DOMAIN answers \cup {key} |-> IF k = key THEN value ELSE answers[k]]

\* An answer changes no other.
LEMMA FilledSays ==
    ASSUME NEW answers, NEW key, NEW value, NEW k, NEW v, k # key
    PROVE  /\ Says(Filled(answers, key, value), k, v) <=> Says(answers, k, v)
           /\ Number(Filled(answers, key, value), k) = Number(answers, k)
BY DEF Filled, Says, Number

\* An answer changes the plan of a visa enquiry only behind its question.
LEMMA VisaPrefix ==
    ASSUME NEW answers, Travellers(answers) \in 0 .. MaxApplicant,
           NEW index \in 1 .. Len(PlanVisa(answers)), NEW value,
           value \in Accepts(PlanVisa(answers)[index], answers)
    PROVE  LET new == Filled(answers, PlanVisa(answers)[index], value) IN
           /\ Travellers(new) \in 0 .. MaxApplicant
           /\ \A i \in 1 .. index : PlanVisa(new)[i] = PlanVisa(answers)[i]
           /\ index <= Len(PlanVisa(new))
<1> DEFINE key == PlanVisa(answers)[index]
           new == Filled(answers, key, value)
           c == Corporate(answers)
           n == Travellers(answers)
           d == Corporate(new)
           m == Travellers(new)
<1>1. c \in {0, 1} /\ d \in {0, 1} /\ n \in 0 .. MaxApplicant
  BY DEF Corporate
<1>2. /\ Len(PlanVisa(answers)) = 12 + c + n
      /\ \A i \in 1 .. 12 + c + n : VisaQuestion(answers, c, n, i, PlanVisa(answers)[i])
  BY VisaPlan
<1>3. index \in 1 .. 12 + c + n /\ VisaQuestion(answers, c, n, index, key)
  BY <1>2
<1>4. /\ key = "behalf" => index = 4
      /\ key = "date_mode" => index = 6 + c
      /\ key = "travellers" => index = 8 + c
      /\ key \notin {"trip_type", "depart_date", "return_date"}
  <2> HIDE DEF key, c, n
  <2> QED
    BY <1>1, <1>3, Deciding
<1>5. key = "travellers" => value \in 1 .. MaxApplicant
  BY DEF Accepts
<1>6. m \in 0 .. MaxApplicant
  <2>1. CASE key = "travellers"
    BY <2>1, <1>5, FormBounds DEF Travellers, Number, Filled
  <2>2. CASE key # "travellers"
    BY <2>2, <1>1, FilledSays DEF Travellers
  <2> QED
    BY <2>1, <2>2
<1>7. /\ Len(PlanVisa(new)) = 12 + d + m
      /\ \A i \in 1 .. 12 + d + m : VisaQuestion(new, d, m, i, PlanVisa(new)[i])
  <2> HIDE DEF new
  <2> QED
    BY <1>6, VisaPlan
<1>8. key # "behalf" => d = c
  BY FilledSays DEF Corporate
<1>9. key # "date_mode" => (Says(answers, "date_mode", "tentative") <=> Says(new, "date_mode", "tentative"))
  BY FilledSays
<1>10. key # "travellers" => m = n
  BY FilledSays DEF Travellers
<1> DEFINE p == PlanVisa(answers)
           q == PlanVisa(new)
<1>11. index <= 12 + d + m
  <2> HIDE DEF key, c, d, n, m
  <2>1. CASE key = "behalf"
    BY <2>1, <1>1, <1>4, <1>6, FormBounds
  <2>2. CASE key = "travellers"
    BY <2>2, <1>1, <1>4, <1>6, <1>8, FormBounds
  <2>3. CASE key \notin {"behalf", "travellers"}
    BY <2>3, <1>1, <1>3, <1>6, <1>8, <1>10, FormBounds
  <2> QED
    BY <2>1, <2>2, <2>3
<1>12. ASSUME NEW i \in 1 .. index PROVE q[i] = p[i]
  <2>1. /\ i \in 1 .. 12 + c + n /\ i \in 1 .. 12 + d + m
        /\ c \in {0, 1} /\ d \in {0, 1} /\ n \in Nat /\ m \in Nat
    <3> HIDE DEF key, c, d, n, m, p, q
    <3> QED
      BY <1>1, <1>3, <1>6, <1>11, FormBounds
  <2>2. VisaQuestion(answers, c, n, i, p[i]) /\ VisaQuestion(new, d, m, i, q[i])
    <3> HIDE DEF key, c, d, n, m, new
    <3> QED
      BY <2>1, <1>2, <1>7
  <2> HIDE DEF key, c, d, n, m, p, q, new
  <2>3. CASE key = "behalf"
    <3>1. i \in {1, 2, 3, 4}
      BY <2>3, <1>4
    <3> QED
      BY <3>1, <2>2 DEF VisaQuestion
  <2>4. CASE key # "behalf"
    <3>1. d = c
      BY <2>4, <1>8
    <3>2. i <= 6 + c \/ (Says(answers, "date_mode", "tentative") <=> Says(new, "date_mode", "tentative"))
      BY <2>1, <1>3, <1>4, <1>9
    <3>3. i <= 8 + c \/ n = m
      BY <2>1, <1>3, <1>4, <1>10
    <3>4. VisaQuestion(new, c, m, i, q[i])
      BY <2>2, <3>1
    <3> QED
      BY <2>1, <2>2, <3>2, <3>3, <3>4, SameVisaQuestion
  <2> QED
    BY <2>3, <2>4
<1>13. index <= Len(PlanVisa(new))
  BY <1>7, <1>11
<1>14. Travellers(new) \in 0 .. MaxApplicant
  BY <1>6
<1>15. \A i \in 1 .. index : PlanVisa(new)[i] = PlanVisa(answers)[i]
  BY <1>12
<1> QED
  <2> HIDE DEF new
  <2>1. /\ Travellers(new) \in 0 .. MaxApplicant
        /\ \A i \in 1 .. index : PlanVisa(new)[i] = PlanVisa(answers)[i]
        /\ index <= Len(PlanVisa(new))
    BY <1>13, <1>14, <1>15
  <2> QED
    BY <2>1 DEF new

-----------------------------------------------------------------------------
(* The other plan has nothing to count.                                    *)

TicketPlan(returns) ==
    IF returns
    THEN <<"trip_type", "from", "to", "depart_date", "return_date",
           "cabin", "passengers", "contact_name", "contact_email">>
    ELSE <<"trip_type", "from", "to", "depart_date",
           "cabin", "passengers", "contact_name", "contact_email">>

\* The plan of a ticket enquiry depends on the way back alone.
LEMMA Ticketing ==
    \A answers : PlanTicketing(answers) = TicketPlan(Says(answers, "trip_type", "round_trip"))
<1> SUFFICES ASSUME NEW answers
             PROVE PlanTicketing(answers) = TicketPlan(Says(answers, "trip_type", "round_trip"))
  OBVIOUS
<1> DEFINE r == Says(answers, "trip_type", "round_trip")
           s == <<"trip_type", "from", "to", "depart_date">>
           t == IF r THEN <<"return_date">> ELSE <<>>
           u == <<"cabin", "passengers", "contact_name", "contact_email">>
           p == TicketPlan(r)
<1>1. /\ s \in Seq(Word) /\ Len(s) = 4 /\ u \in Seq(Word) /\ Len(u) = 4
      /\ s[1] = "trip_type" /\ s[2] = "from" /\ s[3] = "to" /\ s[4] = "depart_date"
      /\ u[1] = "cabin" /\ u[2] = "passengers" /\ u[3] = "contact_name" /\ u[4] = "contact_email"
  BY DEF Word, Question
<1>2. /\ r => t \in Seq(Word) /\ Len(t) = 1 /\ t[1] = "return_date"
      /\ ~r => t \in Seq(Word) /\ Len(t) = 0
  <2>1. ASSUME r PROVE t \in Seq(Word) /\ Len(t) = 1 /\ t[1] = "return_date"
    BY <2>1 DEF Word, Question
  <2>2. ASSUME ~r PROVE t \in Seq(Word) /\ Len(t) = 0
    BY <2>2, EmptySeq
  <2> QED
    BY <2>1, <2>2
<1>3. /\ r => /\ p \in Seq(Word) /\ Len(p) = 9 /\ p[5] = "return_date"
              /\ p[6] = "cabin" /\ p[7] = "passengers" /\ p[8] = "contact_name" /\ p[9] = "contact_email"
      /\ ~r => /\ p \in Seq(Word) /\ Len(p) = 8
               /\ p[5] = "cabin" /\ p[6] = "passengers" /\ p[7] = "contact_name" /\ p[8] = "contact_email"
      /\ p[1] = "trip_type" /\ p[2] = "from" /\ p[3] = "to" /\ p[4] = "depart_date"
  <2>1. CASE r
    BY <2>1 DEF TicketPlan, Word, Question
  <2>2. CASE ~r
    BY <2>2 DEF TicketPlan, Word, Question
  <2> QED
    BY <2>1, <2>2
<1>4. PlanTicketing(answers) = (s \o t) \o u
  BY DEF PlanTicketing
<1> HIDE DEF s, t, u, p, r
<1> DEFINE a == s \o t
<1>5. t \in Seq(Word) /\ s \in Seq(Word) /\ u \in Seq(Word)
  BY <1>1, <1>2
<1>6. /\ a \in Seq(Word) /\ Len(a) = Len(s) + Len(t)
      /\ \A i \in 1 .. Len(s) : a[i] = s[i]
      /\ \A i \in Len(s) + 1 .. Len(s) + Len(t) : a[i] = t[i - Len(s)]
  BY <1>5, Joined
<1> HIDE DEF a
<1> DEFINE b == a \o u
<1>7. /\ b \in Seq(Word) /\ Len(b) = Len(a) + Len(u)
      /\ \A i \in 1 .. Len(a) : b[i] = a[i]
      /\ \A i \in Len(a) + 1 .. Len(a) + Len(u) : b[i] = u[i - Len(a)]
  BY <1>5, <1>6, Joined
<1>8. PlanTicketing(answers) = b
  BY <1>4 DEF a
<1> HIDE DEF b
<1>9. b = p
  <2>1. CASE r
    <3>1. /\ Len(a) = 5 /\ \A i \in 1 .. 4 : a[i] = s[i]
          /\ \A i \in 5 .. 5 : a[i] = t[i - 4]
      <4>1. Len(s) = 4 /\ Len(t) = 1
        BY <2>1, <1>1, <1>2
      <4>2. \A i \in 4 + 1 .. 4 + 1 : a[i] = t[i - 4]
        BY <4>1, <1>6
      <4>3. Len(a) = 5 /\ \A i \in 1 .. 4 : a[i] = s[i]
        BY <4>1, <1>6
      <4> QED
        BY <4>2, <4>3
    <3>2. /\ Len(b) = 9 /\ \A i \in 1 .. 5 : b[i] = a[i]
          /\ \A i \in 6 .. 9 : b[i] = u[i - 5]
      BY <3>1, <1>1, <1>7
    <3>3. b[1] = s[1] /\ b[2] = s[2] /\ b[3] = s[3] /\ b[4] = s[4] /\ b[5] = t[1]
      BY <3>1, <3>2
    <3>4. b[6] = u[1] /\ b[7] = u[2] /\ b[8] = u[3] /\ b[9] = u[4]
      BY <3>2
    <3>5. \A i \in 1 .. 9 : b[i] = p[i]
      <4>1. ASSUME NEW i \in 1 .. 9 PROVE b[i] = p[i]
        <5>1. i \in {1, 2, 3, 4, 5, 6, 7, 8, 9}
          OBVIOUS
        <5> QED
          BY <5>1, <2>1, <3>3, <3>4, <1>1, <1>2, <1>3
      <4> QED
        BY <4>1
    <3>6. b \in Seq(Word) /\ p \in Seq(Word) /\ Len(p) = 9
      BY <2>1, <1>3, <1>7
    <3> QED
      BY <3>2, <3>5, <3>6, SeqEqual
  <2>2. CASE ~r
    <3>1. Len(a) = 4 /\ \A i \in 1 .. 4 : a[i] = s[i]
      BY <2>2, <1>1, <1>2, <1>6
    <3>2. /\ Len(b) = 8 /\ \A i \in 1 .. 4 : b[i] = a[i]
          /\ \A i \in 5 .. 8 : b[i] = u[i - 4]
      BY <3>1, <1>1, <1>7
    <3>3. b[1] = s[1] /\ b[2] = s[2] /\ b[3] = s[3] /\ b[4] = s[4]
      BY <3>1, <3>2
    <3>4. b[5] = u[1] /\ b[6] = u[2] /\ b[7] = u[3] /\ b[8] = u[4]
      BY <3>2
    <3>5. \A i \in 1 .. 8 : b[i] = p[i]
      <4>1. ASSUME NEW i \in 1 .. 8 PROVE b[i] = p[i]
        <5>1. i \in {1, 2, 3, 4, 5, 6, 7, 8}
          OBVIOUS
        <5> QED
          BY <5>1, <2>2, <3>3, <3>4, <1>1, <1>3
      <4> QED
        BY <4>1
    <3>6. b \in Seq(Word) /\ p \in Seq(Word) /\ Len(p) = 8
      BY <2>2, <1>3, <1>7
    <3> QED
      BY <3>2, <3>5, <3>6, SeqEqual
  <2> QED
    BY <2>1, <2>2
<1> QED
  BY <1>8, <1>9 DEF p, r

\* An answer changes the plan of a ticket enquiry only behind its question.
LEMMA TicketPrefix ==
    ASSUME NEW answers, NEW index \in 1 .. Len(PlanTicketing(answers)), NEW value
    PROVE  LET new == Filled(answers, PlanTicketing(answers)[index], value) IN
           /\ \A i \in 1 .. index : PlanTicketing(new)[i] = PlanTicketing(answers)[i]
           /\ index <= Len(PlanTicketing(new))
<1> DEFINE key == PlanTicketing(answers)[index]
           new == Filled(answers, key, value)
           x == Says(answers, "trip_type", "round_trip")
           y == Says(new, "trip_type", "round_trip")
<1>1. PlanTicketing(answers) = TicketPlan(x) /\ PlanTicketing(new) = TicketPlan(y)
  BY Ticketing
<1>2. x \in BOOLEAN /\ y \in BOOLEAN
  BY DEF Says
<1>3. key # "trip_type" => x = y
  <2>1. key # "trip_type" => (y <=> x)
    <3> HIDE DEF key
    <3> QED
      BY FilledSays
  <2> QED
    BY <2>1, <1>2
<1>4. key = TicketPlan(x)[index] /\ index \in 1 .. Len(TicketPlan(x))
  BY <1>1
<1> HIDE DEF key, new, x, y
<1>5. key = "trip_type" => index = 1
  BY <1>2, <1>4 DEF TicketPlan
<1>6. TicketPlan(TRUE)[1] = TicketPlan(FALSE)[1] /\ Len(TicketPlan(y)) \in {8, 9}
  BY <1>2 DEF TicketPlan
<1>7. \A i \in 1 .. index : TicketPlan(y)[i] = TicketPlan(x)[i]
  <2>1. CASE key = "trip_type"
    <3>1. index = 1
      BY <2>1, <1>5
    <3>2. TicketPlan(y)[1] = TicketPlan(x)[1]
      BY <1>2, <1>6
    <3> QED
      BY <3>1, <3>2
  <2>2. CASE key # "trip_type"
    BY <2>2, <1>3
  <2> QED
    BY <2>1, <2>2
<1>8. index <= Len(TicketPlan(y))
  <2>1. CASE key = "trip_type"
    BY <2>1, <1>5, <1>6
  <2>2. CASE key # "trip_type"
    BY <2>2, <1>3, <1>4
  <2> QED
    BY <2>1, <2>2
<1> QED
  BY <1>1, <1>7, <1>8 DEF new, key

\* The dates stand where the plan of a ticket enquiry has them.
LEMMA TicketQuestions ==
    ASSUME NEW returns \in BOOLEAN
    PROVE  /\ Len(TicketPlan(returns)) \in {8, 9}
           /\ \A i \in 1 .. Len(TicketPlan(returns)) :
                 /\ TicketPlan(returns)[i] \in {"trip_type", "from", "to", "depart_date", "return_date",
                        "cabin", "passengers", "contact_name", "contact_email"}
                 /\ TicketPlan(returns)[i] = "depart_date" => i = 4
                 /\ TicketPlan(returns)[i] = "return_date" => i = 5
BY DEF TicketPlan

-----------------------------------------------------------------------------
(* The form.                                                               *)

\* Every question before position m has an answer that is accepted with the others.
Answered(service, answers, m) == \A i \in 1 .. m :
    LET key == Plan(service, answers)[i] IN
    key \in DOMAIN answers /\ answers[key] \in Accepts(key, answers)

FormInv ==
    /\ form = [service |-> form.service, phase |-> form.phase,
               index |-> form.index, answers |-> form.answers]
    /\ form.service \in {"none", "visa", "ticketing"}
    /\ form.phase \in {"collect", "review", "submitted"}
    /\ form.service = "none" => form = NoForm
    /\ DOMAIN form.answers \subseteq Word
    /\ form.index \in Nat
    /\ Travellers(form.answers) \in 0 .. MaxApplicant
    /\ form.phase = "collect" =>
          /\ form.index \in 1 .. Len(Plan(form.service, form.answers))
          /\ Answered(form.service, form.answers, form.index - 1)
    /\ form.phase = "review" =>
          Answered(form.service, form.answers, Len(Plan(form.service, form.answers)))

\* What the two plans share.
LEMMA PlanFacts ==
    ASSUME NEW service \in {"none", "visa", "ticketing"}, NEW answers,
           Travellers(answers) \in 0 .. MaxApplicant
    PROVE  /\ Len(Plan(service, answers)) \in Nat \ {0}
           /\ DOMAIN Plan(service, answers) = 1 .. Len(Plan(service, answers))
           /\ \A i \in 1 .. Len(Plan(service, answers)) : Plan(service, answers)[i] \in Word
<1>1. CASE service = "visa"
  <2>1. /\ Len(PlanVisa(answers)) = 12 + Corporate(answers) + Travellers(answers)
        /\ PlanVisa(answers) \in Seq(Word)
        /\ \A i \in 1 .. 12 + Corporate(answers) + Travellers(answers) :
              VisaQuestion(answers, Corporate(answers), Travellers(answers), i, PlanVisa(answers)[i])
    BY VisaPlan
  <2>2. Corporate(answers) \in {0, 1}
    BY DEF Corporate
  <2> DEFINE p == PlanVisa(answers)
             c == Corporate(answers)
             n == Travellers(answers)
  <2> HIDE DEF p, c, n
  <2>3. Len(p) = 12 + c + n /\ p \in Seq(Word) /\ c \in {0, 1} /\ n \in 0 .. MaxApplicant
        /\ \A i \in 1 .. 12 + c + n : VisaQuestion(answers, c, n, i, p[i])
    BY <2>1, <2>2 DEF p, c, n
  <2>4. ASSUME NEW i \in 1 .. 12 + c + n PROVE p[i] \in Word
    <3>1. VisaQuestion(answers, c, n, i, p[i])
      BY <2>3
    <3>2. CASE i \in 9 + c .. 8 + c + n
      <4>1. i - 8 - c \in 1 .. MaxApplicant /\ p[i] = Applicant[i - 8 - c]
        BY <3>1, <3>2, <2>3, FormBounds DEF VisaQuestion
      <4>2. Len(Applicant) = MaxApplicant /\ Applicant \in Seq(Word)
        BY Applicants
      <4>3. p[i] \in ToSet(Applicant)
        BY <4>1, <4>2, FormBounds DEF ToSet
      <4> QED
        BY <4>3 DEF Word, Question
    <3>3. CASE i < 9 + c
      <4>1. i \in {1, 2, 3, 4} \/ (i = 5 /\ c = 1) \/ i \in {5 + c, 6 + c, 7 + c, 8 + c}
        BY <3>3, <2>3
      <4> QED
        BY <4>1, <3>1 DEF VisaQuestion, Word, Question
    <3>4. CASE i > 8 + c + n
      <4>1. i \in {9 + c + n, 10 + c + n, 11 + c + n, 12 + c + n}
        BY <3>4, <2>3, FormBounds
      <4> QED
        BY <4>1, <3>1 DEF VisaQuestion, Word, Question
    <3> QED
      BY <3>2, <3>3, <3>4, <2>3, FormBounds
  <2> QED
    BY <1>1, <2>3, <2>4, FormBounds DEF Plan, p
<1>2. CASE service # "visa"
  <2>1. PlanTicketing(answers) = TicketPlan(Says(answers, "trip_type", "round_trip"))
    BY Ticketing
  <2>2. Says(answers, "trip_type", "round_trip") \in BOOLEAN
    BY DEF Says
  <2>3. \A r \in BOOLEAN : TicketPlan(r) \in Seq(Word) /\ Len(TicketPlan(r)) \in {8, 9}
    <3>1. TicketPlan(TRUE) \in Seq(Word) /\ Len(TicketPlan(TRUE)) = 9
      BY DEF TicketPlan, Word, Question
    <3>2. TicketPlan(FALSE) \in Seq(Word) /\ Len(TicketPlan(FALSE)) = 8
      BY DEF TicketPlan, Word, Question
    <3> QED
      BY <3>1, <3>2
  <2>4. \A r \in BOOLEAN : \A i \in 1 .. Len(TicketPlan(r)) : TicketPlan(r)[i] \in Word
    BY TicketQuestions DEF Word, Question
  <2> DEFINE p == PlanTicketing(answers)
  <2>5. p \in Seq(Word) /\ Len(p) \in {8, 9} /\ \A i \in 1 .. Len(p) : p[i] \in Word
    <3> HIDE DEF p
    <3>1. PICK r \in BOOLEAN : p = TicketPlan(r)
      BY <2>1, <2>2 DEF p
    <3> QED
      BY <3>1, <2>3, <2>4
  <2>6. Plan(service, answers) = p
    BY <1>2 DEF Plan
  <2> HIDE DEF p
  <2> QED
    <3>1. DOMAIN p = 1 .. Len(p)
      BY <2>5, LenProperties
    <3>2. Len(p) \in Nat \ {0}
      <4>1. Len(p) \in {8, 9}
        BY <2>5
      <4>2. {8, 9} \subseteq Nat \ {0}
        OBVIOUS
      <4> QED
        BY <4>1, <4>2
    <3> QED
      BY <2>5, <2>6, <3>1, <3>2
<1> QED
  BY <1>1, <1>2

\* What an answer changes of the plan lies behind its question, and what it changes
\* of the accepted answers belongs to a question behind it.
LEMMA GivenPrefix ==
    ASSUME NEW service \in {"visa", "ticketing"}, NEW answers, Travellers(answers) \in 0 .. MaxApplicant,
           NEW index \in 1 .. Len(Plan(service, answers)), NEW value,
           value \in Accepts(Plan(service, answers)[index], answers)
    PROVE  LET key == Plan(service, answers)[index]
               new == Filled(answers, key, value) IN
           /\ Travellers(new) \in 0 .. MaxApplicant
           /\ \A i \in 1 .. index : Plan(service, new)[i] = Plan(service, answers)[i]
           /\ index <= Len(Plan(service, new))
           /\ key = "depart_date" => \A i \in 1 .. index : Plan(service, answers)[i] # "return_date"
<1> DEFINE key == Plan(service, answers)[index]
           new == Filled(answers, key, value)
<1>1. CASE service = "visa"
  <2>1. Plan(service, answers) = PlanVisa(answers) /\ Plan(service, new) = PlanVisa(new)
    BY <1>1 DEF Plan
  <2>2. /\ Travellers(new) \in 0 .. MaxApplicant
        /\ \A i \in 1 .. index : PlanVisa(new)[i] = PlanVisa(answers)[i]
        /\ index <= Len(PlanVisa(new))
    <3>1. /\ index \in 1 .. Len(PlanVisa(answers))
          /\ value \in Accepts(PlanVisa(answers)[index], answers)
          /\ new = Filled(answers, PlanVisa(answers)[index], value)
      BY <2>1
    <3> HIDE DEF new
    <3> QED
      BY <3>1, VisaPrefix
  <2>3. key # "depart_date"
    <3>1. Corporate(answers) \in {0, 1}
      BY DEF Corporate
    <3>2. /\ Len(PlanVisa(answers)) = 12 + Corporate(answers) + Travellers(answers)
          /\ \A i \in 1 .. 12 + Corporate(answers) + Travellers(answers) :
                VisaQuestion(answers, Corporate(answers), Travellers(answers), i, PlanVisa(answers)[i])
      BY VisaPlan
    <3>3. /\ index \in 1 .. 12 + Corporate(answers) + Travellers(answers)
          /\ VisaQuestion(answers, Corporate(answers), Travellers(answers), index, key)
      BY <2>1, <3>2
    <3> HIDE DEF key
    <3> QED
      BY <3>1, <3>3, Deciding
  <2> QED
    BY <2>1, <2>2, <2>3
<1>2. CASE service = "ticketing"
  <2>1. Plan(service, answers) = PlanTicketing(answers) /\ Plan(service, new) = PlanTicketing(new)
    BY <1>2 DEF Plan
  <2>2. /\ \A i \in 1 .. index : PlanTicketing(new)[i] = PlanTicketing(answers)[i]
        /\ index <= Len(PlanTicketing(new))
    <3>1. /\ index \in 1 .. Len(PlanTicketing(answers))
          /\ new = Filled(answers, PlanTicketing(answers)[index], value)
      BY <2>1
    <3> HIDE DEF new
    <3> QED
      BY <3>1, TicketPrefix
  <2>3. PICK r \in BOOLEAN : PlanTicketing(answers) = TicketPlan(r)
    BY Ticketing DEF Says
  <2>4. key # "travellers"
    BY <2>1, <2>3, TicketQuestions
  <2>5. Travellers(new) = Travellers(answers)
    <3> HIDE DEF key
    <3> QED
      BY <2>4, FilledSays DEF Travellers
  <2>6. ASSUME key = "depart_date", NEW i \in 1 .. index PROVE PlanTicketing(answers)[i] # "return_date"
    <3>1. index = 4 /\ i \in 1 .. Len(TicketPlan(r))
      BY <2>1, <2>3, <2>6, TicketQuestions
    <3> QED
      BY <2>3, <3>1, TicketQuestions
  <2> QED
    BY <2>1, <2>2, <2>5, <2>6
<1> QED
  BY <1>1, <1>2

\* A question keeps what it accepts unless the departure moves.
LEMMA SameAccepts ==
    ASSUME NEW answers, NEW key, NEW value, NEW k, k = "return_date" => key # "depart_date"
    PROVE  Accepts(k, Filled(answers, key, value)) = Accepts(k, answers)
<1>1. CASE k = "return_date"
  <2>1. Number(Filled(answers, key, value), "depart_date") = Number(answers, "depart_date")
    BY <1>1, FilledSays
  <2> QED
    BY <1>1, <2>1 DEF Accepts
<1>2. CASE k # "return_date"
  BY <1>2 DEF Accepts
<1> QED
  BY <1>1, <1>2

\* An answer given.
LEMMA GiveForm == FormInv /\ Give => FormInv'
<1> SUFFICES ASSUME FormInv, Give PROVE FormInv'
  OBVIOUS
<1> DEFINE service == form.service
           answers == form.answers
           index == form.index
           key == Plan(service, answers)[index]
<1>1. service \in {"visa", "ticketing"} /\ form.phase = "collect"
  BY DEF FormInv, Give
<1>2. PICK value \in Accepts(key, answers) :
         form' = [form EXCEPT !.answers = Filled(answers, key, value), !.index = @ + 1,
                    !.phase = IF index >= Len(Plan(service, Filled(answers, key, value)))
                              THEN "review" ELSE @]
  BY DEF Give, Filled
<1> DEFINE new == Filled(answers, key, value)
           finished == index >= Len(Plan(service, new))
<1>3. /\ index \in 1 .. Len(Plan(service, answers)) /\ Answered(service, answers, index - 1)
      /\ Travellers(answers) \in 0 .. MaxApplicant /\ DOMAIN answers \subseteq Word
  BY <1>1 DEF FormInv
<1>4. /\ Travellers(new) \in 0 .. MaxApplicant
      /\ \A i \in 1 .. index : Plan(service, new)[i] = Plan(service, answers)[i]
      /\ index <= Len(Plan(service, new))
      /\ key = "depart_date" => \A i \in 1 .. index : Plan(service, answers)[i] # "return_date"
  <2> HIDE DEF service, answers, index
  <2> QED
    BY <1>1, <1>2, <1>3, GivenPrefix
<1>5. key \in Word
  <2> HIDE DEF service, answers, index
  <2> QED
    BY <1>1, <1>3, PlanFacts
<1>6. /\ form'.service = service /\ form'.answers = new /\ form'.index = index + 1
      /\ form'.phase = IF finished THEN "review" ELSE "collect"
      /\ form' = [service |-> form'.service, phase |-> form'.phase,
                  index |-> form'.index, answers |-> form'.answers]
  BY <1>1, <1>2 DEF FormInv
<1>7. DOMAIN new \subseteq Word
  BY <1>3, <1>5 DEF Filled
<1>8. Answered(service, new, index)
  <2> SUFFICES ASSUME NEW i \in 1 .. index
               PROVE  Plan(service, new)[i] \in DOMAIN new
                      /\ new[Plan(service, new)[i]] \in Accepts(Plan(service, new)[i], new)
    BY DEF Answered
  <2> DEFINE k == Plan(service, new)[i]
  <2>1. k = Plan(service, answers)[i]
    BY <1>4
  <2>2. Accepts(k, new) = Accepts(k, answers)
    <3>1. k = "return_date" => key # "depart_date"
      BY <1>4, <2>1
    <3> HIDE DEF k, key, answers
    <3> QED
      BY <3>1, SameAccepts
  <2>3. CASE k = key
    BY <2>2, <2>3, <1>2 DEF Filled
  <2>4. CASE k # key
    <3>1. i # index
      BY <2>1, <2>4
    <3>2. i \in 1 .. index - 1
      BY <3>1, <1>3
    <3>3. k \in DOMAIN answers /\ answers[k] \in Accepts(k, answers)
      BY <3>2, <1>3, <2>1 DEF Answered
    <3>4. k \in DOMAIN new /\ new[k] = answers[k]
      BY <3>3, <2>4 DEF Filled
    <3> QED
      BY <3>3, <3>4, <2>2
  <2> QED
    BY <2>3, <2>4
<1>9. Len(Plan(service, new)) \in Nat
  <2> HIDE DEF service, new
  <2> QED
    BY <1>1, <1>4, PlanFacts
<1>10. index \in Nat /\ index + 1 - 1 = index
  BY <1>3
<1> HIDE DEF new, service, answers, index, key
<1>11. CASE finished
  <2>1. Answered(service, new, Len(Plan(service, new)))
    BY <1>8, <1>9, <1>10, <1>11 DEF Answered
  <2>2. form'.phase = "review"
    BY <1>6, <1>11
  <2> QED
    BY <1>1, <1>4, <1>6, <1>7, <1>10, <2>1, <2>2 DEF FormInv
<1>12. CASE ~finished
  <2>1. index + 1 \in 1 .. Len(Plan(service, new))
    BY <1>9, <1>10, <1>12
  <2>2. form'.phase = "collect"
    BY <1>6, <1>12
  <2>3. Answered(service, new, index + 1 - 1)
    BY <1>8, <1>10
  <2> QED
    BY <1>1, <1>4, <1>6, <1>7, <1>10, <2>1, <2>2, <2>3 DEF FormInv
<1> QED
  BY <1>11, <1>12

\* No form was begun.
LEMMA NoFormInv == FormInit => FormInv
<1> SUFFICES ASSUME FormInit PROVE FormInv
  OBVIOUS
<1>1. form = [service |-> "none", phase |-> "collect", index |-> 1, answers |-> <<>>]
  BY DEF NoForm, FormInit
<1>2. DOMAIN form.answers = {}
  BY <1>1
<1>3. Travellers(form.answers) = 0
  BY <1>2 DEF Travellers, Number
<1>4. Len(Plan(form.service, form.answers)) \in Nat \ {0}
  BY <1>1, <1>3, PlanFacts, FormBounds
<1>5. Answered(form.service, form.answers, form.index - 1)
  BY <1>1 DEF Answered
<1> QED
  BY <1>1, <1>2, <1>3, <1>4, <1>5, FormBounds DEF FormInv, NoForm

\* Every step of the form.
LEMMA StepForm == FormInv /\ [FormNext]_form => FormInv'
<1> SUFFICES ASSUME FormInv, [FormNext]_form PROVE FormInv'
  OBVIOUS
<1> DEFINE len == Len(Plan(form.service, form.answers))
<1>1. form.service \in {"none", "visa", "ticketing"} /\ Travellers(form.answers) \in 0 .. MaxApplicant
  BY DEF FormInv
<1>2. len \in Nat \ {0}
  BY <1>1, PlanFacts
<1>3. ASSUME StartForm PROVE FormInv'
  <2>1. PICK s \in {"visa", "ticketing"} : form' = [NoForm EXCEPT !.service = s]
    BY <1>3 DEF StartForm
  <2>2. form' = [service |-> s, phase |-> "collect", index |-> 1, answers |-> <<>>]
    BY <2>1 DEF NoForm
  <2>3. DOMAIN form'.answers = {}
    BY <2>2
  <2>4. Travellers(form'.answers) = 0
    BY <2>3 DEF Travellers, Number
  <2>5. Len(Plan(form'.service, form'.answers)) \in Nat \ {0}
    BY <2>2, <2>4, PlanFacts, FormBounds
  <2>6. Answered(form'.service, form'.answers, form'.index - 1)
    BY <2>2 DEF Answered
  <2> QED
    BY <2>2, <2>3, <2>4, <2>5, <2>6, FormBounds DEF FormInv
<1>4. ASSUME Edit PROVE FormInv'
  <2>1. /\ form'.service = form.service /\ form'.answers = form.answers
        /\ form'.index = 1 /\ form'.phase = "collect" /\ form.phase = "review"
        /\ form' = [service |-> form'.service, phase |-> form'.phase,
                    index |-> form'.index, answers |-> form'.answers]
    BY <1>4 DEF Edit, FormInv
  <2>2. Answered(form'.service, form'.answers, form'.index - 1)
    BY <2>1 DEF Answered
  <2>3. form.service # "none"
    BY <2>1 DEF FormInv, NoForm
  <2> QED
    BY <1>2, <2>1, <2>2, <2>3 DEF FormInv
<1>5. ASSUME FormBack PROVE FormInv'
  <2> DEFINE index == IF form.phase = "review" THEN len ELSE form.index - 1
  <2>1. CASE index = 0
    <3>1. form' = NoForm
      BY <1>5, <2>1 DEF FormBack
    <3>2. FormInit' => FormInv'
      BY NoFormInv, PTL
    <3> QED
      BY <3>1, <3>2 DEF FormInit
  <2>2. CASE index # 0
    <3>1. /\ form'.service = form.service /\ form'.answers = form.answers
          /\ form'.index = index /\ form'.phase = "collect" /\ form.service # "none"
          /\ form' = [service |-> form'.service, phase |-> form'.phase,
                      index |-> form'.index, answers |-> form'.answers]
          /\ form.phase \in {"collect", "review"}
      BY <1>5, <2>2 DEF FormBack, FormInv
    <3>2. index \in 1 .. len /\ Answered(form.service, form.answers, index - 1)
      <4>1. CASE form.phase = "review"
        BY <4>1, <1>2 DEF FormInv, Answered
      <4>2. CASE form.phase = "collect"
        <5>1. form.index \in 1 .. len /\ Answered(form.service, form.answers, form.index - 1)
          BY <4>2 DEF FormInv
        <5>2. index = form.index - 1 /\ index \in 1 .. len
          BY <4>2, <5>1, <1>2, <2>2
        <5> QED
          BY <5>1, <5>2, <1>2 DEF Answered
      <4> QED
        BY <3>1, <4>1, <4>2
    <3>3. index \in Nat
      BY <3>2, <1>2
    <3> HIDE DEF index
    <3> QED
      BY <3>1, <3>2, <3>3 DEF FormInv
  <2> QED
    BY <2>1, <2>2
<1>6. ASSUME SubmitForm PROVE FormInv'
  <2>1. /\ form'.service = form.service /\ form'.answers = <<>>
        /\ form'.index = form.index /\ form'.phase = "submitted" /\ form.phase = "review"
        /\ form' = [service |-> form'.service, phase |-> form'.phase,
                    index |-> form'.index, answers |-> form'.answers]
    BY <1>6 DEF SubmitForm, FormInv
  <2>2. DOMAIN form'.answers = {}
    BY <2>1
  <2>3. Travellers(form'.answers) = 0
    BY <2>2 DEF Travellers, Number
  <2>4. form.service # "none"
    BY <2>1 DEF FormInv, NoForm
  <2> QED
    BY <2>1, <2>2, <2>3, <2>4, FormBounds DEF FormInv
<1>7. ASSUME LeaveForm PROVE FormInv'
  <2>1. form' = NoForm
    BY <1>7 DEF LeaveForm
  <2>2. FormInit' => FormInv'
    BY NoFormInv, PTL
  <2> QED
    BY <2>1, <2>2 DEF FormInit
<1>8. ASSUME Give PROVE FormInv'
  BY <1>8, GiveForm
<1>9. ASSUME UNCHANGED form PROVE FormInv'
  BY <1>9 DEF FormInv
<1> QED
  BY <1>3, <1>4, <1>5, <1>6, <1>7, <1>8, <1>9 DEF FormNext

\* A travel enquiry in review is complete: every question of the plan that its
\* answers ask for is answered, with answers that are accepted together, for any
\* numbers of applicants and days and however often the customer goes back.
THEOREM FormTheorem == FormSpec => [](FormTypeOK /\ FormComplete)
<1>1. FormInit => FormInv
  BY NoFormInv
<1>2. FormInv => FormTypeOK /\ FormComplete
  <2> SUFFICES ASSUME FormInv PROVE FormTypeOK /\ FormComplete
    OBVIOUS
  <2>1. FormTypeOK
    BY DEF FormInv, FormTypeOK, Word
  <2>2. FormComplete
    <3> DEFINE plan == Plan(form.service, form.answers)
    <3> SUFFICES ASSUME form.phase = "review", NEW key \in ToSet(plan)
                 PROVE  key \in DOMAIN form.answers /\ form.answers[key] \in Accepts(key, form.answers)
      BY DEF FormComplete
    <3>1. DOMAIN plan = 1 .. Len(plan)
      BY PlanFacts DEF FormInv
    <3>2. PICK i \in 1 .. Len(plan) : key = plan[i]
      BY <3>1 DEF ToSet
    <3>3. Answered(form.service, form.answers, Len(plan))
      BY DEF FormInv
    <3> QED
      BY <3>2, <3>3 DEF Answered
  <2> QED
    BY <2>1, <2>2
<1> QED
  BY <1>1, <1>2, StepForm, PTL DEF FormSpec

-----------------------------------------------------------------------------
(* The types of sessions and bookings.                                     *)

\* A request names a token that is there, and what is contested is a family.
VisitsNamed == contested \subseteq Nat /\ \A v \in Visit : visit[v].tok \in Tokens \cup {0}

\* Tokens are never removed.
LEMMA TokensStay ==
    ASSUME SessionsInv, [SessionsNext]_sessionVars
    PROVE  Len(token') \in Nat /\ Len(token') >= Len(token)
<1>1. TokensTyped /\ TokensTyped'
  BY NextSessions DEF SessionsInv
<1>2. Len(token) \in Nat /\ Len(token') \in Nat
  BY <1>1 DEF TokensTyped
<1>3. \A S : Len(Revoked(S)) = Len(token) /\ Revoked(S) \in Seq(TokenType)
  BY <1>1, RevokedTokens
<1>4. CASE \E v \in Visit : LogIn(v)
  BY <1>2, <1>4 DEF LogIn
<1>5. CASE \E v \in Visit : DropDevice(v) \/ RevokeExpired(v) \/ Replay(v)
  BY <1>2, <1>3, <1>5 DEF DropDevice, RevokeExpired, Replay, EndEverything
<1>6. CASE \E v \in Visit : Register(v)
  <2>1. token' = token \/ \E e : token' = Append(token, e)
    BY <1>6 DEF Register
  <2>2. ASSUME NEW e, token' = Append(token, e) PROVE Len(token') = Len(token) + 1
    BY <1>1, <2>2 DEF TokensTyped
  <2> QED
    BY <1>2, <2>1, <2>2
<1>7. CASE \E v \in Visit : Rotate(v)
  <2>1. token' = token \/ \E e, S : token' = Append(Revoked(S), e)
    BY <1>7 DEF Rotate
  <2>2. ASSUME NEW e, NEW S, token' = Append(Revoked(S), e) PROVE Len(token') = Len(token) + 1
    <3>1. Len(Append(Revoked(S), e)) = Len(Revoked(S)) + 1
      BY <1>3
    <3> QED
      BY <1>3, <2>2, <3>1
  <2> QED
    BY <1>2, <2>1, <2>2
<1>8. CASE \E v \in Visit, t \in DOMAIN token : Present(v, t)
  BY <1>2, <1>8 DEF Present
<1>9. CASE \E t \in DOMAIN token : LogOut(t)
  BY <1>2, <1>3, <1>9 DEF LogOut
<1>10. CASE \E t \in DOMAIN token : ExpireToken(t)
  <2>1. PICK t \in DOMAIN token : token' = [token EXCEPT ![t].expired = TRUE]
    BY <1>10 DEF ExpireToken
  <2>2. DOMAIN token' = DOMAIN token
    BY <2>1
  <2>3. DOMAIN token = 1 .. Len(token) /\ DOMAIN token' = 1 .. Len(token')
    BY <1>1, LenProperties DEF TokensTyped
  <2>4. CASE Len(token) = 0
    BY <1>2, <2>4
  <2>5. CASE Len(token) > 0
    <3>1. Len(token) \in 1 .. Len(token)
      BY <1>2, <2>5
    <3>2. Len(token) \in 1 .. Len(token')
      BY <2>2, <2>3, <3>1
    <3> QED
      BY <1>2, <3>2
  <2> QED
    BY <1>2, <2>4, <2>5
<1>11. CASE (\E d \in Device : LogOutDevice(d)) \/ LogOutAll
  <2>1. \E S : token' = Revoked(S)
    BY <1>11 DEF LogOutDevice, LogOutAll, EndEverything
  <2> QED
    BY <1>2, <1>3, <2>1
<1>12. CASE UNCHANGED sessionVars
  BY <1>2, <1>12 DEF sessionVars
<1> QED
  BY <1>4, <1>5, <1>6, <1>7, <1>8, <1>9, <1>10, <1>11, <1>12 DEF SessionsNext

LEMMA VisitsStep ==
    ASSUME SessionsInv, VisitsNamed, [SessionsNext]_sessionVars
    PROVE  VisitsNamed'
<1>1. Tokens \subseteq Tokens' /\ DOMAIN token = Tokens /\ Len(token) \in Nat
  BY TokensStay, TokenFunction DEF Tokens, SessionsInv
<1>2. \A t \in DOMAIN token : token[t].family \in Nat
  BY TokenFunction DEF SessionsInv
<1>3. visit \in [Visit -> VisitType]
  BY DEF SessionsInv, TokensTyped
<1>4. contested' \subseteq Nat /\ \A v \in Visit : visit'[v].tok \in {visit[v].tok} \cup DOMAIN token
  <2> USE DEF VisitsNamed, VisitType
  <2>1. CASE \E v \in Visit : LogIn(v) \/ DropDevice(v) \/ Register(v) \/ Rotate(v) \/ RevokeExpired(v)
    <3>1. contested' = contested
      BY <2>1 DEF LogIn, DropDevice, Register, Rotate, RevokeExpired
    <3>2. CASE \E v \in Visit : LogIn(v)
      BY <1>3, <3>1, <3>2 DEF LogIn
    <3>3. CASE \E v \in Visit, pc \in InFlight \cup {"done"} : Proceed(v, pc)
      BY <1>3, <3>1, <3>3 DEF Proceed
    <3> QED
      BY <2>1, <3>2, <3>3 DEF DropDevice, Register, Rotate, RevokeExpired, InFlight
  <2>2. CASE \E v \in Visit : Replay(v)
    <3>1. contested' = contested
      BY <2>2 DEF Replay
    <3>2. \A w \in Visit : Crossing[w].tok = visit[w].tok
      BY <1>3 DEF Crossing
    <3>3. Crossing \in [Visit -> VisitType]
      BY CrossingVisits DEF SessionsInv
    <3>4. ASSUME NEW v \in Visit, visit' = [Crossing EXCEPT ![v].pc = "done"]
          PROVE  \A w \in Visit : visit'[w].tok = visit[w].tok
      BY <3>2, <3>3, <3>4
    <3>5. ASSUME NEW v \in Visit, Proceed(v, "done")
          PROVE  \A w \in Visit : visit'[w].tok = visit[w].tok
      BY <1>3, <3>5 DEF Proceed
    <3> QED
      BY <2>2, <3>1, <3>4, <3>5 DEF Replay
  <2>3. CASE \E v \in Visit, t \in DOMAIN token : Present(v, t)
    BY <1>2, <1>3, <2>3 DEF Present
  <2>4. CASE (\E t \in DOMAIN token : LogOut(t) \/ ExpireToken(t)) \/ (\E d \in Device : LogOutDevice(d))
    BY <2>4 DEF LogOut, ExpireToken, LogOutDevice
  <2>5. CASE LogOutAll
    BY <1>3, <2>5 DEF LogOutAll, Crossing
  <2>6. CASE UNCHANGED sessionVars
    BY <2>6 DEF sessionVars
  <2> QED
    BY <2>1, <2>2, <2>3, <2>4, <2>5, <2>6 DEF SessionsNext
<1> QED
  BY <1>1, <1>4 DEF VisitsNamed

\* The tokens, the requests in flight and the histories keep to their types.
THEOREM SessionsTyped == SessionsSpec => []SessionsTypeOK
<1>1. SessionsInit => SessionsInv /\ VisitsNamed
  <2>1. SessionsInit => VisitsNamed
    <3> SUFFICES ASSUME SessionsInit PROVE VisitsNamed
      OBVIOUS
    <3>1. PICK d \in [Visit -> Device] : visit = [v \in Visit |-> Unused(d[v])]
      BY DEF SessionsInit
    <3> QED
      BY <3>1 DEF SessionsInit, VisitsNamed, Unused
  <2> QED
    BY <2>1, InitSessions
<1>2. SessionsInv /\ VisitsNamed /\ [SessionsNext]_sessionVars => (SessionsInv /\ VisitsNamed)'
  BY NextSessions, VisitsStep
<1>3. SessionsInv /\ VisitsNamed => SessionsTypeOK
  <2> SUFFICES ASSUME SessionsInv, VisitsNamed PROVE SessionsTypeOK
    OBVIOUS
  <2>1. DOMAIN token = Tokens /\ TokensTyped
    BY TokenFunction DEF SessionsInv
  <2>2. visit \in [Visit -> [pc : InFlight \cup {"unused", "done"}, device : Device,
                             tok : DOMAIN token \cup {0}, period : Nat, crossed : BOOLEAN]]
    BY <2>1 DEF TokensTyped, VisitType, VisitsNamed
  <2> QED
    BY <2>1, <2>2 DEF TokensTyped, TokenType, VisitsNamed, SessionsTypeOK
<1> QED
  BY <1>1, <1>2, <1>3, PTL DEF SessionsSpec

VersionFits == row.version <= MaxVersion

LEMMA VersionBounded ==
    ASSUME BookingsInv, VersionFits, [BookingsNext]_bookingVars
    PROVE  VersionFits'
<1> USE DEF VersionFits
<1>1. MaxVersion \in Nat \ {0} /\ row \in RowType
  BY BookingsAssumption DEF BookingsInv, Typed
<1>2. CASE \E w \in Writer : Book(w)
  BY <1>1, <1>2 DEF Book, Absent
<1>3. CASE BookDraft
  BY <1>1, <1>3 DEF BookDraft, Absent
<1>4. CASE \E w \in Writer : Save(w)
  <2>1. PICK w \in Writer : Save(w)
    BY <1>4
  <2>2. CASE UNCHANGED row
    BY <2>2
  <2>3. CASE row' = Written(w)
    <3>1. row'.version \in {row.version, row.version + 1}
      BY <1>1, <2>3 DEF Written, Absent, RowType
    <3>2. row.version < MaxVersion /\ row.version \in Nat
      BY <1>1, <2>1 DEF Save, RowType
    <3> QED
      BY <1>1, <3>1, <3>2
  <2> QED
    BY <2>1, <2>2, <2>3 DEF Save
<1>5. CASE UNCHANGED row
  BY <1>5
<1>6. \A w \in Writer : Decide(w) => UNCHANGED row
  BY DEF Decide, DecideCancel, DecideStatus, DecideSettle, DecideRest
<1>7. \A w \in Writer : LoadRequest(w) \/ LoadDraft(w) \/ Conflict(w) => UNCHANGED row
  BY DEF LoadRequest, LoadDraft, Load, Conflict
<1>8. OpenPayment \/ RefundPartly \/ UNCHANGED bookingVars => UNCHANGED row
  BY DEF OpenPayment, RefundPartly, bookingVars
<1>9. \A w \in Writer, op \in {"assistant", "settle", "refund", "refundExtra"} : Load(w, op, "PENDING") => UNCHANGED row
  BY DEF Load
<1> QED
  BY <1>2, <1>3, <1>4, <1>5, <1>6, <1>7, <1>8, <1>9 DEF BookingsNext

\* The booking, its payment and the requests keep to their types.
THEOREM BookingsTyped == BookingsSpec => []BookingsTypeOK
<1>1. BookingsInit => BookingsInv /\ VersionFits
  <2>1. BookingsInit => VersionFits
    BY BookingsAssumption DEF BookingsInit, Absent, VersionFits
  <2> QED
    BY <2>1, InitBooking
<1>2. BookingsInv /\ VersionFits /\ [BookingsNext]_bookingVars
         => BookingsInv' /\ VersionFits'
  BY NextBooking, VersionBounded
<1>3. BookingsInv /\ VersionFits => BookingsTypeOK
  BY BookingsAssumption DEF BookingsInv, Typed, RowType, Task, BookingsTypeOK, VersionFits
<1> QED
  BY <1>1, <1>2, <1>3, PTL DEF BookingsSpec

-----------------------------------------------------------------------------
(* The composition.                                                        *)

\* One part moves and the others rest: every step of the whole is a step of each
\* part or leaves it alone.
LEMMA PartsStep ==
    ASSUME [ServicesNext]_ServicesVars
    PROVE  /\ [FormNext]_form /\ [InboundNext]_inboundVars /\ [SessionsNext]_sessionVars
           /\ [NotificationsNext]_notificationVars /\ [OpsNext]_opsVars /\ [WorkflowNext]_workflowVars
           /\ [BookingsNext]_bookingVars /\ [SharedNext]_sharedVars /\ [EnquiriesNext]_enquiryVars
<1>1. CASE UNCHANGED ServicesVars
  BY <1>1 DEF ServicesVars
<1>2. CASE ServicesNext
  <2> USE <1>2 DEF ServicesNext, Rests
  <2>1. [FormNext]_form
    OBVIOUS
  <2>2. [InboundNext]_inboundVars
    OBVIOUS
  <2>3. [SessionsNext]_sessionVars
    OBVIOUS
  <2>4. [NotificationsNext]_notificationVars
    OBVIOUS
  <2>5. [OpsNext]_opsVars
    OBVIOUS
  <2>6. [WorkflowNext]_workflowVars
    OBVIOUS
  <2>7. [BookingsNext]_bookingVars
    OBVIOUS
  <2>8. [SharedNext]_sharedVars
    OBVIOUS
  <2>9. [EnquiriesNext]_enquiryVars
    OBVIOUS
  <2> QED
    BY <2>1, <2>2, <2>3, <2>4, <2>5, <2>6, <2>7, <2>8, <2>9
<1> QED
  BY <1>1, <1>2

LEMMA PartsBegin ==
    ServicesInit => /\ FormInit /\ InboundInit /\ WorkflowInit /\ BookingsInit /\ SessionsInit
                    /\ NotificationsInit /\ OpsInit /\ SharedInit /\ EnquiriesInit
BY DEF ServicesInit

\* Every behaviour of the whole is one of each part.
THEOREM ServicesCompose ==
    ServicesSpec => /\ FormSpec /\ InboundSpec /\ SessionsSpec /\ NotificationsSpec /\ OpsSpec
                    /\ WorkflowSpec /\ BookingsSpec /\ SharedSpec /\ EnquiriesSpec
<1>1. [ServicesNext]_ServicesVars =>
           /\ [FormNext]_form /\ [InboundNext]_inboundVars /\ [SessionsNext]_sessionVars
           /\ [NotificationsNext]_notificationVars /\ [OpsNext]_opsVars /\ [WorkflowNext]_workflowVars
           /\ [BookingsNext]_bookingVars /\ [SharedNext]_sharedVars /\ [EnquiriesNext]_enquiryVars
  BY PartsStep
<1> QED
  BY <1>1, PartsBegin, PTL DEF ServicesSpec, FormSpec, InboundSpec, SessionsSpec, NotificationsSpec,
     OpsSpec, WorkflowSpec, BookingsSpec, SharedSpec, EnquiriesSpec

\* The variables of each service keep to their types, in the specification that
\* TLC runs and for every value of its constants.
THEOREM ServicesTyped == ServicesSpec => []ServicesTypeOK
<1>1. SharedSpec => []SharedTypeOK
  <2>1. SharedSpec => []DeskInv
    BY DeskBegins, DeskStep, PTL DEF SharedSpec
  <2> QED
    BY <2>1, DeskFollows, PTL
<1>2. (/\ FormTypeOK /\ InboundTypeOK /\ SessionsTypeOK /\ NotificationsTypeOK
       /\ OpsTypeOK /\ WorkflowTypeOK /\ BookingsTypeOK /\ SharedTypeOK /\ EnquiriesTypeOK) => ServicesTypeOK
  BY DEF ServicesTypeOK
<1> QED
  BY <1>1, <1>2, ServicesCompose, FormTheorem, InboundTyped, SessionsTyped, NotificationsTyped,
     AlertsTypeCorrect, WorkflowTyped, BookingsTyped, EnquiriesTheorem, PTL

\* What the desk keeps beside the bookings, and the desks that quote, lose nothing
\* but what a crossing request or a crash takes, in the specification that TLC
\* runs: DeskTold and DesksServe for any number of clerks, agents and rows.
THEOREM DesksKeptTheorem == ServicesSpec => []DesksKept
<1>1. DeskTold /\ DesksServe => DesksKept
  BY DEF DesksKept
<1> QED
  BY <1>1, ServicesCompose, DeskTheorem, EnquiriesTheorem, PTL
=============================================================================
