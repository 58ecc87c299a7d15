------------------------------ MODULE Sessions ------------------------------
(***************************************************************************)
(* The refresh tokens of one user.  A token is used once: /refresh revokes *)
(* it and issues its successor in the same family.  A revoked token that    *)
(* comes back ends every session of the user.  Each endpoint runs without a *)
(* pause in its worker process, but the workers interleave between reading  *)
(* a row and committing it.  Every commit may fail; it is then rolled back. *)
(***************************************************************************)
EXTENDS Naturals, Sequences

CONSTANTS
    Visit,      \* requests to sign in or to refresh
    Device,
    MaxToken    \* bound: tokens

ASSUME TokenBoundAssumption == MaxToken \in Nat

VARIABLES
    token,      \* refresh_tokens in order of creation
    visit,      \* the requests in flight
    period,     \* history: how often all sessions of the user were ended
    contested   \* history: families of which two rotations overlapped

sessionVars == <<token, visit, period, contested>>

\* family is the number of the token that started it.  period and crossed are
\* history: when the user proved the password, and whether a sign-out of all
\* sessions fell between a request's read and its commit.
RefreshToken(d, f, p, x) ==
    [device |-> d, family |-> f, live |-> TRUE, expired |-> FALSE, period |-> p, crossed |-> x]
Unused(d) == [pc |-> "unused", device |-> d, tok |-> 0, period |-> 0, crossed |-> FALSE]
InFlight == {"login", "register", "rotate", "replay", "expire"}

SessionsInit ==
    /\ token = <<>>
    /\ \E d \in [Visit -> Device] : visit = [v \in Visit |-> Unused(d[v])]
    /\ period = 0
    /\ contested = {}

Revoked(S) == [t \in DOMAIN token |-> IF t \in S THEN [token[t] EXCEPT !.live = FALSE] ELSE token[t]]
Proceed(v, pc) == visit' = [visit EXCEPT ![v].pc = pc]
Room == Len(token) < MaxToken

\* revoke_all_user_sessions: requests that read before it commit after it.
EndEverything ==
    /\ token' = Revoked(DOMAIN token)
    /\ period' = period + 1
Crossing == [w \in Visit |-> IF visit[w].pc \in InFlight THEN [visit[w] EXCEPT !.crossed = TRUE]
                                                         ELSE visit[w]]

-----------------------------------------------------------------------------
\* login and clerk_exchange: the password or the identity is verified.
LogIn(v) ==
    /\ visit[v].pc = "unused"
    /\ visit' = [visit EXCEPT ![v].pc = "login", ![v].period = period]
    /\ UNCHANGED <<token, period, contested>>

\* _revoke_device_tokens; its failure is ignored.
DropDevice(v) ==
    /\ visit[v].pc = "login"
    /\ \/ token' = Revoked({t \in DOMAIN token : token[t].device = visit[v].device})
       \/ UNCHANGED token
    /\ Proceed(v, "register")
    /\ UNCHANGED <<period, contested>>

\* register_refresh_token.
Register(v) ==
    /\ visit[v].pc = "register"
    /\ \/ /\ Room
          /\ token' = Append(token, RefreshToken(visit[v].device, Len(token) + 1,
                                                 visit[v].period, visit[v].crossed))
       \/ UNCHANGED token
    /\ Proceed(v, "done")
    /\ UNCHANGED <<period, contested>>

-----------------------------------------------------------------------------
\* rotate_refresh_token reads the record.
Present(v, t) ==
    /\ visit[v].pc = "unused"
    /\ LET pc == IF ~token[t].live THEN "replay" ELSE IF token[t].expired THEN "expire" ELSE "rotate"
           overlap == \E w \in Visit : visit[w].pc = "rotate"
                                       /\ token[visit[w].tok].family = token[t].family IN
       /\ visit' = [visit EXCEPT ![v].pc = pc, ![v].tok = t]
       /\ contested' = IF pc = "rotate" /\ overlap THEN contested \cup {token[t].family}
                                                   ELSE contested
    /\ UNCHANGED <<token, period>>

Successor(v) ==
    LET old == token[visit[v].tok] IN
    RefreshToken(visit[v].device, old.family, old.period, old.crossed \/ visit[v].crossed)

\* The old token is revoked and its successor issued in one commit, whatever
\* became of the token since it was read.
Rotate(v) ==
    /\ visit[v].pc = "rotate"
    /\ \/ Room /\ token' = Append(Revoked({visit[v].tok}), Successor(v))
       \/ UNCHANGED token
    /\ Proceed(v, "done")
    /\ UNCHANGED <<period, contested>>

\* An expired token is revoked.
RevokeExpired(v) ==
    /\ visit[v].pc = "expire"
    /\ token' = Revoked({visit[v].tok}) \/ UNCHANGED token
    /\ Proceed(v, "done")
    /\ UNCHANGED <<period, contested>>

\* Faulty: only the token's own family is revoked.
EndFamily(v) ==
    /\ visit[v].pc = "replay"
    /\ token' = Revoked({t \in DOMAIN token : token[t].family = token[visit[v].tok].family})
    /\ period' = period + 1
    /\ visit' = [Crossing EXCEPT ![v].pc = "done"]
    /\ UNCHANGED contested

\* A revoked token came back: the family's tokens are revoked and then the
\* user's, in one commit.
Replay(v) ==
    /\ visit[v].pc = "replay"
    /\ \/ EndEverything /\ visit' = [Crossing EXCEPT ![v].pc = "done"]
       \/ Proceed(v, "done") /\ UNCHANGED <<token, period>>
    /\ UNCHANGED contested

-----------------------------------------------------------------------------
\* revoke_refresh_token.
LogOut(t) ==
    /\ token[t].live
    /\ token' = Revoked({t})
    /\ UNCHANGED <<visit, period, contested>>

\* revoke_device_session.
LogOutDevice(d) ==
    /\ \E t \in DOMAIN token : token[t].device = d /\ token[t].live
    /\ token' = Revoked({t \in DOMAIN token : token[t].device = d})
    /\ UNCHANGED <<visit, period, contested>>

\* logout_all_devices, and change_password after its first commit.
LogOutAll ==
    /\ \E t \in DOMAIN token : token[t].live
    /\ EndEverything /\ visit' = Crossing
    /\ UNCHANGED contested

\* expires_at passes.
ExpireToken(t) ==
    /\ ~token[t].expired
    /\ token' = [token EXCEPT ![t].expired = TRUE]
    /\ UNCHANGED <<visit, period, contested>>

SessionsNext ==
    \/ \E v \in Visit : \/ LogIn(v) \/ DropDevice(v) \/ Register(v)
                        \/ Rotate(v) \/ RevokeExpired(v) \/ Replay(v)
    \/ \E v \in Visit, t \in DOMAIN token : Present(v, t)
    \/ \E t \in DOMAIN token : LogOut(t) \/ ExpireToken(t)
    \/ \E d \in Device : LogOutDevice(d)
    \/ LogOutAll

SessionsSpec == SessionsInit /\ [][SessionsNext]_sessionVars

-----------------------------------------------------------------------------
SessionsTypeOK ==
    /\ token \in Seq([device : Device, family : Nat, live : BOOLEAN, expired : BOOLEAN,
                      period : Nat, crossed : BOOLEAN])
    /\ visit \in [Visit -> [pc : InFlight \cup {"unused", "done"}, device : Device,
                            tok : DOMAIN token \cup {0}, period : Nat, crossed : BOOLEAN]]
    /\ \A v \in Visit : visit[v].pc \in {"rotate", "replay", "expire"} => visit[v].tok # 0
    /\ period \in Nat
    /\ contested \subseteq Nat

\* After a sign-out of all devices, a change of password or a token that came
\* back, no session from before goes on, unless the sign-out fell between the
\* read and the commit of the request that issued its token or an ancestor of
\* it ("Revoke all refresh sessions", change_password).
SessionsEnd == \A t \in DOMAIN token :
    token[t].live => token[t].period = period \/ token[t].crossed

\* A session has one valid token however its rotations, sign-outs and failed
\* commits follow each other, unless two rotations of it overlapped ("Single-Use
\* Policy", rotate_refresh_token).
SingleUse == \A s, t \in DOMAIN token :
    /\ token[s].live /\ token[t].live
    /\ token[s].family = token[t].family
    /\ token[s].family \notin contested
    => s = t

\* Sessions end when they must and have one token each (rotate_refresh_token).
SessionRules == SessionsEnd /\ SingleUse
=============================================================================
