------------------------------ MODULE PasswordReset ------------------------------
(***************************************************************************)
(* One user's password, reset links and sessions (AuthService, JwtStrategy)*)
(* : requests of a link, uses of a link and logins in progress at the same *)
(* time.  Passwords are numbered by the resets that set them, which is     *)
(* also what tokenVersion counts.                                          *)
(***************************************************************************)
EXTENDS Naturals, FiniteSets

CONSTANTS
    Calls,              \* requests in progress at a time
    Tokens              \* reset tokens ever created

VARIABLES
    tokens,             \* the PasswordResetToken rows, by token
    version,            \* User.tokenVersion, with its passwordHash
    resets,             \* ghost: tokens that have set a password
    sessions,           \* access tokens given out
    call

vars == <<tokens, version, resets, sessions, call>>

(* "expired" is an unused token past its expiresAt.                        *)
TokenStates == {"never", "valid", "expired", "used", "deleted"}
Versions == 0..Cardinality(Tokens)
Sessions == [ver : Versions, password : Versions]
NoToken == "none"

Idle == [pc |-> "idle", token |-> NoToken, ver |-> 0]
CallStates == [pc : {"idle", "forgot", "create", "mail", "undo", "reset", "login"},
               token : Tokens \cup {NoToken}, ver : Versions]

At(c, point) == call[c].pc = point
Leave(c) == call' = [call EXCEPT ![c] = Idle]
Unused == {t \in Tokens : tokens[t] \in {"valid", "expired"}}
Deleting(some) == [t \in Tokens |-> IF t \in some THEN "deleted" ELSE tokens[t]]

Init ==
    /\ tokens = [t \in Tokens |-> "never"]
    /\ version = 0
    /\ resets = {}
    /\ sessions = {}
    /\ call = [c \in Calls |-> Idle]

(***************************************************************************)
(* forgotPassword                                                          *)
(***************************************************************************)
(* An unused token of the last minute ends the request; an older one does  *)
(* not.                                                                    *)
CheckRecent(c) ==
    /\ At(c, "idle")
    /\ call' = [call EXCEPT ![c].pc = "forgot"]
    /\ UNCHANGED <<tokens, version, resets, sessions>>

DeleteUnused(c) ==
    /\ At(c, "forgot")
    /\ tokens' = Deleting(Unused)
    /\ call' = [call EXCEPT ![c].pc = "create"]
    /\ UNCHANGED <<version, resets, sessions>>

CreateToken(c, t) ==
    /\ At(c, "create")
    /\ tokens[t] = "never"
    /\ tokens' = [tokens EXCEPT ![t] = "valid"]
    /\ call' = [call EXCEPT ![c] = [pc |-> "mail", token |-> t, ver |-> 0]]
    /\ UNCHANGED <<version, resets, sessions>>

Mail(c) ==
    /\ At(c, "mail")
    /\ \/ Leave(c)
       \/ call' = [call EXCEPT ![c].pc = "undo"]
    /\ UNCHANGED <<tokens, version, resets, sessions>>

DeleteUnsent(c) ==
    /\ At(c, "undo")
    /\ tokens' = Deleting({call[c].token} \ {t \in Tokens : tokens[t] = "deleted"})
    /\ Leave(c)
    /\ UNCHANGED <<version, resets, sessions>>

Expire(t) ==
    /\ tokens[t] = "valid"
    /\ tokens' = [tokens EXCEPT ![t] = "expired"]
    /\ UNCHANGED <<version, resets, sessions, call>>

(***************************************************************************)
(* resetPassword: the token is read, the password hashed, then consumed    *)
(***************************************************************************)
ReadToken(c, t) ==
    /\ At(c, "idle")
    /\ tokens[t] = "valid"
    /\ call' = [call EXCEPT ![c] = [pc |-> "reset", token |-> t, ver |-> 0]]
    /\ UNCHANGED <<tokens, version, resets, sessions>>

(* updateMany where usedAt is null; `now` is the one the token was read at.*)
(* Mutant: what was read is taken as still true.                           *)
ConsumableAsRead(t) == TRUE

Consumable(t) == t \in Unused

ResetPassword(c) ==
    LET t == call[c].token IN
    /\ At(c, "reset")
    /\ IF Consumable(t)
       THEN /\ tokens' = [s \in Tokens |->
                 IF s = t THEN "used"
                 ELSE IF tokens[s] = "never" THEN "never" ELSE "deleted"]
            /\ version' = version + 1
            /\ resets' = resets \cup {t}
       ELSE UNCHANGED <<tokens, version, resets>>
    /\ Leave(c)
    /\ UNCHANGED sessions

(***************************************************************************)
(* login: the user is read, the password compared, the token signed.       *)
(***************************************************************************)
(* The version signed is the one read with the password.  Mutant: the one  *)
(* there is when the token is signed.                                      *)
VersionNow(c) == version

VersionRead(c) == call[c].ver

ReadUser(c) ==
    /\ At(c, "idle")
    /\ call' = [call EXCEPT ![c] = [pc |-> "login", token |-> NoToken, ver |-> version]]
    /\ UNCHANGED <<tokens, version, resets, sessions>>

Login(c) ==
    /\ At(c, "login")
    /\ sessions' = sessions
         \cup {[ver |-> VersionRead(c), password |-> call[c].ver]}
    /\ Leave(c)
    /\ UNCHANGED <<tokens, version, resets>>

(* JwtStrategy.validate.                                                   *)
Accepted(session) == session.ver = version

Next ==
    \/ \E c \in Calls :
         \/ CheckRecent(c) \/ DeleteUnused(c) \/ Mail(c) \/ DeleteUnsent(c)
         \/ \E t \in Tokens : CreateToken(c, t) \/ ReadToken(c, t)
         \/ ResetPassword(c) \/ ReadUser(c) \/ Login(c)
    \/ \E t \in Tokens : Expire(t)

Spec == Init /\ [][Next]_vars

(***************************************************************************)
(* Properties                                                              *)
(***************************************************************************)
TypeOK ==
    /\ tokens \in [Tokens -> TokenStates]
    /\ version \in Versions
    /\ resets \subseteq Tokens
    /\ sessions \subseteq Sessions
    /\ call \in [Calls -> CallStates]

(* A link sets a password once, also when two requests use it at the same  *)
(* time, and no session opened with a password since replaced is accepted, *)
(* although its login began before the reset.                              *)
ResetEndsSessions ==
    /\ version = Cardinality(resets)
    /\ \A session \in sessions : Accepted(session) => session.password = version

=============================================================================
