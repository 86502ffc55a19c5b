------------------------------ MODULE Accounts ------------------------------
(***************************************************************************)
(* Accounts and profiles: AuthService of auth-service, which keeps one     *)
(* refresh token for each user, and UsersService of user-service, which    *)
(* learns of a new user through Kafka.                                     *)
(*                                                                         *)
(* Several requests are in progress at once.  A request for tokens reads   *)
(* the user's row, then signs a pair and stores the hash of the refresh    *)
(* token: the two statements share no transaction and no lock.  An edit of *)
(* a profile reads the row, and save() later reads it again and writes the *)
(* columns in which the edit's copy differs from what it finds then.       *)
(*                                                                         *)
(* A user stands for an e-mail address.  Token n of a user is the n-th     *)
(* pair signed for it: the jti makes every pair different, and the hash is *)
(* taken to be injective.  A wrong password, an expired or forged token, a *)
(* registered e-mail and a missing profile end a request without a change. *)
(* No operation of auth-service clears isActive of a user.                 *)
(***************************************************************************)
EXTENDS Naturals, Sequences

CONSTANTS Users,      \* e-mail addresses
          Requests,   \* register, login and refresh requests in progress
          Workers,    \* handlers of user.registered in progress
          Editors,    \* update and remove requests in progress
          Names,      \* values a client gives a profile's fields
          Blank,      \* the fields of a new profile
          NoUser,     \* an idle handler
          MaxTokens   \* bound: pairs signed for one user

ASSUME AccountsAssumption ==
    /\ Blank \notin Names
    /\ NoUser \notin Users
    /\ MaxTokens \in Nat

VARIABLES account,       \* users with a row in auth-service
          refreshToken,  \* refreshToken[u]: the token whose hash is stored, or 0
          request,       \* request[r]
          held,          \* held[u]: the tokens a client has received
          event,         \* event[u]: the outbox row of user.registered
          worker,        \* worker[w]: the user whose profile was found missing
          created,       \* users with a profile
          profile,       \* profile[u]: the profile's row
          edit           \* edit[e]

\* History.
VARIABLES tokens,      \* tokens[u][n]: the token that n was exchanged for, or 0
          rival,       \* rival[u]: tokens exchanged while another exchange was under way
          closed,      \* users who logged out with no request of theirs in progress
          asked,       \* asked[u]: the row the last edit asked for
          overlapped   \* users two of whose edits were in progress at once

tokenVars == <<refreshToken, held, tokens, rival>>
profileVars == <<created, profile, asked>>
editVars == <<edit, overlapped>>
authVars == <<account, request, closed, tokenVars>>
userVars == <<worker, profileVars, editVars>>
vars == <<authVars, event, userVars>>

Profile == [name : Names \cup {Blank}, active : BOOLEAN]

NewProfile == [name |-> Blank, active |-> TRUE]

NoRequest == [at |-> "none"]

Token == Nat \ {0}

\* Started from token `from`, or from a password when that is 0.
IssuingRecord == [at : {"issuing"}, user : Users, from : Nat]

AnsweringRecord == [at : {"answering"}, user : Users, token : Token]

NoEdit == [at |-> "none"]

EditRecord == [at : {"read", "saving"}, user : Users, copy : Profile, found : Profile]

AuthTypes ==
    /\ account \in SUBSET Users
    /\ refreshToken \in [Users -> Nat]
    /\ request \in [Requests -> {NoRequest} \cup IssuingRecord \cup AnsweringRecord]
    /\ held \in [Users -> SUBSET Token]
    /\ event \in [Users -> {"none", "pending", "published", "failed"}]
    /\ tokens \in [Users -> Seq(Nat)]
    /\ rival \in [Users -> SUBSET Nat]
    /\ closed \in SUBSET Users

UserTypes ==
    /\ worker \in [Workers -> Users \cup {NoUser}]
    /\ created \in SUBSET Users
    /\ profile \in [Users -> Profile]
    /\ edit \in [Editors -> {NoEdit} \cup EditRecord]
    /\ asked \in [Users -> Profile]
    /\ overlapped \in SUBSET Users

Init ==
    /\ account = {}
    /\ refreshToken = [u \in Users |-> 0]
    /\ request = [r \in Requests |-> NoRequest]
    /\ held = [u \in Users |-> {}]
    /\ event = [u \in Users |-> "none"]
    /\ worker = [w \in Workers |-> NoUser]
    /\ created = {}
    /\ profile = [u \in Users |-> NewProfile]
    /\ edit = [e \in Editors |-> NoEdit]
    /\ tokens = [u \in Users |-> <<>>]
    /\ rival = [u \in Users |-> {}]
    /\ closed = {}
    /\ asked = [u \in Users |-> NewProfile]
    /\ overlapped = {}

-----------------------------------------------------------------------------
(***************************************************************************)
(* auth-service                                                            *)
(***************************************************************************)

Issuing(r) == request[r].at = "issuing"

IssuingFor(u) == {r \in Requests : Issuing(r) /\ request[r].user = u}

\* The request goes on to issueTokens.
StartIssuing(r, u, n) ==
    request' = [request EXCEPT ![r] = [at |-> "issuing", user |-> u, from |-> n]]

\* The user and the outbox row in one transaction; the unique e-mail refuses
\* a second one (23505).
Register(r, u) ==
    /\ request[r] = NoRequest
    /\ u \notin account
    /\ account' = account \cup {u}
    /\ event' = [event EXCEPT ![u] = "pending"]
    /\ StartIssuing(r, u, 0)
    /\ closed' = closed \ {u}
    /\ UNCHANGED <<tokenVars, userVars>>

Login(r, u) ==
    /\ request[r] = NoRequest
    /\ u \in account
    /\ StartIssuing(r, u, 0)
    /\ closed' = closed \ {u}
    /\ UNCHANGED <<account, event, tokenVars, userVars>>

\* Slip: the signature is verified and the stored hash is not compared.
RefreshUnchecked(r, u, n) ==
    /\ request[r] = NoRequest
    /\ n \in held[u]
    /\ StartIssuing(r, u, n)
    /\ UNCHANGED <<account, event, closed, tokenVars, userVars>>

\* findOne with the token's hash.
Refresh(r, u, n) ==
    /\ request[r] = NoRequest
    /\ n \in held[u]
    /\ refreshToken[u] = n
    /\ StartIssuing(r, u, n)
    /\ UNCHANGED <<account, event, closed, tokenVars, userVars>>

\* Slip: without a jti, pairs signed within one second are the same.
SignedWithoutJti(u) == IF tokens[u] = <<>> THEN 1 ELSE Len(tokens[u])

SignedToken(u) == Len(tokens[u]) + 1

\* issueTokens signs the pair and stores the hash.
IssueTokens(r) ==
    LET u == request[r].user
        p == request[r].from
    IN  /\ Issuing(r)
        /\ Len(tokens[u]) < MaxTokens
        /\ refreshToken' = [refreshToken EXCEPT ![u] = SignedToken(u)]
        /\ tokens' = [tokens EXCEPT ![u] = Append(@, p)]
        /\ rival' = [rival EXCEPT ![u] =
                        IF \E s \in IssuingFor(u) \ {r} : request[s].from = p
                        THEN @ \cup {p} ELSE @]
        /\ request' = [request EXCEPT ![r] =
                          [at |-> "answering", user |-> u, token |-> SignedToken(u)]]
        /\ UNCHANGED <<account, held, event, closed, userVars>>

\* Signing or the update fails, or the process ends.
FailToIssue(r) ==
    /\ Issuing(r)
    /\ request' = [request EXCEPT ![r] = NoRequest]
    /\ UNCHANGED <<account, event, closed, tokenVars, userVars>>

\* The pair reaches the client, or the answer is lost.
Answer(r) ==
    LET u == request[r].user
    IN  /\ request[r].at = "answering"
        /\ request' = [request EXCEPT ![r] = NoRequest]
        /\ \/ held' = [held EXCEPT ![u] = @ \cup {request[r].token}]
           \/ UNCHANGED held
        /\ UNCHANGED <<account, refreshToken, tokens, rival, event, closed, userVars>>

\* Slip: the stored hash stays.
LogoutKeepsHash(u) ==
    /\ held[u] # {}
    /\ closed' = IF IssuingFor(u) = {} THEN closed \cup {u} ELSE closed
    /\ UNCHANGED <<account, request, event, tokenVars, userVars>>

\* The caller shows an access token, which came with a refresh token.
Logout(u) ==
    /\ held[u] # {}
    /\ refreshToken' = [refreshToken EXCEPT ![u] = 0]
    /\ closed' = IF IssuingFor(u) = {} THEN closed \cup {u} ELSE closed
    /\ UNCHANGED <<account, request, held, tokens, rival, event, userVars>>

\* The outbox row is published, or given up after its last attempt.
SettleEvent(u) ==
    /\ event[u] = "pending"
    /\ event' \in {[event EXCEPT ![u] = "published"], [event EXCEPT ![u] = "failed"]}
    /\ UNCHANGED <<authVars, userVars>>

-----------------------------------------------------------------------------
(***************************************************************************)
(* user-service                                                            *)
(***************************************************************************)

\* createProfile finds no profile.  The message may be delivered again at any
\* time, and to another instance; when there is a profile nothing happens.
CheckProfile(w, u) ==
    /\ worker[w] = NoUser
    /\ event[u] = "published"
    /\ u \notin created
    /\ worker' = [worker EXCEPT ![w] = u]
    /\ UNCHANGED <<authVars, event, profileVars, editVars>>

\* Slip: an upsert of the whole row.
UpsertProfile(w) ==
    LET u == worker[w]
    IN  /\ u # NoUser
        /\ created' = created \cup {u}
        /\ profile' = [profile EXCEPT ![u] = NewProfile]
        /\ worker' = [worker EXCEPT ![w] = NoUser]
        /\ UNCHANGED <<authVars, event, asked, editVars>>

\* save() of the id and the e-mail: an insert, or nothing when the row is
\* there by now.
SaveProfile(w) ==
    LET u == worker[w]
    IN  /\ u # NoUser
        /\ created' = created \cup {u}
        /\ worker' = [worker EXCEPT ![w] = NoUser]
        /\ UNCHANGED <<authVars, event, profile, asked, editVars>>

\* The handler fails or its process ends; the message comes again or goes to
\* the dead-letter topic.
AbandonProfile(w) ==
    /\ worker[w] # NoUser
    /\ worker' = [worker EXCEPT ![w] = NoUser]
    /\ UNCHANGED <<authVars, event, profileVars, editVars>>

\* An edit reads the row and changes its copy.
ReadProfile(e, u, copy) ==
    /\ edit[e] = NoEdit
    /\ u \in created
    /\ edit' = [edit EXCEPT ![e] = [at |-> "read", user |-> u, copy |-> copy, found |-> copy]]
    /\ overlapped' = IF \E d \in Editors : edit[d] # NoEdit /\ edit[d].user = u
                     THEN overlapped \cup {u} ELSE overlapped
    /\ UNCHANGED <<authVars, event, worker, profileVars>>

\* update: an active profile, its own or any for an admin.
Update(e, u, name) ==
    /\ profile[u].active
    /\ ReadProfile(e, u, [profile[u] EXCEPT !.name = name])

Remove(e, u) == ReadProfile(e, u, [profile[u] EXCEPT !.active = FALSE])

\* save() reads the row again ...
FindForSave(e) ==
    /\ edit[e].at = "read"
    /\ edit' = [edit EXCEPT ![e].at = "saving", ![e].found = profile[edit[e].user]]
    /\ UNCHANGED <<authVars, event, worker, overlapped, profileVars>>

\* Column c of the row after save(): the copy's where it differs.
Saved(copy, found, row) ==
    [name   |-> IF copy.name # found.name THEN copy.name ELSE row.name,
     active |-> IF copy.active # found.active THEN copy.active ELSE row.active]

\* ... and writes the columns that differ.
SaveEdit(e) ==
    LET u == edit[e].user
    IN  /\ edit[e].at = "saving"
        /\ profile' = [profile EXCEPT ![u] = Saved(edit[e].copy, edit[e].found, @)]
        /\ asked' = [asked EXCEPT ![u] = IF u \in overlapped THEN profile'[u] ELSE edit[e].copy]
        /\ edit' = [edit EXCEPT ![e] = NoEdit]
        /\ UNCHANGED <<authVars, event, worker, created, overlapped>>

AbandonEdit(e) ==
    /\ edit[e] # NoEdit
    /\ edit' = [edit EXCEPT ![e] = NoEdit]
    /\ UNCHANGED <<authVars, event, worker, overlapped, profileVars>>

-----------------------------------------------------------------------------
TokenStep(r) ==
    \/ \E u \in Users : Register(r, u) \/ Login(r, u) \/ \E n \in held[u] : Refresh(r, u, n)
    \/ IssueTokens(r) \/ FailToIssue(r) \/ Answer(r)

ProfileStep(w) ==
    \/ \E u \in Users : CheckProfile(w, u)
    \/ SaveProfile(w) \/ AbandonProfile(w)

EditStep(e) ==
    \/ \E u \in Users : Remove(e, u) \/ \E name \in Names : Update(e, u, name)
    \/ FindForSave(e) \/ SaveEdit(e) \/ AbandonEdit(e)

Next ==
    \/ \E r \in Requests : TokenStep(r)
    \/ \E u \in Users : Logout(u) \/ SettleEvent(u)
    \/ \E w \in Workers : ProfileStep(w)
    \/ \E e \in Editors : EditStep(e)

Spec == Init /\ [][Next]_vars

-----------------------------------------------------------------------------
(***************************************************************************)
(* Properties                                                              *)
(***************************************************************************)

\* Tokens are exchanged for later ones, and the stored one not yet.
StoredInv ==
    \A u \in Users :
        /\ refreshToken[u] <= Len(tokens[u])
        /\ \A n \in DOMAIN tokens[u] : tokens[u][n] < n
        /\ refreshToken[u] # 0 => \A n \in DOMAIN tokens[u] : tokens[u][n] # refreshToken[u]

\* A token that was exchanged after a request had read it has a rival.
Fresh(u, p) ==
    /\ p <= Len(tokens[u])
    /\ \A n \in DOMAIN tokens[u] : p # 0 /\ tokens[u][n] = p => p \in rival[u]

IssuingInv ==
    \A r \in Requests : Issuing(r) => Fresh(request[r].user, request[r].from)

ExchangeInv == StoredInv /\ IssuingInv

\* A user who logged out undisturbed has no request left that could store a
\* token.
ClosedInv ==
    \A u \in closed : IssuingFor(u) = {} /\ refreshToken[u] = 0

\* Where edits do not overlap, the row is what they asked for one after the
\* other, and the edit in progress works on that row.
EditInv ==
    \A u \in Users \ overlapped :
        /\ profile[u] = asked[u]
        /\ \A e \in Editors : edit[e] # NoEdit /\ edit[e].user = u =>
              /\ edit[e].at = "saving" => edit[e].found = profile[u]
              /\ \A d \in Editors : edit[d] # NoEdit /\ edit[d].user = u => d = e

\* A profile, and a handler at work on one, belong to a user whose event was
\* published; a profile that is not there has not been edited.
EventInv ==
    /\ \A u \in created : event[u] = "published"
    /\ \A w \in Workers : worker[w] # NoUser => event[worker[w]] = "published"
    /\ \A u \in Users : event[u] # "none" <=> u \in account
    /\ \A u \in Users \ created : profile[u] = NewProfile
    /\ \A e \in Editors : edit[e] # NoEdit => edit[e].user \in created

\* AuthService and UsersService: the types, and what the requests in progress
\* may rely on of the rows they read.
AccountsInv == AuthTypes /\ UserTypes /\ ExchangeInv /\ ClosedInv /\ EditInv /\ EventInv

\* refresh: a token is exchanged for two pairs only when the second exchange
\* had passed the check of the stored hash before the first stored its own;
\* a replaced token is never accepted later, whatever logins, logouts, lost
\* answers and failures come in between.
ReplayNeedsRace ==
    \A u \in Users : \A m, n \in DOMAIN tokens[u] :
        m < n /\ tokens[u][m] = tokens[u][n] /\ tokens[u][m] # 0 => tokens[u][m] \in rival[u]

\* logout: when no request of the user was between its check and its update,
\* no refresh token is accepted until the user logs in again.
LogoutHolds ==
    \A u \in closed : \A n \in held[u] : n # refreshToken[u]

\* update, remove and createProfile: unless two edits of it overlapped, a
\* profile is what the edits asked for one after the other; a removed one
\* stays removed however late the event of its user is handled again.
EditsHold ==
    \A u \in Users \ overlapped : profile[u] = asked[u]

=============================================================================
