------------------------------ MODULE Accounts ------------------------------
(***************************************************************************)
(* accounts: one e-mail address and the requests that concern it at once:  *)
(* registering, logging in, refreshing and dropping a session, asking for  *)
(* a reset link, confirming one and editing the profile.  A request is a   *)
(* sequence of database statements outside any transaction, so each is an  *)
(* action of its own.                                                      *)
(*                                                                         *)
(* Passwords are numbered in the order they were saved, from 0 for the one *)
(* the account was made with.                                              *)
(*                                                                         *)
(* SimpleJWT (external) keeps refresh tokens in a table and blacklists     *)
(* them there; an access token is kept nowhere, carries the iat of the     *)
(* refresh token it was made from, and is judged by it alone.  Its own     *)
(* lifetime, and the throttles, are longer than the time modelled.         *)
(***************************************************************************)
EXTENDS Integers, FiniteSets, Sequences

CONSTANTS
  Requests,    \* requests; each is one call of one endpoint
  Second,      \* clock ticks in a second: iat has whole seconds
  Leeway,      \* LEEWAY, in ticks
  LinkLife,    \* PASSWORD_RESET_TTL, in ticks
  MaxTime      \* bound: the clock stops here

ASSUME AccountsAssumption ==
  /\ {Second, LinkLife} \subseteq Nat \ {0}
  /\ {Leeway, MaxTime} \subseteq Nat
  /\ Leeway >= Second

VARIABLES
  now,
  registered,   \* the account's row exists
  epoch,        \* ghost: how many resets have saved a password
  password,     \* the password in the row
  changedAt,    \* password_changed_at
  stamped,      \* ghost: the password this stamp was taken for
  refresh,      \* OutstandingToken: a sequence of refresh tokens
  blacklisted,  \* BlacklistedToken: positions in refresh
  access,       \* access tokens in clients' hands
  links,        \* PasswordResetToken: a sequence, oldest first
  req           \* the state of each request

user == <<registered, epoch, password, changedAt, stamped>>
tokens == <<refresh, blacklisted, access>>
vars == <<now, user, tokens, links, req>>

Idle == [pc |-> "idle", seen |-> 0, token |-> 0, stamp |-> 0, stamped |-> 0, list |-> {},
         saved |-> 0, wrote |-> 0]

(* SimpleJWT writes iat as whole seconds, cut.                             *)
Iat == now - (now % Second)

Goto(c, step) == req' = [req EXCEPT ![c].pc = step]

Start(c, state) == req[c].pc = "idle" /\ req' = [req EXCEPT ![c] = state]

(* A refresh token knows when it was made, the password it goes back to    *)
(* (ghost authority) and how many resets there had been (ghost minted).    *)
Token(iat, authority) == [iat |-> iat, authority |-> authority, minted |-> epoch]

Init ==
  /\ now = 0 /\ epoch = 0 /\ password = 0 /\ changedAt = 0 /\ stamped = 0
  /\ blacklisted = {}
  /\ \/ registered = FALSE /\ refresh = <<>> /\ access = {} /\ links = <<>>
     \/ /\ registered = TRUE
        /\ refresh = <<[iat |-> 0, authority |-> 0, minted |-> 0]>>
        /\ access = {[iat |-> 0, authority |-> 0, minted |-> 0]}
        /\ links = <<[used |-> FALSE, expires |-> LinkLife, after |-> 0]>>
  /\ req = [c \in Requests |-> Idle]

Tick ==
  /\ now < MaxTime /\ now' = now + 1
  /\ UNCHANGED <<user, tokens, links, req>>

----------------------------------------------------------------------------
(* RegisterView: the probe, then the INSERT under the unique index.        *)
RegisterProbe(c) ==
  /\ Start(c, [Idle EXCEPT !.pc = IF registered THEN "refused" ELSE "probed"])
  /\ UNCHANGED <<now, user, tokens, links>>

RegisterInsert(c) ==
  /\ req[c].pc = "probed"
  /\ IF registered
     THEN Goto(c, "refused") /\ UNCHANGED user
     ELSE /\ registered' = TRUE /\ changedAt' = now /\ UNCHANGED <<epoch, password, stamped>>
          /\ Goto(c, "verified")
  /\ UNCHANGED <<now, tokens, links>>

(* LoginView: the row is read and the password checked against it.  The    *)
(* hash of an account's first password may be older than the hasher's      *)
(* present parameters ...                                                  *)
LoginVerify(c) ==
  /\ \/ registered /\ Start(c, [Idle EXCEPT !.pc = "verified", !.seen = password])
     \/ registered /\ password = 0 /\ Start(c, [Idle EXCEPT !.pc = "rehashing"])
     \/ Start(c, [Idle EXCEPT !.pc = "refused"])
  /\ UNCHANGED <<now, user, tokens, links>>

(* ... and check_password then saves the password it was given, without a  *)
(* stamp.                                                                  *)
LoginRehash(c) ==
  /\ req[c].pc = "rehashing"
  /\ password' = req[c].seen
  /\ req' = [req EXCEPT ![c].pc = "verified", ![c].wrote = epoch]
  /\ UNCHANGED <<now, registered, epoch, changedAt, stamped, tokens, links>>

(* issue_tokens, for a new account and for a login.                        *)
IssueTokens(c) ==
  /\ req[c].pc = "verified"
  /\ refresh' = Append(refresh, Token(Iat, req[c].seen))
  /\ access' = access \union {Token(Iat, req[c].seen)}
  /\ Goto(c, "over")
  /\ UNCHANGED <<now, user, blacklisted, links>>

(* RefreshTokenView: SimpleJWT verifies, makes the access token, retires   *)
(* the refresh token and stores a new one.                                 *)
RefreshVerify(c, r) ==
  /\ IF r \in blacklisted THEN Start(c, [Idle EXCEPT !.pc = "refused"])
                          ELSE Start(c, [Idle EXCEPT !.pc = "rotating", !.token = r])
  /\ UNCHANGED <<now, user, tokens, links>>

RefreshRotate(c) ==
  LET old == refresh[req[c].token]
  IN /\ req[c].pc = "rotating"
     /\ access' = access \union {Token(old.iat, old.authority)}
     /\ blacklisted' = blacklisted \union {req[c].token}
     /\ refresh' = Append(refresh, Token(Iat, old.authority))
     /\ Goto(c, "over")
     /\ UNCHANGED <<now, user, links>>

(* enforce_token_not_revoked                                               *)
Refused(a) == a.iat < changedAt - Leeway

(* LogoutView: for a caller whose access token is accepted.                *)
Logout(c, r) ==
  /\ \E a \in access : ~Refused(a)
  /\ Start(c, [Idle EXCEPT !.pc = "over"])
  /\ blacklisted' = blacklisted \union {r}
  /\ UNCHANGED <<now, user, refresh, access, links>>

----------------------------------------------------------------------------
(* A mutant: a new link leaves the older ones alone.                       *)
ResetClearNothing(c) ==
  /\ registered
  /\ Start(c, [Idle EXCEPT !.pc = "cleared", !.seen = Len(links)])
  /\ UNCHANGED <<now, user, tokens, links>>

(* create_reset_token: spend the links there are, then make one.           *)
ResetClear(c) ==
  /\ registered
  /\ Start(c, [Idle EXCEPT !.pc = "cleared", !.seen = Len(links)])
  /\ links' = [k \in DOMAIN links |-> [links[k] EXCEPT !.used = TRUE]]
  /\ UNCHANGED <<now, user, tokens>>

ResetIssue(c) ==
  /\ req[c].pc = "cleared"
  /\ links' = Append(links, [used |-> FALSE, expires |-> now + LinkLife,
                             after |-> req[c].seen])
  /\ Goto(c, "over")
  /\ UNCHANGED <<now, user, tokens>>

IsValid(link) == ~link.used /\ now < link.expires

(* consume_reset_token reads the link and judges it ...                    *)
ConfirmRead(c, k) ==
  /\ IF IsValid(links[k])
     THEN Start(c, [Idle EXCEPT !.pc = "valid", !.token = k, !.seen = Len(links)])
     ELSE Start(c, [Idle EXCEPT !.pc = "refused"])
  /\ UNCHANGED <<now, user, tokens, links>>

(* ... and marks it used by what it read.                                  *)
ConfirmSpend(c) ==
  /\ req[c].pc = "valid"
  /\ links' = [links EXCEPT ![req[c].token].used = TRUE]
  /\ Goto(c, "spent")
  /\ UNCHANGED <<now, user, tokens>>

(* set_password hashes and stamps in memory.                               *)
ConfirmStamp(c) ==
  /\ req[c].pc = "spent"
  /\ req' = [req EXCEPT ![c].pc = "stamped", ![c].stamp = now]
  /\ UNCHANGED <<now, user, tokens, links>>

(* A mutant: the password is saved without its stamp.                      *)
ConfirmSaveNoStamp(c) ==
  /\ req[c].pc = "stamped"
  /\ epoch' = epoch + 1 /\ password' = epoch + 1 /\ stamped' = epoch + 1
  /\ req' = [req EXCEPT ![c].pc = "saved", ![c].saved = epoch + 1]
  /\ UNCHANGED <<now, registered, changedAt, tokens, links>>

(* A mutant: a save that has been answered is tried again.                 *)
ConfirmSaveAgain(c) ==
  /\ req[c].pc \in {"stamped", "saved"}
  /\ epoch' = epoch + 1 /\ password' = epoch + 1
  /\ changedAt' = req[c].stamp /\ stamped' = epoch + 1
  /\ req' = [req EXCEPT ![c].pc = "saved", ![c].saved = epoch + 1]
  /\ UNCHANGED <<now, registered, tokens, links>>

(* save(): the password and its stamp in one statement.                    *)
ConfirmSave(c) ==
  /\ req[c].pc = "stamped"
  /\ epoch' = epoch + 1 /\ password' = epoch + 1
  /\ changedAt' = req[c].stamp /\ stamped' = epoch + 1
  /\ req' = [req EXCEPT ![c].pc = "saved", ![c].saved = epoch + 1]
  /\ UNCHANGED <<now, registered, tokens, links>>

(* revoke_all_refresh_tokens: list them, then blacklist one after another. *)
RevokeList(c) ==
  /\ req[c].pc = "saved"
  /\ req' = [req EXCEPT ![c].pc = "revoking", ![c].list = DOMAIN refresh]
  /\ UNCHANGED <<now, user, tokens, links>>

(* A mutant: only the latest session is ended.                             *)
RevokeLatestOnly(c) ==
  /\ req[c].pc = "revoking" /\ req[c].list # {}
  /\ blacklisted' = blacklisted \union {Len(refresh)}
  /\ req' = [req EXCEPT ![c].list = {}]
  /\ UNCHANGED <<now, user, refresh, access, links>>

RevokeOne(c) ==
  /\ req[c].pc = "revoking"
  /\ \E r \in req[c].list :
       /\ \A s \in req[c].list : r <= s
       /\ blacklisted' = blacklisted \union {r}
       /\ req' = [req EXCEPT ![c].list = @ \ {r}]
  /\ UNCHANGED <<now, user, refresh, access, links>>

ConfirmEnd(c) ==
  /\ req[c].pc = "revoking" /\ req[c].list = {}
  /\ Goto(c, "confirmed")
  /\ UNCHANGED <<now, user, tokens, links>>

----------------------------------------------------------------------------
(* MeView.patch, or the admin's form: the whole row is read when the       *)
(* request is authenticated ...                                            *)
ProfileRead(c) ==
  /\ registered
  /\ Start(c, [Idle EXCEPT !.pc = "profiling", !.seen = password,
                           !.stamp = changedAt, !.stamped = stamped])
  /\ UNCHANGED <<now, user, tokens, links>>

(* ... and written back by save(), with the password and the stamp it had. *)
ProfileSave(c) ==
  /\ req[c].pc = "profiling"
  /\ password' = req[c].seen /\ changedAt' = req[c].stamp /\ stamped' = req[c].stamped
  /\ req' = [req EXCEPT ![c].pc = "profiled", ![c].wrote = epoch]
  /\ UNCHANGED <<now, registered, epoch, tokens, links>>

(* A database error or the end of the process, between two statements.     *)
BreakOff(c) ==
  /\ req[c].pc \notin {"idle", "over", "refused", "confirmed", "profiled", "broken"}
  /\ Goto(c, "broken")
  /\ UNCHANGED <<now, user, tokens, links>>

Confirm(c) == ConfirmSpend(c) \/ ConfirmStamp(c) \/ ConfirmSave(c) \/ RevokeList(c)
              \/ RevokeOne(c) \/ ConfirmEnd(c)

Next ==
  \/ Tick
  \/ \E c \in Requests :
       \/ RegisterProbe(c) \/ RegisterInsert(c)
       \/ LoginVerify(c) \/ LoginRehash(c) \/ IssueTokens(c)
       \/ RefreshRotate(c)
       \/ \E r \in DOMAIN refresh : RefreshVerify(c, r) \/ Logout(c, r)
       \/ ResetClear(c) \/ ResetIssue(c)
       \/ \E k \in DOMAIN links : ConfirmRead(c, k)
       \/ Confirm(c)
       \/ ProfileRead(c) \/ ProfileSave(c)
       \/ BreakOff(c)

Spec == Init /\ [][Next]_vars

----------------------------------------------------------------------------
Confirmers == {c \in Requests : req[c].saved > 0}

TypeOK ==
  /\ now \in 0..MaxTime /\ registered \in BOOLEAN
  /\ epoch \in 0..Cardinality(Requests) /\ {password, stamped} \subseteq 0..epoch
  /\ changedAt \in 0..now
  /\ blacklisted \subseteq DOMAIN refresh
  /\ \A r \in DOMAIN refresh : refresh[r].authority <= refresh[r].minted
  /\ \A a \in access : a.authority <= a.minted /\ a.minted <= epoch /\ a.iat <= now
  /\ \A k \in DOMAIN links : links[k].used \in BOOLEAN /\ links[k].after < k
  /\ \A c \in Requests : req[c].list \subseteq DOMAIN refresh /\ req[c].saved <= epoch

(***************************************************************************)
(* A link made before a newer one was asked for is dead: two links can be  *)
(* live together only when the second was asked for before the first had   *)
(* been stored.                                                            *)
(***************************************************************************)
OneLiveLink ==
  \A j, k \in DOMAIN links :
    j < k /\ ~links[j].used /\ ~links[k].used => links[k].after < j

(***************************************************************************)
(* A confirmed reset ends every session: no refresh token that existed     *)
(* when the new password was saved is honoured once the confirmation has   *)
(* answered.  (A login or refresh under way at that moment may store its   *)
(* token later, and a confirmation that broke off promises nothing.)       *)
(***************************************************************************)
SessionsEndWithTheReset ==
  \A c \in Confirmers : req[c].pc = "confirmed" =>
    \A r \in DOMAIN refresh : refresh[r].minted < req[c].saved => r \in blacklisted

(* A request that had read the row before a password was saved has written *)
(* back what it had read.                                                  *)
PasswordTakenBack(c) ==
  \E d \in Requests : req[d].seen < req[c].saved /\ req[c].saved <= req[d].wrote

StampTakenBack(c) ==
  \E d \in Requests :
    /\ req[d].pc = "profiled"
    /\ req[d].stamped < req[c].saved /\ req[c].saved <= req[d].wrote

(***************************************************************************)
(* A saved password stays until the next reset: nothing else brings an     *)
(* older one back but a profile edit or a login's hash upgrade that had    *)
(* read the row before.                                                    *)
(***************************************************************************)
NewPasswordStays ==
  \A c \in Confirmers : password >= req[c].saved \/ PasswordTakenBack(c)

(***************************************************************************)
(* An access token older than the new password by more than the leeway is  *)
(* refused from the moment the password is saved, even when the rest of    *)
(* the reset breaks off; only another confirmation that stamped its        *)
(* password earlier and saved it later can take that back, or a profile    *)
(* edit that had read the row before.                                      *)
(***************************************************************************)
AccessEndsWithTheReset ==
  \A c \in Confirmers, a \in access :
    a.minted < req[c].saved /\ a.iat < req[c].stamp - Leeway =>
      \/ Refused(a)
      \/ \E d \in Confirmers : req[d].saved > req[c].saved /\ req[d].stamp < req[c].stamp
      \/ StampTakenBack(c)

(***************************************************************************)
(* Nobody is locked out by the stamp: a token that goes back to the        *)
(* password in the row is accepted, though iat is cut to whole seconds and *)
(* the stamp is not; unless a hash upgrade has put the password there      *)
(* under the stamp of another.                                             *)
(***************************************************************************)
FreshTokensAreAccepted ==
  \A a \in access : a.authority = password /\ password = stamped => ~Refused(a)

(* All three: password and stamp say together which tokens still hold.     *)
AccessFollowsThePassword ==
  NewPasswordStays /\ AccessEndsWithTheReset /\ FreshTokensAreAccepted

----------------------------------------------------------------------------
(* Inductive invariants: what makes the three above true step by step.     *)

Minted == [iat : Nat, authority : Nat, minted : Nat]
Link == [used : BOOLEAN, expires : Nat, after : Nat]
Steps == {"idle", "probed", "rehashing", "verified", "rotating", "cleared", "valid", "spent",
          "stamped", "saved", "revoking", "confirmed", "profiling", "profiled", "over",
          "refused", "broken"}
Request == [pc : Steps, seen : Nat, token : Nat, stamp : Nat, stamped : Nat, list : SUBSET Nat,
            saved : Nat, wrote : Nat]

Typed ==
  /\ now \in Nat /\ registered \in BOOLEAN /\ changedAt \in 0..now
  /\ epoch \in Nat /\ password \in 0..epoch /\ stamped \in 0..epoch
  /\ refresh \in Seq(Minted) /\ access \subseteq Minted /\ blacklisted \subseteq Nat
  /\ links \in Seq(Link) /\ req \in [Requests -> Request]

(* Before the account exists nothing depends on it.                        *)
NobodyYet ==
  ~registered =>
    /\ epoch = 0 /\ refresh = <<>> /\ access = {} /\ links = <<>>
    /\ \A c \in Requests : req[c].pc \in {"idle", "probed", "refused", "broken"}

(* The links a request has spent before it makes its own stay spent.       *)
ClearedLinksStaySpent ==
  \A c \in Requests : req[c].pc = "cleared" =>
    /\ req[c].seen <= Len(links)
    /\ \A j \in 1..req[c].seen : links[j].used

(* Only a confirmation has saved a password, and each its own.             *)
SavesAreCounted ==
  \A c \in Requests :
    /\ req[c].saved <= epoch
    /\ req[c].pc \in {"idle", "valid", "spent", "stamped"} => req[c].saved = 0

(* While it revokes, every older session is revoked or still on its list.  *)
RevocationIsComplete ==
  \A c \in Requests : req[c].pc = "revoking" =>
    \A r \in DOMAIN refresh :
      refresh[r].minted < req[c].saved => r \in blacklisted \union req[c].list

(* What a request has read and will write back, once: a password there has *)
(* been, its stamp, and the password the stamp was taken for.              *)
ReadsArePast ==
  \A c \in Requests :
    /\ req[c].pc \in {"probed", "rehashing", "verified", "profiling"} => req[c].seen <= epoch
    /\ req[c].stamped <= epoch
    /\ req[c].pc = "rotating" => req[c].token \in DOMAIN refresh
    /\ req[c].pc \in {"idle", "rehashing", "profiling"} => req[c].wrote = 0

(* No token goes back to a later password than there is; one that goes     *)
(* back to the password of a stamp, in the row or in the hands of a        *)
(* profile edit, is new enough for it.                                     *)
Fresh(t) ==
  /\ t.authority <= epoch /\ t.minted <= epoch
  /\ t.authority = stamped => t.iat >= changedAt - Leeway
  /\ \A c \in Requests : req[c].pc = "profiling" /\ t.authority = req[c].stamped =>
       t.iat >= req[c].stamp - Leeway

TokensAreFresh ==
  /\ \A r \in DOMAIN refresh : Fresh(refresh[r])
  /\ \A a \in access : Fresh(a)

(* The stamp in the row, or read from it, is at least that of every        *)
(* password saved by then, unless one stamped earlier was saved later or   *)
(* the stamp was taken back.                                               *)
Overtaken(c) ==
  \/ \E d \in Confirmers : req[d].saved > req[c].saved /\ req[d].stamp < req[c].stamp
  \/ StampTakenBack(c)

StampsAreFollowed ==
  \A c \in Confirmers :
    /\ req[c].stamp <= changedAt \/ Overtaken(c)
    /\ \A d \in Requests : req[d].pc = "profiling" =>
         req[d].stamped < req[c].saved \/ req[c].stamp <= req[d].stamp \/ Overtaken(c)

StampsAreTaken == \A c \in Requests : req[c].stamp <= now

AccountsInv ==
  /\ Typed /\ NobodyYet
  /\ ClearedLinksStaySpent /\ OneLiveLink
  /\ SavesAreCounted /\ RevocationIsComplete /\ SessionsEndWithTheReset
  /\ NewPasswordStays /\ ReadsArePast
  /\ TokensAreFresh /\ StampsAreTaken /\ StampsAreFollowed

(* Only saved passwords are counted, each once.                            *)
EpochCountsSaves == epoch = Cardinality(Confirmers)

(* A token is as old as it says: it was made for a password there had been *)
(* by then, from a password that was not newer.                            *)
Dated(t) == t.authority <= t.minted /\ t.minted <= epoch /\ t.iat <= now

TokensAreDated ==
  /\ \A r \in DOMAIN refresh : Dated(refresh[r])
  /\ \A a \in access : Dated(a)

(* What is blacklisted, or waits for it, has been issued.                  *)
RevokedTokensExist ==
  /\ blacklisted \subseteq DOMAIN refresh
  /\ \A c \in Requests : req[c].list \subseteq DOMAIN refresh

(* A link was asked for after those it follows had been stored.            *)
LinksFollow == \A k \in DOMAIN links : links[k].after < k

TalliesInv ==
  /\ now <= MaxTime
  /\ EpochCountsSaves /\ TokensAreDated /\ RevokedTokensExist /\ LinksFollow
=============================================================================
