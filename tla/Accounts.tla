---- MODULE Accounts ----
(***************************************************************************)
(* A provider's named accounts (ext/accounts): the vault of saved logins   *)
(* and pi's own auth.json, which holds the live one.  Each change is made  *)
(* under pi's lock of auth.json, in one write of a file after another,     *)
(* each of which can fail; pi refreshes the live login under the same lock *)
(* and replaces it on /login.                                              *)
(*                                                                         *)
(* A credential is a turn of a grant, which is of a login: refreshing a    *)
(* grant makes its earlier turns useless.  Names, which only refuse a      *)
(* change, are left out.                                                   *)
(***************************************************************************)
EXTENDS Naturals, FiniteSets, Functions, FiniteSetTheorems, TLAPS

CONSTANTS
  Login,         \* who a credential signs in as
  Unnamed,       \* those of them a provider gives no identity for
  None,
  GrantBound,    \* grants made
  TurnBound,     \* turns of a grant
  AccountBound   \* accounts made

VARIABLES
  auth,     \* the live credential, None without one
  saved,    \* the vault: the credential of each account
  active,   \* its active account, None without one
  grants,   \* the latest turn of each grant made
  made,     \* accounts made
  work,     \* the change that holds the lock, None without one
  broken    \* a change was cut short between its two files

fileVars == <<auth, saved, active>>
vars == <<fileVars, grants, made, work, broken>>

Id == 1..AccountBound
Idle == [kind |-> "none"]

Init ==
  /\ auth = None /\ saved = << >> /\ active = None
  /\ grants = << >> /\ made = 0
  /\ work = Idle /\ broken = FALSE

(* A new grant of login l. *)
Granted(l) == [of |-> l, grant |-> Cardinality(DOMAIN grants) + 1, turn |-> 1]
GrantMade ==
  /\ Cardinality(DOMAIN grants) < GrantBound
  /\ grants' = [g \in 1..Cardinality(DOMAIN grants) + 1 |-> IF g \in DOMAIN grants THEN grants[g] ELSE 1]

(* Tokens of one login stay that login; unknown ones are taken to match. *)
OtherLogin(a, b) == a.of # b.of /\ {a.of, b.of} \cap Unnamed = {}

Free == work = Idle

---------------------------------------------------------------------------
(* pi's own changes of the live login *)

Refresh ==
  /\ Free /\ auth # None
  /\ auth.turn = grants[auth.grant] /\ auth.turn < TurnBound
  /\ auth' = [auth EXCEPT !.turn = @ + 1]
  /\ grants' = [grants EXCEPT ![auth.grant] = @ + 1]
  /\ UNCHANGED <<saved, active, made, work, broken>>

NativeLogin(l) ==
  /\ Free
  /\ GrantMade
  /\ auth' = Granted(l)
  /\ UNCHANGED <<saved, active, made, work, broken>>

NativeLogout ==
  /\ Free /\ auth # None
  /\ auth' = None
  /\ UNCHANGED <<saved, active, grants, made, work, broken>>

---------------------------------------------------------------------------
(* Changes of the vault alone, in one write; a write that fails changes    *)
(* nothing                                                                 *)

Keeping(id, c) == [i \in DOMAIN saved \cup {id} |-> IF i = id THEN c ELSE saved[i]]

(* add: the credential just signed in with, as an account of its own. *)
Add(l) ==
  /\ Free /\ made < AccountBound
  /\ GrantMade
  /\ made' = made + 1
  /\ saved' = Keeping(made', Granted(l))
  /\ UNCHANGED <<auth, active, work, broken>>

(* The active account is of the live login. *)
IsTracked(live) == active # None /\ ~OtherLogin(saved[active], live)

Unsaved(live) == IF live = None THEN FALSE ELSE ~IsTracked(live)

(* saveCurrent: the active account takes the live login's tokens, or an    *)
(* account made for it becomes the active one.                             *)
SaveCurrent ==
  /\ Free /\ auth # None
  /\ IF IsTracked(auth)
     THEN saved' = Keeping(active, auth) /\ UNCHANGED <<active, made>>
     ELSE /\ made < AccountBound
          /\ made' = made + 1
          /\ saved' = Keeping(made', auth) /\ active' = made'
  /\ UNCHANGED <<auth, grants, work, broken>>

Remove(id) ==
  /\ Free /\ id \in DOMAIN saved /\ id # active
  /\ saved' = Restrict(saved, DOMAIN saved \ {id})
  /\ UNCHANGED <<auth, active, grants, made, work, broken>>

---------------------------------------------------------------------------
(* switchTo *)

(* A mutant: the live login is not saved before it is replaced. *)
LeftUnsaved(live) == saved

(* The vault as it is written first: the live login's tokens are in its    *)
(* account, one made for it unless the active account is of it.            *)
Snapshot(live) ==
  IF live = None THEN saved ELSE Keeping(IF Unsaved(live) THEN made + 1 ELSE active, live)

SwitchStarts(id) ==
  /\ Free /\ id \in DOMAIN saved
  /\ Unsaved(auth) => made < AccountBound
  /\ saved' = Snapshot(auth)
  /\ IF Unsaved(auth) THEN made' = made + 1 /\ active' = made' ELSE UNCHANGED <<active, made>>
  /\ work' = [kind |-> "switch", id |-> id, to |-> saved'[id], before |-> auth, stage |-> "auth"]
  /\ UNCHANGED <<auth, grants, broken>>

(* The account's login becomes the live one; a write that fails leaves the *)
(* snapshot.                                                               *)
WritesAuth ==
  /\ work.kind = "switch" /\ work.stage = "auth"
  /\ \/ auth' = work.to /\ work' = [work EXCEPT !.stage = "vault"]
     \/ work' = Idle /\ UNCHANGED auth
  /\ UNCHANGED <<saved, active, grants, made, broken>>

---------------------------------------------------------------------------
(* replaceCredential: signed in again for an account, live or not *)

ReplaceInVault(id, l) ==
  /\ Free /\ id \in DOMAIN saved /\ id # active
  /\ GrantMade
  /\ saved' = Keeping(id, Granted(l))
  /\ UNCHANGED <<auth, active, made, work, broken>>

ReplaceStarts(id, l) ==
  /\ Free /\ id = active
  /\ GrantMade
  /\ auth' = Granted(l)
  /\ work' = [kind |-> "replace", id |-> id, to |-> auth', before |-> auth, stage |-> "vault"]
  /\ UNCHANGED <<saved, active, made, broken>>

---------------------------------------------------------------------------
(* The end of both: the vault is written, or the live login put back *)

WritesVault ==
  /\ work # Idle /\ work.stage = "vault"
  /\ \/ saved' = Keeping(work.id, work.to) /\ active' = work.id /\ work' = Idle
     \/ work' = [work EXCEPT !.stage = "rollback"] /\ UNCHANGED <<saved, active>>
  /\ UNCHANGED <<auth, grants, made, broken>>

PutBack == work.before

RollsBack ==
  /\ work # Idle /\ work.stage = "rollback"
  /\ work' = Idle
  /\ \/ auth' = PutBack /\ UNCHANGED broken
     \/ broken' = TRUE /\ UNCHANGED auth
  /\ UNCHANGED <<saved, active, grants, made>>

(* pi dies with the lock, which goes stale. *)
Dies ==
  /\ work # Idle
  /\ work' = Idle
  /\ broken' = (broken \/ work.stage # "auth")
  /\ UNCHANGED <<fileVars, grants, made>>

Next ==
  \/ Refresh \/ NativeLogout \/ SaveCurrent
  \/ \E l \in Login : NativeLogin(l) \/ Add(l)
  \/ \E id \in Id : Remove(id) \/ SwitchStarts(id)
  \/ \E id \in Id, l \in Login : ReplaceInVault(id, l) \/ ReplaceStarts(id, l)
  \/ WritesAuth \/ WritesVault \/ RollsBack \/ Dies

Spec == Init /\ [][Next]_vars

---------------------------------------------------------------------------
(* Properties *)

(* The logins whose latest tokens are in a file. *)
Held == {c.of : c \in {d \in Range(saved) \cup ({auth} \ {None}) : d.turn = grants[d.grant]}}

(* What the user lets go of: a login replaced or left in pi, an account    *)
(* removed, and the login and account signed in again for.                 *)
LetGo ==
  LET replacing == work.kind = "replace" \/ grants' # grants
      live == IF auth' # auth /\ (replacing \/ Free) THEN {auth} \ {None} ELSE {}
      gone == {id \in DOMAIN saved : id \notin DOMAIN saved' \/ (replacing /\ saved'[id] # saved[id])}
  IN  {c.of : c \in live \cup {saved[id] : id \in gone}}

(* Logins taken for the live one, which has their account from then on: a  *)
(* provider gives no identity for one of the two.                          *)
Mistaken ==
  {saved[id].of : id \in {d \in DOMAIN saved \cap DOMAIN saved' :
                            /\ saved'[d].of # saved[d].of
                            /\ {saved[d].of, saved'[d].of} \cap Unnamed # {}}}

(* No switch, save, failure or first crash between two files loses the     *)
(* latest tokens of a login (AccountStore.switchTo), but of one taken for  *)
(* another as the two cannot be told apart (otherLogin).                   *)
TokensKept == [][~broken => Held \ Held' \subseteq LetGo \cup Mistaken]_vars

(* No grant is in two accounts, of which one would keep tokens that a      *)
(* refresh of the other made useless (AccountStore.saveCurrent).           *)
GrantOnce ==
  ~broken => \A i, j \in DOMAIN saved : i # j => saved[i].grant # saved[j].grant

(* A switch or a new sign-in that failed leaves the live login as it was   *)
(* (AccountStore.switchTo, replaceCredential).                             *)
FailedLeavesLive ==
  [][work # Idle /\ work' = Idle /\ ~broken' => auth' = work.before \/ (active' = work.id /\ auth' = saved'[active'])]_vars

(* No login is lost but one taken for another: the latest tokens are kept, *)
(* and what failed is left.                                                *)
NoLoginLost == TokensKept /\ FailedLeavesLive

---------------------------------------------------------------------------
(* Why they hold, for any logins and bounds *)

NoneIsNone == None \notin Nat /\ None \notin [of : Login, grant : Nat, turn : Nat]

(* The credentials there may be, of the grants made. *)
Cred == {c \in [of : Login, grant : Nat, turn : Nat] : c.grant \in DOMAIN grants}

Change ==
  [kind : {"switch", "replace"}, id : DOMAIN saved, to : Cred, before : Cred \cup {None},
   stage : {"auth", "vault", "rollback"}]

(* The types of all of it. *)
Typed ==
  /\ \E n \in 0..GrantBound : grants \in [1..n -> Nat]
  /\ made \in Nat /\ DOMAIN saved \subseteq 1..made /\ saved \in [DOMAIN saved -> Cred]
  /\ auth \in Cred \cup {None} /\ active \in DOMAIN saved \cup {None}
  /\ work \in Change \cup {Idle} /\ broken \in BOOLEAN

(* The live login, or the one the change under way found. *)
Live == IF Free THEN auth ELSE work.before

Credentials == {saved[i] : i \in DOMAIN saved} \cup ({auth, Live} \ {None})

(* A grant is one login's. *)
OneLogin == \A c \in Credentials, d \in Credentials : c.grant = d.grant => c.of = d.of

(* A change goes from the login it found to the one it makes live.  One    *)
(* that switches has stored both before.                                   *)
UnderWay ==
  work # Idle =>
    /\ work.stage = "auth" => work.kind = "switch" /\ auth = work.before
    /\ work.stage # "auth" => auth = work.to
    /\ work.kind = "switch" => /\ saved[work.id] = work.to
                               /\ work.before # None => active # None /\ saved[active] = work.before
    /\ work.kind = "replace" => /\ work.id = active
                                /\ ~broken => \A i \in DOMAIN saved : saved[i].grant # work.to.grant
                                /\ work.before # None => work.before.grant # work.to.grant

(* The live login's grant is of the active account or of none, and its     *)
(* tokens are the latest or those stored.                                  *)
LiveRight ==
  ~broken /\ Live # None =>
    /\ \A i \in DOMAIN saved : saved[i].grant = Live.grant => i = active
    /\ Live.turn = grants[Live.grant] \/ (active # None /\ saved[active] = Live)

IInv == Typed /\ OneLogin /\ UnderWay /\ GrantOnce /\ LiveRight

BoundNatural == GrantBound \in Nat

(* A grant made is a new one, of its login. *)
LEMMA FreshIs ==
  ASSUME BoundNatural, Typed, GrantMade, NEW l \in Login
  PROVE  \E n \in Nat :
           /\ DOMAIN grants = 1..n /\ DOMAIN grants' = 1..(n + 1)
           /\ \A g \in 1..n : grants'[g] = grants[g]
           /\ grants'[n + 1] = 1
           /\ \E k \in 0..GrantBound : grants' \in [1..k -> Nat]
           /\ Cred \subseteq Cred' /\ Granted(l) \in Cred'
           /\ Granted(l) = [of |-> l, grant |-> n + 1, turn |-> 1]
           /\ \A c \in Cred : c.grant # n + 1
<1>1. PICK n \in 0..GrantBound : grants \in [1..n -> Nat]
  BY DEF Typed
<1>2. n \in Nat /\ GrantBound \in Nat /\ Cardinality(1..n) = n /\ DOMAIN grants = 1..n
  <2>1. n \in Nat /\ GrantBound \in Nat
    BY DEF BoundNatural
  <2> QED BY <1>1, <2>1, FS_Interval
<1>3. n < GrantBound /\ grants' = [g \in 1..(n + 1) |-> IF g \in 1..n THEN grants[g] ELSE 1]
  BY <1>2 DEF GrantMade
<1>4. /\ DOMAIN grants' = 1..(n + 1) /\ \A g \in 1..n : grants'[g] = grants[g]
      /\ grants'[n + 1] = 1 /\ n + 1 \in 0..GrantBound /\ grants' \in [1..(n + 1) -> Nat]
  BY <1>1, <1>2, <1>3
<1>5. Granted(l) = [of |-> l, grant |-> n + 1, turn |-> 1]
  BY <1>2 DEF Granted
<1>6. Cred \subseteq Cred' /\ Granted(l) \in Cred' /\ \A c \in Cred : c.grant # n + 1
  BY <1>2, <1>4, <1>5 DEF Cred
<1> QED BY <1>2, <1>4, <1>5, <1>6

(* The vault with c in account id. *)
LEMMA KeepingIs ==
  ASSUME NEW id, NEW c
  PROVE  /\ DOMAIN Keeping(id, c) = DOMAIN saved \cup {id} /\ Keeping(id, c)[id] = c
         /\ \A i \in DOMAIN saved \ {id} : Keeping(id, c)[i] = saved[i]
         /\ \A S : c \in S /\ saved \in [DOMAIN saved -> S] => Keeping(id, c) \in [DOMAIN saved \cup {id} -> S]
BY DEF Keeping

(* A change is never none. *)
LEMMA ChangeIs ==
  ASSUME Typed
  PROVE  /\ \A w \in Change : w # Idle
         /\ work # Idle => work \in Change
<1>1. \A w \in Change : w.kind # "none"
  BY DEF Change
<1>2. Idle.kind = "none"
  BY DEF Idle
<1> QED BY <1>1, <1>2 DEF Typed

(* Tokens that are of a grant there was, or of the one just made, leave    *)
(* each grant one login's.                                                 *)
LEMMA OneLoginKept ==
  ASSUME OneLogin, NEW new, NEW l,
         \A c \in Credentials' : \/ \E d \in Credentials : c.grant = d.grant /\ c.of = d.of
                                 \/ c.grant = new /\ c.of = l,
         \A d \in Credentials : d.grant # new
  PROVE  OneLogin'
BY DEF OneLogin

(* The same of the tokens there were. *)
LEMMA OneLoginFewer ==
  ASSUME OneLogin,
         \A c \in Credentials' : \E d \in Credentials : c.grant = d.grant /\ c.of = d.of
  PROVE  OneLogin'
BY DEF OneLogin

(* The account that takes the live login's tokens. *)
SavedAt == IF IsTracked(auth) THEN active ELSE made + 1

(* The live login's tokens in the account that is of it, or in a new one.  *)
LEMMA SavedIs ==
  ASSUME NoneIsNone, IInv, Free, auth # None, saved' = Keeping(SavedAt, auth),
         made' = IF IsTracked(auth) THEN made ELSE made + 1
  PROVE  /\ SavedAt # None /\ SavedAt \in DOMAIN saved' /\ saved'[SavedAt] = auth
         /\ made' \in Nat /\ DOMAIN saved' \subseteq 1..made' /\ saved' \in [DOMAIN saved' -> Cred]
         /\ \A i \in DOMAIN saved' : i = SavedAt \/ (i \in DOMAIN saved /\ saved'[i] = saved[i])
         /\ DOMAIN saved' = DOMAIN saved \cup {SavedAt}
         /\ ~broken => /\ \A i \in DOMAIN saved' : saved'[i].grant = auth.grant => i = SavedAt
                       /\ \A i, j \in DOMAIN saved' : i # j => saved'[i].grant # saved'[j].grant
<1> DEFINE k == SavedAt
<1>0. k = IF IsTracked(auth) THEN active ELSE made + 1
  BY DEF SavedAt
<1> HIDE DEF k
<1>1. /\ Typed /\ OneLogin /\ LiveRight /\ GrantOnce /\ auth \in Cred /\ Live = auth
      /\ made \in Nat /\ DOMAIN saved \subseteq 1..made /\ saved \in [DOMAIN saved -> Cred]
  BY DEF IInv, Typed, Live, Free
<1>2. /\ DOMAIN saved' = DOMAIN saved \cup {k} /\ saved'[k] = auth
      /\ \A i \in DOMAIN saved \ {k} : saved'[i] = saved[i]
      /\ saved' \in [DOMAIN saved \cup {k} -> Cred]
  <2>1. saved' = Keeping(k, auth)
    BY DEF k
  <2>2. DOMAIN Keeping(k, auth) = DOMAIN saved \cup {k} /\ Keeping(k, auth)[k] = auth
    BY KeepingIs
  <2>3. \A i \in DOMAIN saved \ {k} : Keeping(k, auth)[i] = saved[i]
    BY DEF Keeping
  <2>4. Keeping(k, auth) \in [DOMAIN saved \cup {k} -> Cred]
    BY <1>1, KeepingIs
  <2> QED BY <2>1, <2>2, <2>3, <2>4
<1>3. k \in 1..made' /\ made' \in Nat /\ 1..made \subseteq 1..made' /\ k # None
  BY <1>0, <1>1 DEF IsTracked, Typed, NoneIsNone
<1>4. \A i \in DOMAIN saved' : i = k \/ (i \in DOMAIN saved /\ saved'[i] = saved[i])
  BY <1>2
<1>5. saved' \in [DOMAIN saved' -> Cred]
  BY <1>2
<1>6. ASSUME ~broken, NEW i \in DOMAIN saved, i # k, saved[i].grant = auth.grant
      PROVE  FALSE
  <2>1. i = active /\ active # None
    BY <1>1, <1>6 DEF LiveRight, NoneIsNone
  <2>2. k = made + 1 /\ OtherLogin(saved[active], auth)
    BY <1>0, <2>1, <1>6 DEF IsTracked
  <2>3. saved[active].of = auth.of
    BY <2>1, <1>1, <1>6 DEF OneLogin, Credentials
  <2> QED BY <2>2, <2>3 DEF OtherLogin
<1>7. ASSUME ~broken, NEW i \in DOMAIN saved', saved'[i].grant = auth.grant
      PROVE  i = k
  BY <1>4, <1>6, <1>7
<1>8. ASSUME ~broken, NEW i \in DOMAIN saved', NEW j \in DOMAIN saved', i # j
      PROVE  saved'[i].grant # saved'[j].grant
  <2>1. CASE i = k \/ j = k
    BY <2>1, <1>2, <1>7, <1>8
  <2>2. CASE i # k /\ j # k
    BY <2>2, <1>1, <1>4, <1>8 DEF GrantOnce
  <2> QED BY <2>1, <2>2
<1>9. DOMAIN saved' \subseteq 1..made' /\ k \in DOMAIN saved'
  BY <1>1, <1>2, <1>3
<1> QED BY <1>2, <1>3, <1>4, <1>5, <1>7, <1>8, <1>9 DEF k

(* Between changes the live login is pi's. *)
LEMMA FreeIs ==
  ASSUME Free, work' = work
  PROVE  Live = auth /\ Live' = auth' /\ UnderWay' /\ work' = Idle
BY DEF Free, Live, UnderWay

(* pi refreshes the live login. *)
LEMMA RefreshIs == NoneIsNone /\ IInv /\ Refresh => IInv'
<1> SUFFICES ASSUME NoneIsNone, IInv, Refresh PROVE IInv'
  OBVIOUS
<1>1. /\ Typed /\ OneLogin /\ GrantOnce /\ LiveRight /\ Free /\ auth # None /\ auth \in Cred
      /\ work' = work /\ saved' = saved /\ active' = active /\ made' = made /\ broken' = broken
      /\ auth' = [auth EXCEPT !.turn = @ + 1] /\ grants' = [grants EXCEPT ![auth.grant] = @ + 1]
      /\ auth.turn = grants[auth.grant]
  BY DEF IInv, Refresh, Typed
<1>2. Live = auth /\ Live' = auth' /\ UnderWay' /\ work' = Idle
  BY <1>1, FreeIs
<1>3. PICK n \in 0..GrantBound : grants \in [1..n -> Nat]
  BY <1>1 DEF Typed
<1>4. /\ auth' = [of |-> auth.of, grant |-> auth.grant, turn |-> auth.turn + 1]
      /\ auth.of \in Login /\ auth.grant \in 1..n /\ auth.grant \in Nat /\ auth.turn \in Nat
  BY <1>1, <1>3 DEF Cred
<1>5. grants' \in [1..n -> Nat] /\ grants'[auth.grant] = auth.turn + 1
  BY <1>1, <1>3, <1>4
<1>6. Cred' = Cred /\ auth' \in Cred /\ auth'.of = auth.of /\ auth'.grant = auth.grant
      /\ auth'.turn = auth.turn + 1
  BY <1>3, <1>4, <1>5 DEF Cred
<1>7. Typed'
  BY <1>1, <1>2, <1>5, <1>6 DEF Typed
<1>8. OneLogin'
  <2>1. auth \in Credentials
    BY <1>1, <1>2 DEF Credentials
  <2>2. \A c \in Credentials' : c \in Credentials \/ c = auth'
    BY <1>1, <1>2 DEF Credentials
  <2>3. \A c \in Credentials' : \E d \in Credentials : c.grant = d.grant /\ c.of = d.of
    BY <1>6, <2>1, <2>2
  <2> QED BY <1>1, <2>3, OneLoginFewer
<1>9. GrantOnce'
  BY <1>1 DEF GrantOnce
<1>10. LiveRight'
  BY <1>1, <1>2, <1>5, <1>6 DEF LiveRight
<1> QED BY <1>2, <1>7, <1>8, <1>9, <1>10 DEF IInv

(* pi signs in, with a new grant. *)
LEMMA NativeLoginIs ==
  ASSUME BoundNatural, NoneIsNone, IInv, NEW l \in Login, NativeLogin(l)
  PROVE  IInv'
<1>1. /\ Typed /\ OneLogin /\ GrantOnce /\ Free /\ GrantMade /\ auth' = Granted(l)
      /\ work' = work /\ saved' = saved /\ active' = active /\ made' = made /\ broken' = broken
      /\ saved \in [DOMAIN saved -> Cred] /\ auth \in Cred \cup {None}
  BY DEF IInv, NativeLogin, Typed
<1>2. Live = auth /\ Live' = auth' /\ UnderWay' /\ work' = Idle
  BY <1>1, FreeIs
<1>3. PICK n \in Nat :
        /\ grants'[n + 1] = 1
        /\ \E k \in 0..GrantBound : grants' \in [1..k -> Nat]
        /\ Cred \subseteq Cred' /\ Granted(l) \in Cred'
        /\ Granted(l) = [of |-> l, grant |-> n + 1, turn |-> 1]
        /\ \A c \in Cred : c.grant # n + 1
  BY <1>1, FreshIs
<1>4. auth'.of = l /\ auth'.grant = n + 1 /\ auth'.turn = 1 /\ auth' \in Cred'
  BY <1>1, <1>3
<1>5. Typed'
  BY <1>1, <1>2, <1>3, <1>4 DEF Typed
<1>6. \A d \in Credentials : d \in Cred
  BY <1>1, <1>2 DEF Credentials
<1>7. OneLogin'
  <2>1. \A c \in Credentials' : c \in Credentials \/ c = auth'
    BY <1>1, <1>2 DEF Credentials
  <2> QED BY <1>1, <1>3, <1>4, <1>6, <2>1, OneLoginKept
<1>8. GrantOnce'
  BY <1>1 DEF GrantOnce
<1>9. LiveRight'
  BY <1>1, <1>2, <1>3, <1>4 DEF LiveRight
<1> QED BY <1>2, <1>5, <1>7, <1>8, <1>9 DEF IInv

LEMMA NativeLogoutIs == IInv /\ NativeLogout => IInv'
<1> SUFFICES ASSUME IInv, NativeLogout PROVE IInv'
  OBVIOUS
<1>1. /\ Typed /\ OneLogin /\ GrantOnce /\ Free /\ auth' = None
      /\ work' = work /\ saved' = saved /\ active' = active /\ made' = made /\ broken' = broken
      /\ grants' = grants
  BY DEF IInv, NativeLogout
<1>2. Live = auth /\ Live' = auth' /\ UnderWay' /\ work' = Idle
  BY <1>1, FreeIs
<1>3. Typed'
  BY <1>1, <1>2 DEF Typed, Cred
<1>4. OneLogin'
  BY <1>1, <1>2 DEF OneLogin, Credentials
<1>5. GrantOnce' /\ LiveRight'
  BY <1>1, <1>2 DEF GrantOnce, LiveRight
<1> QED BY <1>2, <1>3, <1>4, <1>5 DEF IInv

(* A new grant goes to an account that is not the live login's. *)
LEMMA FreshAccount ==
  ASSUME BoundNatural, NoneIsNone, IInv, Free, NEW l \in Login, GrantMade, NEW id \in Nat \ {0}, id # active,
         saved' = Keeping(id, Granted(l)), made' \in Nat, 1..made \cup {id} \subseteq 1..made',
         UNCHANGED <<auth, active, work, broken>>
  PROVE  IInv'
<1>1. /\ Typed /\ OneLogin /\ GrantOnce /\ LiveRight /\ auth' = auth
      /\ work' = work /\ active' = active /\ broken' = broken
      /\ saved \in [DOMAIN saved -> Cred] /\ auth \in Cred \cup {None}
      /\ DOMAIN saved \subseteq 1..made /\ active \in DOMAIN saved \cup {None}
  BY DEF IInv, Typed
<1>2. Live = auth /\ Live' = auth' /\ UnderWay' /\ work' = Idle
  BY <1>1, FreeIs
<1>3. PICK n \in Nat :
        /\ DOMAIN grants = 1..n /\ \A g \in 1..n : grants'[g] = grants[g]
        /\ \E k \in 0..GrantBound : grants' \in [1..k -> Nat]
        /\ Cred \subseteq Cred' /\ Granted(l) \in Cred'
        /\ Granted(l) = [of |-> l, grant |-> n + 1, turn |-> 1]
        /\ \A c \in Cred : c.grant # n + 1
  BY <1>1, FreshIs
<1>4. Granted(l).of = l /\ Granted(l).grant = n + 1
  BY <1>3
<1> DEFINE fresh == Granted(l)
<1> HIDE DEF fresh
<1>5. /\ DOMAIN saved' = DOMAIN saved \cup {id} /\ saved'[id] = fresh
      /\ saved' \in [DOMAIN saved \cup {id} -> Cred']
  <2>1. fresh \in Cred' /\ saved \in [DOMAIN saved -> Cred'] /\ saved' = Keeping(id, fresh)
    BY <1>1, <1>3 DEF fresh
  <2>2. DOMAIN saved' = DOMAIN saved \cup {id} /\ saved'[id] = fresh
    BY <2>1 DEF Keeping
  <2>3. saved' \in [DOMAIN saved \cup {id} -> Cred']
    BY <2>1 DEF Keeping
  <2> QED BY <2>2, <2>3
<1>6. \A i \in DOMAIN saved \ {id} : saved'[i] = saved[i]
  BY DEF Keeping
<1>7. /\ fresh.of = l /\ fresh.grant = n + 1
      /\ \A i \in DOMAIN saved : saved[i] \in Cred /\ saved[i].grant # fresh.grant
      /\ auth # None => auth.grant # fresh.grant /\ auth.grant \in 1..n
  BY <1>1, <1>3, <1>4 DEF fresh, Cred
<1>8. Typed'
  <2>1. DOMAIN saved' \subseteq 1..made' /\ saved' \in [DOMAIN saved' -> Cred']
    BY <1>1, <1>5
  <2>2. active' \in DOMAIN saved' \cup {None} /\ auth' \in Cred' \cup {None}
    BY <1>1, <1>3, <1>5
  <2> QED BY <1>1, <1>2, <1>3, <2>1, <2>2 DEF Typed
<1>9. OneLogin'
  <2>1. \A c \in Credentials' : c \in Credentials \/ c = fresh
    BY <1>1, <1>2, <1>5, <1>6 DEF Credentials
  <2>2. \A d \in Credentials : d.grant # fresh.grant
    BY <1>2, <1>7 DEF Credentials
  <2> QED BY <1>1, <2>1, <2>2, OneLoginKept
<1>10. GrantOnce'
  <2> SUFFICES ASSUME ~broken, NEW i \in DOMAIN saved', NEW j \in DOMAIN saved', i # j
               PROVE  saved'[i].grant # saved'[j].grant
    BY <1>1 DEF GrantOnce
  <2>1. CASE i # id /\ j # id
    BY <2>1, <1>1, <1>5, <1>6 DEF GrantOnce
  <2>2. CASE i = id \/ j = id
    BY <2>2, <1>5, <1>6, <1>7
  <2> QED BY <2>1, <2>2
<1>11. LiveRight'
  <2> SUFFICES ASSUME ~broken, auth # None
               PROVE  /\ \A i \in DOMAIN saved' : saved'[i].grant = auth.grant => i = active
                      /\ auth.turn = grants'[auth.grant] \/ (active # None /\ saved'[active] = auth)
    BY <1>1, <1>2 DEF LiveRight
  <2>1. \A i \in DOMAIN saved : saved[i].grant = auth.grant => i = active
    BY <1>1, <1>2 DEF LiveRight
  <2>2. \A i \in DOMAIN saved' : saved'[i].grant = auth.grant => i = active
    BY <2>1, <1>5, <1>6, <1>7
  <2>3. auth.turn = grants[auth.grant] \/ (active # None /\ saved[active] = auth)
    BY <1>1, <1>2 DEF LiveRight
  <2>4. active # None => saved'[active] = saved[active]
    BY <1>1, <1>6
  <2> QED BY <2>2, <2>3, <2>4, <1>3, <1>7
<1> QED BY <1>2, <1>8, <1>9, <1>10, <1>11 DEF IInv

LEMMA AddIs ==
  ASSUME BoundNatural, NoneIsNone, IInv, NEW l \in Login, Add(l)
  PROVE  IInv'
<1>1. /\ made \in Nat /\ made' = made + 1 /\ active \in 1..made \cup {None} /\ saved' = Keeping(made + 1, Granted(l))
      /\ Free /\ GrantMade /\ UNCHANGED <<auth, active, work, broken>>
  BY DEF Add, IInv, Typed
<1>2. made + 1 \in Nat \ {0} /\ made + 1 # active /\ 1..made \cup {made + 1} \subseteq 1..made' /\ made' \in Nat
  BY <1>1 DEF NoneIsNone
<1> QED BY <1>1, <1>2, FreshAccount

LEMMA ReplaceInVaultIs ==
  ASSUME BoundNatural, NoneIsNone, IInv, NEW id, NEW l \in Login, ReplaceInVault(id, l)
  PROVE  IInv'
<1>1. /\ id \in 1..made /\ made \in Nat /\ made' = made /\ id # active
      /\ saved' = Keeping(id, Granted(l))
      /\ Free /\ GrantMade /\ UNCHANGED <<auth, active, work, broken>>
  BY DEF ReplaceInVault, IInv, Typed
<1> QED BY <1>1, FreshAccount

(* The live login's tokens are saved. *)
LEMMA SaveCurrentIs == NoneIsNone /\ IInv /\ SaveCurrent => IInv'
<1> SUFFICES ASSUME NoneIsNone, IInv, SaveCurrent PROVE IInv'
  OBVIOUS
<1> DEFINE k == SavedAt
<1>1. /\ Typed /\ OneLogin /\ Free /\ auth # None /\ saved' = Keeping(k, auth) /\ active' = k
      /\ made' = (IF IsTracked(auth) THEN made ELSE made + 1)
      /\ auth' = auth /\ grants' = grants /\ work' = work /\ broken' = broken /\ auth \in Cred
  BY DEF IInv, SaveCurrent, Typed, SavedAt
<1> HIDE DEF k
<1>3. Live = auth /\ Live' = auth' /\ UnderWay' /\ work' = Idle
  BY <1>1, FreeIs
<1>4. /\ k # None /\ k \in DOMAIN saved' /\ saved'[k] = auth
      /\ made' \in Nat /\ DOMAIN saved' \subseteq 1..made' /\ saved' \in [DOMAIN saved' -> Cred]
      /\ \A i \in DOMAIN saved' : i = k \/ (i \in DOMAIN saved /\ saved'[i] = saved[i])
      /\ ~broken => /\ \A i \in DOMAIN saved' : saved'[i].grant = auth.grant => i = k
                    /\ \A i, j \in DOMAIN saved' : i # j => saved'[i].grant # saved'[j].grant
  <2>1. Free /\ auth # None
    BY <1>1
  <2>2. saved' = Keeping(SavedAt, auth)
    BY <1>1 DEF k
  <2>3. made' = IF IsTracked(auth) THEN made ELSE made + 1
    BY <1>1
  <2> QED BY <2>1, <2>2, <2>3, SavedIs DEF k
<1>5. Cred' = Cred
  BY <1>1 DEF Cred
<1>6. Typed'
  BY <1>1, <1>3, <1>4, <1>5 DEF Typed
<1>7. OneLogin'
  <2>1. \A c \in Credentials' : c \in Credentials
    BY <1>1, <1>3, <1>4 DEF Credentials
  <2> QED BY <1>1, <2>1, OneLoginFewer
<1>8. GrantOnce' /\ LiveRight'
  BY <1>1, <1>3, <1>4 DEF GrantOnce, LiveRight
<1> QED BY <1>3, <1>6, <1>7, <1>8 DEF IInv

(* An account that is not the live login's goes. *)
LEMMA RemoveIs ==
  ASSUME IInv, NEW id, Remove(id)
  PROVE  IInv'
<1>1. /\ Typed /\ OneLogin /\ GrantOnce /\ LiveRight /\ Free /\ id # active
      /\ saved' = [i \in DOMAIN saved \ {id} |-> saved[i]]
      /\ auth' = auth /\ grants' = grants /\ work' = work /\ broken' = broken
      /\ active' = active /\ made' = made
      /\ saved \in [DOMAIN saved -> Cred] /\ DOMAIN saved \subseteq 1..made
  BY DEF IInv, Remove, Restrict, Typed
<1>2. Live = auth /\ Live' = auth' /\ UnderWay' /\ work' = Idle
  BY <1>1, FreeIs
<1>3. /\ DOMAIN saved' = DOMAIN saved \ {id} /\ \A i \in DOMAIN saved \ {id} : saved'[i] = saved[i]
      /\ saved' \in [DOMAIN saved' -> Cred] /\ Cred' = Cred
  BY <1>1 DEF Cred
<1>4. Typed'
  BY <1>1, <1>2, <1>3 DEF Typed
<1>5. OneLogin'
  <2>1. \A c \in Credentials' : c \in Credentials
    BY <1>1, <1>2, <1>3 DEF Credentials
  <2> QED BY <1>1, <2>1, OneLoginFewer
<1>6. GrantOnce' /\ LiveRight'
  <2>1. active \in DOMAIN saved \cup {None}
    BY <1>1 DEF Typed
  <2>2. GrantOnce'
    BY <1>1, <1>3 DEF GrantOnce
  <2>3. LiveRight'
    BY <1>1, <1>2, <1>3, <2>1 DEF LiveRight
  <2> QED BY <2>2, <2>3
<1> QED BY <1>2, <1>4, <1>5, <1>6 DEF IInv

(* A change that begins, as a record. *)
LEMMA ChangeBegins ==
  ASSUME NEW kind \in {"switch", "replace"}, NEW id \in DOMAIN saved', NEW to \in Cred',
         NEW before \in Cred' \cup {None}, NEW stage \in {"auth", "vault", "rollback"},
         work' = [kind |-> kind, id |-> id, to |-> to, before |-> before, stage |-> stage]
  PROVE  /\ work' \in Change' /\ work' # Idle /\ Live' = before
         /\ work'.kind = kind /\ work'.id = id /\ work'.to = to /\ work'.before = before
         /\ work'.stage = stage
<1>1. /\ work'.kind = kind /\ work'.id = id /\ work'.to = to /\ work'.before = before
      /\ work'.stage = stage
  OBVIOUS
<1>2. work' \in Change'
  BY DEF Change
<1>3. Idle.kind = "none"
  BY DEF Idle
<1>4. work' # Idle
  BY <1>1, <1>3
<1> QED BY <1>1, <1>2, <1>4 DEF Live, Free, Idle

(* A change that goes on to another stage. *)
LEMMA StageIs ==
  ASSUME work \in Change, NEW s \in {"auth", "vault", "rollback"}, work' = [work EXCEPT !.stage = s],
         work.id \in DOMAIN saved', work.to \in Cred', work.before \in Cred' \cup {None}
  PROVE  /\ work' \in Change' /\ work' # Idle /\ Live' = work.before
         /\ work'.kind = work.kind /\ work'.id = work.id /\ work'.to = work.to
         /\ work'.before = work.before /\ work'.stage = s
<1>1. /\ work'.kind = work.kind /\ work'.id = work.id /\ work'.to = work.to
      /\ work'.before = work.before /\ work'.stage = s
  BY DEF Change
<1>2. work' = [kind |-> work.kind, id |-> work.id, to |-> work.to, before |-> work.before, stage |-> s]
  BY DEF Change
<1>3. work.kind \in {"switch", "replace"}
  BY DEF Change
<1>4. work' \in Change'
  BY <1>2, <1>3 DEF Change
<1>5. work' # Idle
  BY <1>1, <1>3 DEF Idle
<1> QED BY <1>1, <1>4, <1>5 DEF Live, Free

(* A switch stores the live login first, and so has both. *)
LEMMA SwitchStartsIs ==
  ASSUME NoneIsNone, IInv, NEW id, SwitchStarts(id)
  PROVE  IInv'
<1>1. /\ Typed /\ OneLogin /\ GrantOnce /\ LiveRight /\ Free /\ id \in DOMAIN saved
      /\ saved' = Snapshot(auth) /\ auth' = auth /\ grants' = grants /\ broken' = broken
      /\ work' = [kind |-> "switch", id |-> id, to |-> saved'[id], before |-> auth, stage |-> "auth"]
      /\ auth \in Cred \cup {None} /\ saved \in [DOMAIN saved -> Cred] /\ Live = auth
      /\ made \in Nat /\ DOMAIN saved \subseteq 1..made /\ active \in DOMAIN saved \cup {None}
      /\ broken \in BOOLEAN
  BY DEF IInv, SwitchStarts, Typed, Live, Free
<1>2. Cred' = Cred
  BY <1>1 DEF Cred
<1>3. /\ made' \in Nat /\ DOMAIN saved' \subseteq 1..made' /\ saved' \in [DOMAIN saved' -> Cred]
      /\ DOMAIN saved \subseteq DOMAIN saved' /\ active' \in DOMAIN saved' \cup {None}
      /\ \A i \in DOMAIN saved' : saved'[i] \in {saved[j] : j \in DOMAIN saved} \cup ({auth} \ {None})
      /\ auth # None => active' # None /\ saved'[active'] = auth
      /\ ~broken => /\ \A i \in DOMAIN saved' : auth # None /\ saved'[i].grant = auth.grant => i = active'
                    /\ \A i, j \in DOMAIN saved' : i # j => saved'[i].grant # saved'[j].grant
  <2>1. CASE auth = None
    <3>1. saved' = saved /\ active' = active /\ made' = made
      BY <2>1, <1>1 DEF SwitchStarts, Snapshot, Unsaved
    <3> QED BY <2>1, <3>1, <1>1 DEF GrantOnce
  <2>2. CASE auth # None
    <3>1. saved' = Keeping(SavedAt, auth)
      BY <2>2, <1>1 DEF Snapshot, Unsaved, SavedAt
    <3>2. made' = IF IsTracked(auth) THEN made ELSE made + 1
      BY <2>2 DEF SwitchStarts, Unsaved
    <3>3. active' = SavedAt
      BY <2>2, <3>2 DEF SwitchStarts, Unsaved, SavedAt
    <3>4. /\ SavedAt # None /\ SavedAt \in DOMAIN saved' /\ saved'[SavedAt] = auth
          /\ made' \in Nat /\ DOMAIN saved' \subseteq 1..made' /\ saved' \in [DOMAIN saved' -> Cred]
          /\ \A i \in DOMAIN saved' : i = SavedAt \/ (i \in DOMAIN saved /\ saved'[i] = saved[i])
          /\ DOMAIN saved' = DOMAIN saved \cup {SavedAt}
          /\ ~broken => /\ \A i \in DOMAIN saved' : saved'[i].grant = auth.grant => i = SavedAt
                        /\ \A i, j \in DOMAIN saved' : i # j => saved'[i].grant # saved'[j].grant
      BY <2>2, <1>1, <3>1, <3>2, SavedIs
    <3> QED BY <2>2, <3>3, <3>4, <1>1
  <2> QED BY <2>1, <2>2
<1>4. id \in DOMAIN saved' /\ saved'[id] \in Cred' /\ auth \in Cred' \cup {None}
  BY <1>1, <1>2, <1>3
<1>5. /\ work' \in Change' /\ work' # Idle /\ Live' = auth
      /\ work'.kind = "switch" /\ work'.id = id /\ work'.to = saved'[id] /\ work'.before = auth
      /\ work'.stage = "auth"
  <2>1. /\ "switch" \in {"switch", "replace"} /\ "auth" \in {"auth", "vault", "rollback"}
    OBVIOUS
  <2> QED BY <1>1, <1>4, <2>1, ChangeBegins
<1>6. Typed'
  BY <1>1, <1>2, <1>3, <1>5 DEF Typed
<1>7. OneLogin'
  <2>1. \A c \in Credentials' : c \in Credentials
    BY <1>1, <1>3, <1>5 DEF Credentials
  <2> QED BY <1>1, <2>1, OneLoginFewer
<1>8. UnderWay'
  BY <1>1, <1>3, <1>5 DEF UnderWay
<1>9. GrantOnce' /\ LiveRight'
  BY <1>1, <1>3, <1>5 DEF GrantOnce, LiveRight
<1> QED BY <1>6, <1>7, <1>8, <1>9 DEF IInv

(* What leaves the accounts alone, and what a change found. *)
LEMMA SavedKept ==
  ASSUME Typed, OneLogin, GrantOnce, LiveRight, saved' = saved, active' = active, grants' = grants,
         made' = made, broken' \in BOOLEAN, broken => broken',
         work' \in Change' \cup {Idle}, auth' \in Cred \cup {None},
         \A c \in {auth', Live'} : c = None \/ c \in Credentials,
         ~broken' => Live' = Live
  PROVE  Typed' /\ OneLogin' /\ GrantOnce' /\ LiveRight'
<1>1. Cred' = Cred
  BY DEF Cred
<1>2. Typed'
  BY <1>1 DEF Typed
<1>3. OneLogin'
  <2>1. \A c \in Credentials' : c \in Credentials
    BY DEF Credentials
  <2> QED BY <2>1, OneLoginFewer
<1>4. GrantOnce' /\ LiveRight'
  BY DEF GrantOnce, LiveRight
<1> QED BY <1>2, <1>3, <1>4

(* The live login becomes the one switched to. *)
LEMMA WritesAuthIs == IInv /\ WritesAuth => IInv'
<1> SUFFICES ASSUME IInv, WritesAuth PROVE IInv'
  OBVIOUS
<1>1. /\ Typed /\ OneLogin /\ GrantOnce /\ LiveRight /\ UnderWay
      /\ work.kind = "switch" /\ work.stage = "auth"
      /\ saved' = saved /\ active' = active /\ grants' = grants /\ made' = made /\ broken' = broken
      /\ broken \in BOOLEAN
  BY DEF IInv, WritesAuth, Typed
<1>2. work # Idle
  BY <1>1 DEF Idle
<1>3. /\ work \in Change /\ work.to \in Cred /\ work.id \in DOMAIN saved
      /\ work.before \in Cred \cup {None} /\ saved[work.id] = work.to /\ auth = work.before
      /\ work.before # None => active # None /\ saved[active] = work.before
      /\ Live = work.before /\ auth \in Cred \cup {None} /\ Cred' = Cred
  BY <1>1, <1>2, ChangeIs DEF Change, UnderWay, Live, Free, Typed, Cred
<1>4. CASE work' = Idle /\ auth' = auth
  <2>1. Live' = auth'
    BY <1>4 DEF Live, Free
  <2>2. \A c \in {auth', Live'} : c = None \/ c \in Credentials
    BY <1>3, <1>4, <2>1 DEF Credentials
  <2>3. Typed' /\ OneLogin' /\ GrantOnce' /\ LiveRight'
    BY <1>1, <1>3, <1>4, <2>1, <2>2, SavedKept
  <2> QED BY <1>4, <2>3 DEF IInv, UnderWay
<1>5. CASE auth' = work.to /\ work' = [work EXCEPT !.stage = "vault"]
  <2>1. /\ work' \in Change' /\ work' # Idle /\ Live' = work.before
        /\ work'.kind = "switch" /\ work'.id = work.id /\ work'.to = work.to /\ work'.before = work.before
        /\ work'.stage = "vault"
    <3>1. /\ work \in Change /\ "vault" \in {"auth", "vault", "rollback"}
          /\ work.id \in DOMAIN saved' /\ work.to \in Cred' /\ work.before \in Cred' \cup {None}
      BY <1>1, <1>3
    <3> QED BY <1>1, <1>5, <3>1, StageIs
  <2>2. \A c \in {auth', Live'} : c = None \/ c \in Credentials
    BY <1>3, <1>5, <2>1 DEF Credentials
  <2>3. Typed' /\ OneLogin' /\ GrantOnce' /\ LiveRight'
    BY <1>1, <1>3, <1>5, <2>1, <2>2, SavedKept
  <2>4. UnderWay'
    BY <1>1, <1>3, <1>5, <2>1 DEF UnderWay
  <2> QED BY <2>3, <2>4 DEF IInv
<1> QED BY <1>4, <1>5 DEF WritesAuth

(* A new sign-in for the live account: its grant is not stored yet. *)
LEMMA ReplaceStartsIs ==
  ASSUME BoundNatural, NoneIsNone, IInv, NEW id \in Id, NEW l \in Login, ReplaceStarts(id, l)
  PROVE  IInv'
<1>1. /\ Typed /\ OneLogin /\ GrantOnce /\ LiveRight /\ Free /\ GrantMade /\ id = active
      /\ auth' = Granted(l)
      /\ work' = [kind |-> "replace", id |-> id, to |-> auth', before |-> auth, stage |-> "vault"]
      /\ saved' = saved /\ active' = active /\ made' = made /\ broken' = broken
      /\ saved \in [DOMAIN saved -> Cred] /\ auth \in Cred \cup {None} /\ Live = auth
  BY DEF IInv, ReplaceStarts, Typed, Live, Free
<1>2. PICK n \in Nat :
        /\ DOMAIN grants = 1..n /\ \A g \in 1..n : grants'[g] = grants[g]
        /\ \E k \in 0..GrantBound : grants' \in [1..k -> Nat]
        /\ Cred \subseteq Cred' /\ Granted(l) \in Cred'
        /\ Granted(l) = [of |-> l, grant |-> n + 1, turn |-> 1]
        /\ \A c \in Cred : c.grant # n + 1
  BY <1>1, FreshIs
<1>3. auth'.of = l /\ auth'.grant = n + 1 /\ auth' \in Cred'
  BY <1>1, <1>2
<1>4. id \in DOMAIN saved
  <2>1. id # None
    BY DEF NoneIsNone, Id
  <2> QED BY <1>1, <2>1 DEF Typed
<1>5. /\ work' \in Change' /\ work' # Idle /\ Live' = auth
      /\ work'.kind = "replace" /\ work'.id = id /\ work'.to = auth' /\ work'.before = auth
      /\ work'.stage = "vault"
  <2>1. /\ "replace" \in {"switch", "replace"} /\ "vault" \in {"auth", "vault", "rollback"}
        /\ id \in DOMAIN saved' /\ auth \in Cred' \cup {None}
    BY <1>1, <1>2, <1>4
  <2>2. Granted(l) \in Cred'
        /\ work' = [kind |-> "replace", id |-> id, to |-> Granted(l), before |-> auth, stage |-> "vault"]
    BY <1>1, <1>2
  <2>3. /\ work' \in Change' /\ work' # Idle /\ Live' = auth
        /\ work'.kind = "replace" /\ work'.id = id /\ work'.to = Granted(l) /\ work'.before = auth
        /\ work'.stage = "vault"
    BY <2>1, <2>2, ChangeBegins
  <2> QED BY <1>1, <2>3
<1>6. Typed'
  BY <1>1, <1>2, <1>3, <1>5 DEF Typed
<1>7. /\ \A i \in DOMAIN saved : saved[i].grant # n + 1
      /\ auth # None => auth.grant # n + 1 /\ auth.grant \in 1..n
  BY <1>1, <1>2 DEF Cred
<1>8. OneLogin'
  <2>1. \A c \in Credentials' : c \in Credentials \/ c = auth'
    BY <1>1, <1>5 DEF Credentials
  <2>2. \A d \in Credentials : d.grant # n + 1
    BY <1>1, <1>7 DEF Credentials
  <2> QED BY <1>1, <1>3, <2>1, <2>2, OneLoginKept
<1>9. UnderWay'
  BY <1>1, <1>3, <1>5, <1>7 DEF UnderWay
<1>10. GrantOnce' /\ LiveRight'
  BY <1>1, <1>2, <1>5, <1>7 DEF GrantOnce, LiveRight
<1> QED BY <1>6, <1>8, <1>9, <1>10 DEF IInv

(* The vault is written: the change is over, or to be put back. *)
LEMMA WritesVaultIs == NoneIsNone /\ IInv /\ WritesVault => IInv'
<1> SUFFICES ASSUME NoneIsNone, IInv, WritesVault PROVE IInv'
  OBVIOUS
<1>1. /\ Typed /\ OneLogin /\ GrantOnce /\ LiveRight /\ UnderWay
      /\ work # Idle /\ work.stage = "vault"
      /\ auth' = auth /\ grants' = grants /\ made' = made /\ broken' = broken
      /\ broken \in BOOLEAN /\ made \in Nat /\ DOMAIN saved \subseteq 1..made
      /\ saved \in [DOMAIN saved -> Cred]
  BY DEF IInv, WritesVault, Typed
<1>2. /\ work \in Change /\ work.kind \in {"switch", "replace"}
      /\ work.to \in Cred /\ work.id \in DOMAIN saved
      /\ work.before \in Cred \cup {None} /\ auth = work.to
      /\ Live = work.before /\ Cred' = Cred
  BY <1>1, ChangeIs DEF Change, UnderWay, Live, Free, Typed, Cred
<1>a. work.to # None /\ work.id # None
  BY <1>1, <1>2 DEF NoneIsNone, Cred
<1>3. CASE saved' = Keeping(work.id, work.to) /\ active' = work.id /\ work' = Idle
  <2>1. /\ DOMAIN saved' = DOMAIN saved /\ saved'[work.id] = work.to
        /\ \A i \in DOMAIN saved \ {work.id} : saved'[i] = saved[i]
        /\ saved' \in [DOMAIN saved' -> Cred]
    <3>1. DOMAIN saved \cup {work.id} = DOMAIN saved
      BY <1>2
    <3> QED BY <1>1, <1>2, <1>3, <3>1 DEF Keeping
  <2>2. Live' = auth' /\ UnderWay'
    BY <1>3, FreeIs DEF Live, Free, UnderWay
  <2>3. Typed'
    BY <1>1, <1>2, <1>3, <2>1 DEF Typed
  <2>4. OneLogin'
    <3>1. \A c \in Credentials' : c \in Credentials
      BY <1>1, <1>2, <1>a, <1>3, <2>1, <2>2 DEF Credentials
    <3> QED BY <1>1, <3>1, OneLoginFewer
  <2>5. ~broken => \A i \in DOMAIN saved \ {work.id} : saved[i].grant # work.to.grant
    BY <1>1, <1>2 DEF UnderWay, GrantOnce
  <2>6. GrantOnce'
    <3> SUFFICES ASSUME ~broken, NEW i \in DOMAIN saved, NEW j \in DOMAIN saved, i # j
                 PROVE  saved'[i].grant # saved'[j].grant
      BY <1>1, <2>1 DEF GrantOnce
    <3>1. CASE i # work.id /\ j # work.id
      BY <3>1, <1>1, <2>1 DEF GrantOnce
    <3>2. CASE i = work.id \/ j = work.id
      BY <3>2, <1>2, <2>1, <2>5
    <3> QED BY <3>1, <3>2
  <2>7. LiveRight'
    BY <1>1, <1>2, <1>a, <1>3, <2>1, <2>2, <2>5 DEF LiveRight
  <2> QED BY <2>2, <2>3, <2>4, <2>6, <2>7 DEF IInv
<1>4. CASE work' = [work EXCEPT !.stage = "rollback"] /\ saved' = saved /\ active' = active
  <2>1. /\ work' \in Change' /\ work' # Idle /\ Live' = work.before
        /\ work'.kind = work.kind /\ work'.id = work.id /\ work'.to = work.to /\ work'.before = work.before
        /\ work'.stage = "rollback"
    <3>1. /\ work \in Change /\ "rollback" \in {"auth", "vault", "rollback"}
          /\ work.id \in DOMAIN saved' /\ work.to \in Cred' /\ work.before \in Cred' \cup {None}
      BY <1>2, <1>4
    <3> QED BY <1>4, <3>1, StageIs
  <2>2. \A c \in {auth', Live'} : c = None \/ c \in Credentials
    BY <1>1, <1>2, <2>1 DEF Credentials
  <2>3. Typed' /\ OneLogin' /\ GrantOnce' /\ LiveRight'
    BY <1>1, <1>2, <1>4, <2>1, <2>2, SavedKept DEF Typed
  <2>4. UnderWay'
    BY <1>1, <1>2, <1>4, <2>1 DEF UnderWay
  <2> QED BY <2>3, <2>4 DEF IInv
<1> QED BY <1>3, <1>4 DEF WritesVault

(* A change that ends without the vault: what it found is live again, or   *)
(* it was cut short.                                                       *)
LEMMA LeavesIs ==
  ASSUME IInv, work # Idle, work' = Idle, saved' = saved, active' = active, grants' = grants,
         made' = made, broken' \in BOOLEAN, broken => broken', auth' \in {auth, work.before},
         ~broken' => auth' = work.before
  PROVE  IInv'
<1>1. /\ Typed /\ OneLogin /\ GrantOnce /\ LiveRight /\ Live = work.before /\ auth \in Cred \cup {None}
      /\ work.before \in Cred \cup {None}
  BY ChangeIs DEF IInv, Typed, Live, Free, Change
<1>2. Live' = auth' /\ UnderWay'
  BY DEF Live, Free, UnderWay
<1>3. \A c \in {auth', Live'} : c = None \/ c \in Credentials
  BY <1>1, <1>2 DEF Credentials
<1>4. Typed' /\ OneLogin' /\ GrantOnce' /\ LiveRight'
  <2>1. work' \in Change' \cup {Idle} /\ auth' \in Cred \cup {None} /\ (~broken' => Live' = Live)
    BY <1>1, <1>2
  <2> QED BY <1>1, <1>3, <2>1, SavedKept
<1> QED BY <1>2, <1>4 DEF IInv

(* The live login is put back, or that fails as well. *)
LEMMA RollsBackIs == IInv /\ RollsBack => IInv'
<1> SUFFICES ASSUME IInv, RollsBack PROVE IInv'
  OBVIOUS
<1>1. broken \in BOOLEAN
  BY DEF IInv, Typed
<1>2. /\ work # Idle /\ work' = Idle /\ saved' = saved /\ active' = active /\ grants' = grants
      /\ made' = made
  BY DEF RollsBack
<1>3. CASE auth' = PutBack /\ UNCHANGED broken
  BY <1>1, <1>2, <1>3, LeavesIs DEF PutBack
<1>4. CASE broken' = TRUE /\ UNCHANGED auth
  BY <1>2, <1>4, LeavesIs
<1> QED BY <1>3, <1>4 DEF RollsBack

(* pi dies: unless nothing was written, between two files. *)
LEMMA DiesIs == IInv /\ Dies => IInv'
<1> SUFFICES ASSUME IInv, Dies PROVE IInv'
  OBVIOUS
<1>1. broken \in BOOLEAN /\ (work.stage = "auth" => auth = work.before)
  BY DEF IInv, Typed, UnderWay, Dies
<1> QED BY <1>1, LeavesIs DEF Dies, fileVars

LEMMA InitIs == BoundNatural /\ Init => IInv
<1> SUFFICES ASSUME BoundNatural, Init PROVE IInv
  OBVIOUS
<1>1. /\ auth = None /\ saved = << >> /\ active = None /\ grants = << >> /\ made = 0
      /\ work = Idle /\ broken = FALSE /\ GrantBound \in Nat
  BY DEF Init, BoundNatural
<1>2. DOMAIN saved = {} /\ saved \in [DOMAIN saved -> Cred]
  BY <1>1
<1>3. grants \in [1..0 -> Nat] /\ 0 \in 0..GrantBound
  BY <1>1
<1>4. Typed
  BY <1>1, <1>2, <1>3 DEF Typed
<1>5. Live = None /\ Credentials = {}
  BY <1>1, <1>2 DEF Live, Free, Credentials
<1> QED BY <1>1, <1>2, <1>4, <1>5 DEF IInv, OneLogin, UnderWay, GrantOnce, LiveRight

LEMMA NextIs == BoundNatural /\ NoneIsNone /\ IInv /\ [Next]_vars => IInv'
<1> SUFFICES ASSUME BoundNatural, NoneIsNone, IInv, [Next]_vars PROVE IInv'
  OBVIOUS
<1>1. CASE Refresh
  BY <1>1, RefreshIs
<1>2. CASE NativeLogout
  BY <1>2, NativeLogoutIs
<1>3. CASE SaveCurrent
  BY <1>3, SaveCurrentIs
<1>4. CASE \E l \in Login : NativeLogin(l) \/ Add(l)
  BY <1>4, NativeLoginIs, AddIs
<1>5. CASE \E id \in Id : Remove(id) \/ SwitchStarts(id)
  BY <1>5, RemoveIs, SwitchStartsIs
<1>6. CASE \E id \in Id, l \in Login : ReplaceInVault(id, l) \/ ReplaceStarts(id, l)
  BY <1>6, ReplaceInVaultIs, ReplaceStartsIs
<1>7. CASE WritesAuth
  BY <1>7, WritesAuthIs
<1>8. CASE WritesVault
  BY <1>8, WritesVaultIs
<1>9. CASE RollsBack
  BY <1>9, RollsBackIs
<1>10. CASE Dies
  BY <1>10, DiesIs
<1>11. CASE UNCHANGED vars
  BY <1>11 DEF vars, fileVars, IInv, Typed, OneLogin, UnderWay, GrantOnce, LiveRight, Live, Free,
                Credentials, Cred, Change
<1> QED BY <1>1, <1>2, <1>3, <1>4, <1>5, <1>6, <1>7, <1>8, <1>9, <1>10, <1>11 DEF Next

(* However switches, saves, new sign-ins, their failures and crashes, and  *)
(* pi's own changes follow one another, no grant is in two accounts before *)
(* a first crash between two files: for any logins and bounds.             *)
THEOREM AlwaysGrantOnce == BoundNatural /\ NoneIsNone => (Spec => [](Typed /\ GrantOnce))
<1> SUFFICES ASSUME BoundNatural, NoneIsNone PROVE Spec => [](Typed /\ GrantOnce)
  OBVIOUS
<1>1. Init => IInv
  BY InitIs
<1>2. IInv /\ [Next]_vars => IInv'
  BY NextIs
<1>3. IInv => Typed /\ GrantOnce
  BY DEF IInv
<1> QED BY <1>1, <1>2, <1>3, PTL DEF Spec

(* What a change that ends without being cut short leaves live.            *)
LEMMA EndsIs ==
  ASSUME NoneIsNone, IInv, [Next]_vars, work # Idle, work' = Idle, ~broken'
  PROVE  auth' = work.before \/ (active' = work.id /\ auth' = saved'[active'])
<1>1. ~Free /\ Typed /\ UnderWay
  BY DEF Free, IInv
<1>2. WritesAuth \/ WritesVault \/ RollsBack \/ Dies
  BY <1>1 DEF Next, vars, Refresh, NativeLogout, SaveCurrent, NativeLogin, Add, Remove, SwitchStarts,
              ReplaceInVault, ReplaceStarts
<1>3. work \in Change /\ \A s \in {"auth", "vault", "rollback"} : [work EXCEPT !.stage = s] # Idle
  <2>1. work \in Change
    BY <1>1, ChangeIs
  <2>2. \A s \in {"auth", "vault", "rollback"} : [work EXCEPT !.stage = s].kind = work.kind
    BY <2>1 DEF Change
  <2>3. work.kind # "none" /\ Idle.kind = "none"
    BY <2>1 DEF Change, Idle
  <2> QED BY <2>1, <2>2, <2>3
<1>4. CASE WritesAuth
  BY <1>1, <1>3, <1>4 DEF WritesAuth, UnderWay
<1>5. CASE WritesVault
  <2>1. saved' = Keeping(work.id, work.to) /\ active' = work.id /\ auth' = auth /\ work.stage = "vault"
    BY <1>3, <1>5 DEF WritesVault
  <2>2. auth = work.to /\ saved'[work.id] = work.to
    BY <1>1, <2>1 DEF UnderWay, Keeping
  <2> QED BY <2>1, <2>2
<1>6. CASE RollsBack
  BY <1>6 DEF RollsBack, PutBack
<1>7. CASE Dies
  BY <1>1, <1>7 DEF Dies, fileVars, UnderWay
<1> QED BY <1>2, <1>4, <1>5, <1>6, <1>7

(* However its writes fail, a switch or a new sign-in that was not cut     *)
(* short leaves the login it found live, or the one it was for live and    *)
(* stored: for any logins and bounds.                                      *)
THEOREM AlwaysFailedLeavesLive == BoundNatural /\ NoneIsNone => (Spec => FailedLeavesLive)
<1> SUFFICES ASSUME BoundNatural, NoneIsNone PROVE Spec => FailedLeavesLive
  OBVIOUS
<1> DEFINE Left == work # Idle /\ work' = Idle /\ ~broken'
                   => auth' = work.before \/ (active' = work.id /\ auth' = saved'[active'])
<1>1. Init => IInv
  BY InitIs
<1>2. IInv /\ [Next]_vars => IInv'
  BY NextIs
<1>3. IInv /\ [Next]_vars => [Left]_vars
  BY EndsIs
<1> HIDE DEF Left
<1>4. Spec => [][Left]_vars
  BY <1>1, <1>2, <1>3, PTL DEF Spec
<1> QED BY <1>4 DEF Left, FailedLeavesLive

(* The live login's latest tokens, and each account's, stay in a file or   *)
(* are let go of, or mistaken.                                             *)
LiveKept == auth # None /\ auth.turn = grants[auth.grant] => auth.of \in Held' \cup LetGo \cup Mistaken
StoredKept(i) == saved[i].turn = grants[saved[i].grant] => saved[i].of \in Held' \cup LetGo \cup Mistaken

(* What is in a file after a step, and what the step lets go of.           *)
LEMMA HeldThen ==
  /\ \A i \in DOMAIN saved' : saved'[i].turn = grants'[saved'[i].grant] => saved'[i].of \in Held'
  /\ auth' # None /\ auth'.turn = grants'[auth'.grant] => auth'.of \in Held'
BY DEF Held, Range

LEMMA LetGoIs ==
  /\ auth # None /\ auth' # auth /\ (work.kind = "replace" \/ grants' # grants \/ Free) => auth.of \in LetGo
  /\ \A i \in DOMAIN saved :
       i \notin DOMAIN saved' \/ ((work.kind = "replace" \/ grants' # grants) /\ saved'[i] # saved[i])
       => saved[i].of \in LetGo
BY DEF LetGo

LEMMA KeptIs ==
  ASSUME LiveKept, \A i \in DOMAIN saved : StoredKept(i)
  PROVE  Held \ Held' \subseteq LetGo \cup Mistaken
<1> SUFFICES ASSUME NEW x \in Held, x \notin Held' PROVE x \in LetGo \cup Mistaken
  OBVIOUS
<1>1. \/ \E i \in DOMAIN saved : x = saved[i].of /\ saved[i].turn = grants[saved[i].grant]
      \/ auth # None /\ x = auth.of /\ auth.turn = grants[auth.grant]
  BY DEF Held, Range
<1> QED BY <1>1 DEF LiveKept, StoredKept

(* A place that does not change, while no grant turns, keeps its tokens.   *)
LEMMA SameKept ==
  ASSUME grants' = grants
  PROVE  /\ auth' = auth => LiveKept
         /\ \A i \in DOMAIN saved : i \in DOMAIN saved' /\ saved'[i] = saved[i] => StoredKept(i)
BY HeldThen DEF LiveKept, StoredKept

(* Nor does a new grant turn those there were.                             *)
LEMMA FreshKept ==
  ASSUME BoundNatural, Typed, GrantMade
  PROVE  /\ grants' # grants
         /\ auth' = auth => LiveKept
         /\ \A i \in DOMAIN saved : i \in DOMAIN saved' /\ saved'[i] = saved[i] => StoredKept(i)
<1>1. PICK n \in 0..GrantBound : grants \in [1..n -> Nat]
  BY DEF Typed
<1>2. n \in Nat /\ GrantBound \in Nat /\ Cardinality(1..n) = n /\ DOMAIN grants = 1..n
  <2>1. n \in Nat /\ GrantBound \in Nat
    BY DEF BoundNatural
  <2> QED BY <1>1, <2>1, FS_Interval
<1>3. grants' = [g \in 1..(n + 1) |-> IF g \in 1..n THEN grants[g] ELSE 1]
  BY <1>2 DEF GrantMade
<1>4. grants' # grants /\ \A g \in DOMAIN grants : grants'[g] = grants[g]
  <2>1. DOMAIN grants' = 1..(n + 1) /\ n + 1 \in 1..(n + 1) /\ n + 1 \notin DOMAIN grants
    BY <1>2, <1>3
  <2> QED BY <1>2, <1>3, <2>1
<1>5. \A c \in Cred : grants'[c.grant] = grants[c.grant]
  BY <1>4 DEF Cred
<1>6. saved \in [DOMAIN saved -> Cred] /\ auth \in Cred \cup {None}
  BY DEF Typed
<1>7. auth' = auth => LiveKept
  BY <1>5, <1>6, HeldThen DEF LiveKept
<1>8. \A i \in DOMAIN saved : i \in DOMAIN saved' /\ saved'[i] = saved[i] => StoredKept(i)
  BY <1>5, <1>6, HeldThen DEF StoredKept
<1> QED BY <1>4, <1>7, <1>8

(* A refresh turns one grant, whose latest tokens go live.                 *)
LEMMA RefreshKeeps ==
  ASSUME NoneIsNone, IInv, Refresh
  PROVE  LiveKept /\ \A i \in DOMAIN saved : StoredKept(i)
<1>1. /\ Typed /\ OneLogin /\ auth \in Cred /\ Free /\ auth.turn = grants[auth.grant]
      /\ auth' = [auth EXCEPT !.turn = @ + 1] /\ saved' = saved
      /\ grants' = [grants EXCEPT ![auth.grant] = @ + 1]
      /\ saved \in [DOMAIN saved -> Cred]
  BY DEF IInv, Typed, Refresh
<1>2. auth'.of = auth.of /\ auth'.grant = auth.grant /\ auth'.turn = auth.turn + 1 /\ auth' \in [of : Login, grant : Nat, turn : Nat]
  BY <1>1 DEF Cred
<1>3. auth.grant \in DOMAIN grants /\ auth' # None
  BY <1>1, <1>2 DEF Cred, NoneIsNone
<1>4. grants'[auth.grant] = auth.turn + 1 /\ \A g \in DOMAIN grants \ {auth.grant} : grants'[g] = grants[g]
  BY <1>1, <1>3
<1>5. auth.of \in Held'
  BY <1>2, <1>3, <1>4, HeldThen
<1>6. ASSUME NEW i \in DOMAIN saved PROVE StoredKept(i)
  <2>1. saved[i] \in Cred /\ saved[i].grant \in DOMAIN grants
    BY <1>1, <1>6 DEF Cred
  <2>2. CASE saved[i].grant = auth.grant
    <3>1. saved[i] \in Credentials /\ auth \in Credentials
      BY <1>1, <1>6 DEF Credentials, Cred, NoneIsNone
    <3>2. saved[i].of = auth.of
      BY <1>1, <2>2, <3>1 DEF OneLogin
    <3> QED BY <1>5, <3>2 DEF StoredKept
  <2>3. CASE saved[i].grant # auth.grant
    BY <1>1, <1>4, <1>6, <2>1, <2>3, HeldThen DEF StoredKept
  <2> QED BY <2>2, <2>3
<1> QED BY <1>5, <1>6 DEF LiveKept

(* The live login's tokens take the place of the same login's, or of one   *)
(* that is taken for it.                                                   *)
LEMMA SavedKeeps ==
  ASSUME NoneIsNone, IInv, ~broken, Free, auth # None, saved' = Keeping(SavedAt, auth),
         auth' = auth, grants' = grants
  PROVE  LiveKept /\ \A i \in DOMAIN saved : StoredKept(i)
<1>1. LiveKept
  BY SameKept
<1>2. ASSUME NEW i \in DOMAIN saved PROVE StoredKept(i)
  <2>1. CASE i # SavedAt
    BY <1>2, <2>1, SameKept DEF Keeping
  <2>2. CASE i = SavedAt
    <3>1. Typed /\ LiveRight /\ Live = auth
      BY DEF IInv, Live, Free
    <3>2. IsTracked(auth) /\ i = active
      <4>1. made + 1 \notin DOMAIN saved
        BY <3>1 DEF Typed
      <4> QED BY <1>2, <2>2, <4>1 DEF SavedAt
    <3>3. CASE saved[i].of = auth.of
      <4>1. CASE auth.turn = grants[auth.grant]
        BY <1>1, <3>3, <4>1 DEF LiveKept, StoredKept
      <4>2. CASE saved[active] = auth
        BY <1>1, <3>2, <4>2 DEF LiveKept, StoredKept
      <4> QED BY <3>1, <4>1, <4>2 DEF LiveRight
    <3>4. CASE saved[i].of # auth.of
      <4>1. {saved[i].of, auth.of} \cap Unnamed # {}
        BY <3>2, <3>4 DEF IsTracked, OtherLogin
      <4>2. i \in DOMAIN saved' /\ saved'[i] = auth
        BY <1>2, <2>2, KeepingIs
      <4>3. saved[i].of \in Mistaken
        BY <1>2, <3>4, <4>1, <4>2 DEF Mistaken
      <4> QED BY <4>3 DEF StoredKept
    <3> QED BY <3>3, <3>4
  <2> QED BY <2>1, <2>2
<1> QED BY <1>1, <1>2

(* The steps of a change under way.                                        *)
LEMMA ChangeKeeps ==
  ASSUME NoneIsNone, IInv, ~broken, WritesAuth \/ WritesVault \/ RollsBack \/ Dies
  PROVE  LiveKept /\ \A i \in DOMAIN saved : StoredKept(i)
<1>1. /\ Typed /\ UnderWay /\ work # Idle /\ grants' = grants
      /\ saved \in [DOMAIN saved -> Cred]
  BY DEF IInv, Typed, WritesAuth, WritesVault, RollsBack, Dies, Idle
<1>2. /\ work.to \in Cred /\ work.id \in DOMAIN saved /\ work.kind \in {"switch", "replace"}
      /\ work.stage # "auth" => auth = work.to
      /\ work.stage = "auth" => auth = work.before /\ work.kind = "switch"
      /\ work.kind = "switch" => /\ saved[work.id] = work.to
                                 /\ work.before # None => active # None /\ saved[active] = work.before
  BY <1>1, ChangeIs DEF Change, UnderWay
<1>3. CASE saved' = saved
  <2>1. \A i \in DOMAIN saved : StoredKept(i)
    BY <1>1, <1>3, SameKept
  <2>2. CASE auth' = auth
    BY <1>1, <2>1, <2>2, SameKept
  <2>3. CASE auth' # auth /\ work.kind = "replace"
    BY <2>1, <2>3, LetGoIs DEF LiveKept
  <2>4. CASE auth' # auth /\ work.kind = "switch"
    <3>1. auth = work.to \/ auth = work.before
      BY <1>2
    <3>2. auth # None => \E i \in DOMAIN saved : saved[i] = auth
      <4>1. CASE auth = work.to
        BY <1>2, <2>4, <4>1
      <4>2. CASE auth = work.before
        BY <1>1, <1>2, <2>4, <4>2 DEF Typed
      <4> QED BY <3>1, <4>1, <4>2
    <3> QED BY <2>1, <3>2 DEF LiveKept, StoredKept
  <2> QED BY <1>2, <2>2, <2>3, <2>4
<1>4. CASE WritesVault /\ saved' = Keeping(work.id, work.to)
  <2>1. auth' = auth /\ LiveKept
    BY <1>1, <1>4, SameKept DEF WritesVault
  <2>2. ASSUME NEW i \in DOMAIN saved PROVE StoredKept(i)
    <3>1. i \in DOMAIN saved' /\ saved'[i] = (IF i = work.id THEN work.to ELSE saved[i])
      BY <1>4, <2>2 DEF Keeping
    <3>2. CASE saved'[i] = saved[i]
      BY <1>1, <2>2, <3>1, <3>2, SameKept
    <3>3. CASE saved'[i] # saved[i]
      <4>1. work.kind = "replace"
        BY <1>2, <3>1, <3>3
      <4> QED BY <2>2, <3>3, <4>1, LetGoIs DEF StoredKept
    <3> QED BY <3>2, <3>3
  <2> QED BY <2>1, <2>2
<1> QED BY <1>3, <1>4 DEF WritesAuth, WritesVault, RollsBack, Dies, fileVars

(* Each step keeps the latest tokens of each login, lets go of it or       *)
(* takes it for another.                                                   *)
LEMMA StepKeeps ==
  ASSUME BoundNatural, NoneIsNone, IInv, Next, ~broken
  PROVE  Held \ Held' \subseteq LetGo \cup Mistaken
<1>1. Typed /\ saved \in [DOMAIN saved -> Cred] /\ auth \in Cred \cup {None}
  BY DEF IInv, Typed
<1> SUFFICES LiveKept /\ \A i \in DOMAIN saved : StoredKept(i)
  BY KeptIs
<1>2. CASE Refresh
  BY <1>2, RefreshKeeps
<1>3. CASE NativeLogout
  <2>1. Free /\ saved' = saved /\ grants' = grants
    BY <1>3 DEF NativeLogout
  <2> QED BY <2>1, SameKept, LetGoIs DEF LiveKept
<1>4. CASE SaveCurrent
  <2>1. Free /\ auth # None /\ auth' = auth /\ grants' = grants
    BY <1>4 DEF SaveCurrent
  <2>2. saved' = Keeping(SavedAt, auth)
    BY <1>4 DEF SaveCurrent, SavedAt
  <2> QED BY <2>1, <2>2, SavedKeeps
<1>5. CASE \E l \in Login : NativeLogin(l)
  <2>1. Free /\ saved' = saved /\ GrantMade
    BY <1>5 DEF NativeLogin
  <2>2. grants' # grants /\ (auth' = auth => LiveKept) /\ \A i \in DOMAIN saved : StoredKept(i)
    BY <1>1, <2>1, FreshKept
  <2>3. auth' # auth => LiveKept
    BY <2>2, LetGoIs DEF LiveKept
  <2> QED BY <2>2, <2>3
<1>6. CASE \E l \in Login : Add(l)
  <2>1. auth' = auth /\ GrantMade /\ \A i \in DOMAIN saved : i \in DOMAIN saved' /\ saved'[i] = saved[i]
    <3>1. \A i \in DOMAIN saved : i # made'
      BY <1>1, <1>6 DEF Typed, Add
    <3> QED BY <1>6, <3>1 DEF Add, Keeping
  <2> QED BY <1>1, <2>1, FreshKept
<1>7. CASE \E id \in Id : Remove(id)
  <2>1. PICK id \in Id : Remove(id)
    BY <1>7
  <2>2. auth' = auth /\ grants' = grants /\ saved' = [i \in DOMAIN saved \ {id} |-> saved[i]]
    BY <2>1 DEF Remove, Restrict
  <2>3. \A i \in DOMAIN saved : (i \in DOMAIN saved' /\ saved'[i] = saved[i]) \/ i \notin DOMAIN saved'
    BY <2>2
  <2> QED BY <2>2, <2>3, SameKept, LetGoIs DEF StoredKept
<1>8. CASE \E id \in Id : SwitchStarts(id)
  <2>1. Free /\ auth' = auth /\ grants' = grants /\ saved' = Snapshot(auth)
    BY <1>8 DEF SwitchStarts
  <2>2. CASE auth = None
    <3>1. saved' = saved
      BY <2>1, <2>2 DEF Snapshot
    <3> QED BY <2>1, <3>1, SameKept
  <2>3. CASE auth # None
    <3>1. saved' = Keeping(SavedAt, auth)
      BY <2>1, <2>3 DEF Snapshot, Unsaved, SavedAt
    <3> QED BY <2>1, <2>3, <3>1, SavedKeeps
  <2> QED BY <2>2, <2>3
<1>9. CASE \E id \in Id, l \in Login : ReplaceInVault(id, l)
  <2>1. PICK id \in Id, l \in Login : ReplaceInVault(id, l)
    BY <1>9
  <2>2. auth' = auth /\ GrantMade /\ saved' = Keeping(id, Granted(l))
    BY <2>1 DEF ReplaceInVault
  <2>3. \A i \in DOMAIN saved : (i \in DOMAIN saved' /\ saved'[i] = saved[i]) \/ saved'[i] # saved[i]
    BY <2>2 DEF Keeping
  <2>4. /\ grants' # grants /\ LiveKept
        /\ \A i \in DOMAIN saved : i \in DOMAIN saved' /\ saved'[i] = saved[i] => StoredKept(i)
    BY <1>1, <2>2, FreshKept
  <2>5. \A i \in DOMAIN saved : saved'[i] # saved[i] => StoredKept(i)
    BY <2>4, LetGoIs DEF StoredKept
  <2> QED BY <2>3, <2>4, <2>5
<1>10. CASE \E id \in Id, l \in Login : ReplaceStarts(id, l)
  <2>1. Free /\ saved' = saved /\ GrantMade
    BY <1>10 DEF ReplaceStarts
  <2>2. grants' # grants /\ (auth' = auth => LiveKept) /\ \A i \in DOMAIN saved : StoredKept(i)
    BY <1>1, <2>1, FreshKept
  <2>3. auth' # auth => LiveKept
    BY <2>2, LetGoIs DEF LiveKept
  <2> QED BY <2>2, <2>3
<1>11. CASE WritesAuth \/ WritesVault \/ RollsBack \/ Dies
  BY <1>11, ChangeKeeps
<1> QED BY <1>2, <1>3, <1>4, <1>5, <1>6, <1>7, <1>8, <1>9, <1>10, <1>11 DEF Next

(* Until a first crash between two files, no step loses the latest tokens  *)
(* of a login but those the user lets go of and one taken for another,     *)
(* which takes one a provider gives no identity for; and a switch or a new *)
(* sign-in that failed left live what it found: for any logins and bounds. *)
THEOREM AlwaysNoLoginLost == BoundNatural /\ NoneIsNone => (Spec => NoLoginLost)
<1> SUFFICES ASSUME BoundNatural, NoneIsNone PROVE Spec => NoLoginLost
  OBVIOUS
<1> DEFINE Kept == ~broken => Held \ Held' \subseteq LetGo \cup Mistaken
<1>1. Init => IInv
  BY InitIs
<1>2. IInv /\ [Next]_vars => IInv'
  BY NextIs
<1>3. IInv /\ [Next]_vars => [Kept]_vars
  BY StepKeeps
<1> HIDE DEF Kept
<1>4. Spec => [][Kept]_vars
  BY <1>1, <1>2, <1>3, PTL DEF Spec
<1> QED BY <1>4, AlwaysFailedLeavesLive DEF Kept, TokensKept, NoLoginLost
====
