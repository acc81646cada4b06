---- MODULE RemoteCommand ----
(***************************************************************************)
(* The user's command /remote-control (ext/remote: index.ts, autostart.ts, *)
(* tailscale.ts), given in two terminals: each dialog shows what was read  *)
(* before it, and acts on it after its answer.  RemoteControl has the      *)
(* daemon's side: the server, the pairing code and the phones' tokens.     *)
(*                                                                         *)
(* A daemon asked to start does, and listens; launchctl does what it is    *)
(* asked, and is asked in one step.                                        *)
(***************************************************************************)
EXTENDS Naturals, FiniteSets, TLAPS

CONSTANTS
  Term,
  Phone,
  None,
  ChangeBound    \* bound: what others change

VARIABLES
  on,         \* remote control
  phones,     \* paired
  at,         \* each terminal's step
  shown,      \* the phones its dialog lists
  about,      \* what its open question is about
  proxy,      \* what the tailnet name's / handler proxies: "ours", "other", "none"
  plist,      \* the login item: "absent", or the node it runs, as "current" or "moved"
  daemon,     \* "none", the one launchd started or another's
  revoking,   \* the phones each terminal is still to remove
  asked,      \* history: the phones each terminal's user said to remove
  changes

vars == <<on, phones, at, shown, about, proxy, plist, daemon, revoking, asked, changes>>
dialog == <<at, shown, about, revoking, asked>>
outside == <<proxy, plist, daemon, changes>>

Step == {"prompt", "menu", "list", "phones", "sure", "all", "revoking", "serve", "serving", "off",
         "toggled"}

(* The types of the dialogs and of what they are about. *)
TypeOK ==
  /\ on \in BOOLEAN /\ phones \subseteq Phone
  /\ at \in [Term -> Step] /\ shown \in [Term -> SUBSET Phone]
  /\ about \in [Term -> Phone \cup {None}]
  /\ revoking \in [Term -> SUBSET Phone] /\ asked \in [Term -> SUBSET Phone]
  /\ proxy \in {"ours", "other", "none"} /\ plist \in {"absent", "current", "moved"}
  /\ daemon \in {"none", "launchd", "other"} /\ changes \in 0..ChangeBound

Init ==
  /\ on = FALSE /\ phones = {} /\ at = [t \in Term |-> "prompt"]
  /\ shown = [t \in Term |-> {}] /\ about = [t \in Term |-> None]
  /\ revoking = shown /\ asked = shown
  /\ proxy \in {"none", "other"} /\ plist = "absent" /\ daemon = "other" /\ changes = 0

Goes(t, step) == at' = [at EXCEPT ![t] = step]

---------------------------------------------------------------------------
(* The command *)

(* The login item is brought up to date, a daemon started if none runs,    *)
(* and one of older code replaced.  Off, remote control is turned on and   *)
(* paired; on, its menu is offered.  Or the command names an item of it.   *)
Commands(t) ==
  /\ at[t] = "prompt"
  /\ plist' = IF plist = "moved" THEN "current" ELSE plist
  /\ daemon' \in {"other"} \cup ({"launchd"} \cap {daemon})
  /\ \/ Goes(t, IF on THEN "menu" ELSE "serve") /\ on' = TRUE
     \/ on /\ Goes(t, "serve") /\ UNCHANGED on
     \/ Goes(t, "list") /\ UNCHANGED on
  /\ UNCHANGED <<phones, shown, about, revoking, asked, proxy, changes>>

(* menu: another phone is paired, which asks the daemon for a code, the    *)
(* phones are listed, it is turned off, or left.                           *)
Picks(t, step) ==
  /\ at[t] = "menu"
  /\ step = "serve" => daemon # "none"
  /\ Goes(t, step)
  /\ UNCHANGED <<on, phones, shown, about, revoking, asked, outside>>

(* A request no daemon is there for ends the command. *)
Refused(t) ==
  /\ daemon = "none" /\ (at[t] \in {"menu", "list", "off"} \/ revoking[t] # {})
  /\ Goes(t, "prompt")
  /\ revoking' = [revoking EXCEPT ![t] = {}] /\ asked' = [asked EXCEPT ![t] = {}]
  /\ UNCHANGED <<on, phones, shown, about, outside>>

(* show: the name proxies to the port, or the user lets it. *)
Shows(t) ==
  /\ at[t] = "serve"
  /\ IF proxy = "ours" THEN Goes(t, "prompt") ELSE \E next \in {"prompt", "serving"} : Goes(t, next)
  /\ UNCHANGED <<on, phones, shown, about, revoking, asked, outside>>

(* tailscale serve, or its failure, and the code. *)
Serves(t) ==
  /\ at[t] = "serving"
  /\ proxy' = "ours" \/ UNCHANGED proxy
  /\ Goes(t, "prompt")
  /\ UNCHANGED <<on, phones, shown, about, revoking, asked, plist, daemon, changes>>

(* turnOff, confirmed or not. *)
TurnsOff(t) ==
  /\ at[t] = "off"
  /\ (daemon # "none" /\ on' = FALSE) \/ UNCHANGED on
  /\ Goes(t, "prompt")
  /\ UNCHANGED <<phones, shown, about, revoking, asked, outside>>

---------------------------------------------------------------------------
(* The paired phones *)

(* devices: the list, again after each removal, or after none. *)
ListsPhones(t) ==
  /\ at[t] = "list" /\ daemon # "none"
  /\ shown' = [shown EXCEPT ![t] = phones]
  /\ IF phones = {} THEN Goes(t, "prompt") ELSE Goes(t, "phones")
  /\ UNCHANGED <<on, phones, about, revoking, asked, outside>>

PicksPhone(t, p) ==
  /\ at[t] = "phones" /\ p \in shown[t]
  /\ about' = [about EXCEPT ![t] = p]
  /\ Goes(t, "sure")
  /\ UNCHANGED <<on, phones, shown, revoking, asked, outside>>

PicksAll(t) ==
  /\ at[t] = "phones"
  /\ about' = [about EXCEPT ![t] = None]
  /\ Goes(t, "all")
  /\ UNCHANGED <<on, phones, shown, revoking, asked, outside>>

(* A mutant: the phones are read again once the user has answered. *)
ConfirmsReread(t) ==
  /\ at[t] \in {"sure", "all"}
  /\ LET those == IF at[t] = "all" THEN shown[t] ELSE {about[t]} IN
     /\ asked' = [asked EXCEPT ![t] = those]
     /\ revoking' = [revoking EXCEPT ![t] = IF at[t] = "all" THEN phones ELSE those]
  /\ Goes(t, "revoking")
  /\ UNCHANGED <<on, phones, shown, about, outside>>

(* The user is sure: of the phone picked, or of all that were listed. *)
Confirms(t) ==
  /\ at[t] \in {"sure", "all"}
  /\ LET those == IF at[t] = "all" THEN shown[t] ELSE {about[t]} IN
     /\ asked' = [asked EXCEPT ![t] = those]
     /\ revoking' = [revoking EXCEPT ![t] = those]
  /\ Goes(t, "revoking")
  /\ UNCHANGED <<on, phones, shown, about, outside>>

(* It is not; or leaves the list. *)
Declines(t) ==
  /\ \/ at[t] \in {"sure", "all"} /\ Goes(t, "list")
     \/ at[t] = "phones" /\ Goes(t, "prompt")
  /\ UNCHANGED <<on, phones, shown, about, revoking, asked, outside>>

(* Each is removed by its id, one request after another. *)
Revokes(t, p) ==
  /\ at[t] = "revoking" /\ p \in revoking[t] /\ daemon # "none"
  /\ phones' = phones \ {p}
  /\ revoking' = [revoking EXCEPT ![t] = @ \ {p}]
  /\ UNCHANGED <<on, at, shown, about, asked, outside>>

RevokedAll(t) ==
  /\ at[t] = "revoking" /\ revoking[t] = {}
  /\ Goes(t, IF about[t] = None THEN "prompt" ELSE "list")
  /\ asked' = [asked EXCEPT ![t] = {}]
  /\ UNCHANGED <<on, phones, shown, about, revoking, outside>>

---------------------------------------------------------------------------
(* Start at login *)

(* toggleAutostart: unloading ends a daemon launchd started, loading has   *)
(* it start one, which exits if one runs.                                  *)
Toggles(t) ==
  /\ at[t] \in {"menu", "prompt"}
  /\ Goes(t, "toggled")
  /\ IF plist = "absent"
     THEN plist' = "current" /\ daemon' = IF daemon = "other" THEN "other" ELSE "launchd"
     ELSE plist' = "absent" /\ daemon' = IF daemon = "launchd" THEN "none" ELSE daemon
  /\ UNCHANGED <<on, phones, shown, about, revoking, asked, proxy, changes>>

(* Off now, a daemon is started in place of the one that may have ended. *)
Ensures(t) ==
  /\ at[t] = "toggled"
  /\ Goes(t, "prompt")
  /\ daemon' = IF plist = "absent" /\ daemon = "none" THEN "other" ELSE daemon
  /\ UNCHANGED <<on, phones, shown, about, revoking, asked, proxy, plist, changes>>

---------------------------------------------------------------------------
(* What others do: a phone pairs, another program takes the tailnet name,  *)
(* node moves, and the Mac restarts, with a pi or the login item to start  *)
(* the daemon.                                                             *)
Change == changes < ChangeBound /\ changes' = changes + 1
Pairs(p) == on /\ p \notin phones /\ phones' = phones \cup {p} /\ Change /\ UNCHANGED <<on, dialog, proxy, plist, daemon>>
TakesName == proxy # "other" /\ proxy' = "other" /\ Change /\ UNCHANGED <<on, phones, dialog, plist, daemon>>
NodeMoves == plist = "current" /\ plist' = "moved" /\ Change /\ UNCHANGED <<on, phones, dialog, proxy, daemon>>
MacRestarts ==
  /\ \A t \in Term : at[t] = "prompt"
  /\ daemon' = IF plist = "current" THEN "launchd" ELSE "other"
  /\ Change
  /\ UNCHANGED <<on, phones, dialog, proxy, plist>>

Next ==
  \/ \E t \in Term :
       \/ Commands(t) \/ Refused(t) \/ Shows(t) \/ Serves(t) \/ TurnsOff(t)
       \/ \E step \in {"serve", "list", "off", "prompt"} : Picks(t, step)
       \/ ListsPhones(t) \/ PicksAll(t) \/ Confirms(t) \/ Declines(t) \/ RevokedAll(t)
       \/ Toggles(t) \/ Ensures(t)
       \/ \E p \in Phone : PicksPhone(t, p) \/ Revokes(t, p)
  \/ TakesName \/ NodeMoves \/ MacRestarts \/ \E p \in Phone : Pairs(p)

Spec == Init /\ [][Next]_vars

---------------------------------------------------------------------------
(* Properties *)

(* A phone is unpaired only by a user who saw it in the list and said so,  *)
(* however many phones pair, or are removed in the other terminal, while   *)
(* the questions are open (devices: "The paired phones, shown again after  *)
(* each removal").                                                         *)
OnlyAsked ==
  [][phones' \subseteq phones /\ phones' # phones => \E t \in Term : phones \ phones' \subseteq asked[t]]_vars

(* However often the login item is turned on and off, and in two terminals *)
(* at once, there is a daemon once the command is over (toggleStartAtLogin:*)
(* "Unloading ends a daemon launchd started; loading has launchd start     *)
(* one").                                                                  *)
DaemonLeft == (\A t \in Term : at[t] # "toggled") => daemon # "none"

---------------------------------------------------------------------------
(* Proofs *)

(* A question about one phone is about one; what is still to remove was    *)
(* asked for, by a terminal at removing it; and a daemon is missing only   *)
(* while a terminal that has just turned the login item off is to start it.*)
SureOf == \A t \in Term : at[t] = "sure" => about[t] \in Phone

OnlyRevoking ==
  \A t \in Term : revoking[t] \subseteq asked[t] /\ (revoking[t] # {} => at[t] = "revoking")

DaemonOwed == daemon = "none" => plist = "absent" /\ \E t \in Term : at[t] = "toggled"

CommandInv == TypeOK /\ SureOf /\ OnlyRevoking /\ DaemonOwed

LEMMA CommandInit == ASSUME ChangeBound \in Nat, Init PROVE CommandInv
<1>1. TypeOK
  <2>1. /\ on \in BOOLEAN /\ phones \subseteq Phone /\ proxy \in {"ours", "other", "none"}
        /\ plist \in {"absent", "current", "moved"} /\ daemon \in {"none", "launchd", "other"}
    BY DEF Init
  <2>2. at \in [Term -> Step] /\ about \in [Term -> Phone \cup {None}]
    BY DEF Init, Step
  <2>3. shown \in [Term -> SUBSET Phone]
    BY DEF Init
  <2>4. revoking = shown /\ asked = shown /\ changes \in 0..ChangeBound
    BY DEF Init
  <2> QED
    BY <2>1, <2>2, <2>3, <2>4 DEF TypeOK
<1>2. SureOf /\ OnlyRevoking /\ DaemonOwed
  BY DEF Init, SureOf, OnlyRevoking, DaemonOwed
<1> QED
  BY <1>1, <1>2 DEF CommandInv

(* What the user asks for leaves the phones alone, and a daemon there.     *)
LEMMA CommandStep ==
  ASSUME CommandInv, NEW t \in Term,
         Commands(t) \/ Refused(t) \/ Shows(t) \/ Serves(t) \/ TurnsOff(t)
         \/ \E step \in {"serve", "list", "off", "prompt"} : Picks(t, step)
  PROVE  CommandInv' /\ phones' = phones
<1> USE DEF CommandInv, TypeOK, SureOf, OnlyRevoking, DaemonOwed, Step, Goes, outside
<1>1. CASE Commands(t)
  BY <1>1 DEF Commands
<1>2. CASE Refused(t)
  BY <1>2 DEF Refused
<1>3. CASE Shows(t)
  BY <1>3 DEF Shows
<1>4. CASE Serves(t)
  BY <1>4 DEF Serves
<1>5. CASE TurnsOff(t)
  BY <1>5 DEF TurnsOff
<1>6. CASE \E step \in {"serve", "list", "off", "prompt"} : Picks(t, step)
  BY <1>6 DEF Picks
<1> QED
  BY <1>1, <1>2, <1>3, <1>4, <1>5, <1>6

(* So do the questions about the phones, but for a removal.                *)
LEMMA PhonesStep ==
  ASSUME CommandInv, NEW t \in Term,
         ListsPhones(t) \/ PicksAll(t) \/ Confirms(t) \/ Declines(t) \/ RevokedAll(t)
         \/ \E p \in Phone : PicksPhone(t, p)
  PROVE  CommandInv' /\ phones' = phones
<1> USE DEF CommandInv, TypeOK, SureOf, OnlyRevoking, DaemonOwed, Step, Goes, outside
<1>1. CASE ListsPhones(t)
  BY <1>1 DEF ListsPhones
<1>2. CASE PicksAll(t)
  BY <1>2 DEF PicksAll
<1>3. CASE Confirms(t)
  BY <1>3 DEF Confirms
<1>4. CASE Declines(t)
  BY <1>4 DEF Declines
<1>5. CASE RevokedAll(t)
  BY <1>5 DEF RevokedAll
<1>6. CASE \E p \in Phone : PicksPhone(t, p)
  BY <1>6 DEF PicksPhone
<1> QED
  BY <1>1, <1>2, <1>3, <1>4, <1>5, <1>6

(* A removal takes one phone, of those its own terminal's user asked for.  *)
LEMMA RevokesStep ==
  ASSUME CommandInv, NEW t \in Term, NEW p \in Phone, Revokes(t, p)
  PROVE  CommandInv' /\ phones \ phones' \subseteq asked[t]
BY DEF CommandInv, TypeOK, SureOf, OnlyRevoking, DaemonOwed, Step, Revokes, outside

(* The login item is turned off with a daemon owed, and then started.      *)
LEMMA LoginStep ==
  ASSUME CommandInv, NEW t \in Term, Toggles(t) \/ Ensures(t)
  PROVE  CommandInv' /\ phones' = phones
<1> USE DEF CommandInv, TypeOK, SureOf, OnlyRevoking, DaemonOwed, Step, Goes
<1>1. CASE Toggles(t)
  <2>1. TypeOK' /\ SureOf' /\ OnlyRevoking' /\ phones' = phones
    BY <1>1 DEF Toggles
  <2>2. DaemonOwed'
    BY <1>1 DEF Toggles
  <2> QED
    BY <2>1, <2>2
<1>2. CASE Ensures(t)
  <2>1. TypeOK' /\ SureOf' /\ OnlyRevoking' /\ phones' = phones
    BY <1>2 DEF Ensures
  <2>2. DaemonOwed'
    BY <1>2 DEF Ensures
  <2> QED
    BY <2>1, <2>2
<1> QED
  BY <1>1, <1>2

(* No change of others unpairs a phone, or leaves no daemon.               *)
LEMMA OthersStep ==
  ASSUME ChangeBound \in Nat, CommandInv,
         TakesName \/ NodeMoves \/ MacRestarts \/ \E p \in Phone : Pairs(p)
  PROVE  CommandInv' /\ phones \subseteq phones'
<1> USE DEF CommandInv, TypeOK, SureOf, OnlyRevoking, DaemonOwed, Step, Change, dialog
<1>1. CASE TakesName
  BY <1>1 DEF TakesName
<1>2. CASE NodeMoves
  BY <1>2 DEF NodeMoves
<1>3. CASE MacRestarts
  BY <1>3 DEF MacRestarts
<1>4. CASE \E p \in Phone : Pairs(p)
  BY <1>4 DEF Pairs
<1> QED
  BY <1>1, <1>2, <1>3, <1>4

(* Each step keeps the invariant, and unpairs only what was asked for.     *)
LEMMA CommandNext ==
  ASSUME ChangeBound \in Nat, CommandInv, [Next]_vars
  PROVE  /\ CommandInv'
         /\ phones \subseteq phones' \/ \E t \in Term : phones \ phones' \subseteq asked[t]
<1>1. CASE UNCHANGED vars
  BY <1>1 DEF CommandInv, TypeOK, SureOf, OnlyRevoking, DaemonOwed, vars
<1>2. CASE \E t \in Term :
             \/ Commands(t) \/ Refused(t) \/ Shows(t) \/ Serves(t) \/ TurnsOff(t)
             \/ \E step \in {"serve", "list", "off", "prompt"} : Picks(t, step)
  BY <1>2, CommandStep
<1>3. CASE \E t \in Term :
             \/ ListsPhones(t) \/ PicksAll(t) \/ Confirms(t) \/ Declines(t) \/ RevokedAll(t)
             \/ \E p \in Phone : PicksPhone(t, p)
  BY <1>3, PhonesStep
<1>4. CASE \E t \in Term : \E p \in Phone : Revokes(t, p)
  BY <1>4, RevokesStep
<1>5. CASE \E t \in Term : Toggles(t) \/ Ensures(t)
  BY <1>5, LoginStep
<1>6. CASE TakesName \/ NodeMoves \/ MacRestarts \/ \E p \in Phone : Pairs(p)
  BY <1>6, OthersStep
<1> QED
  BY <1>1, <1>2, <1>3, <1>4, <1>5, <1>6 DEF Next

LEMMA CommandInvariant == ASSUME ChangeBound \in Nat PROVE Spec => []CommandInv
<1>1. Init => CommandInv
  BY CommandInit
<1>2. CommandInv /\ [Next]_vars => CommandInv'
  BY CommandNext
<1> QED
  BY <1>1, <1>2, PTL DEF Spec

(* For any terminals, phones and changes of others: the types of the       *)
(* dialogs and of what they are about.                                     *)
THEOREM CommandTypes == ASSUME ChangeBound \in Nat PROVE Spec => []TypeOK
<1>1. CommandInv => TypeOK
  BY DEF CommandInv
<1> QED
  BY <1>1, CommandInvariant, PTL

(* There is a daemon whenever no command is between unloading the login    *)
(* item and starting one in its place (toggleStartAtLogin).                *)
THEOREM DaemonAlwaysLeft == ASSUME ChangeBound \in Nat PROVE Spec => []DaemonLeft
<1>1. CommandInv => DaemonLeft
  BY DEF CommandInv, DaemonOwed, DaemonLeft
<1> QED
  BY <1>1, CommandInvariant, PTL

(* Every removal, of one phone or of all listed, is of phones the user of  *)
(* one terminal saw and said to remove (devices).                          *)
THEOREM OnlyAskedRemoved == ASSUME ChangeBound \in Nat PROVE Spec => OnlyAsked
<1>1. CommandInv /\ [Next]_vars
      => [phones' \subseteq phones /\ phones' # phones
          => \E t \in Term : phones \ phones' \subseteq asked[t]]_vars
  BY CommandNext
<1> QED
  BY <1>1, CommandInvariant, PTL DEF Spec, OnlyAsked
====
