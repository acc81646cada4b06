---- MODULE RemoteControl ----
(***************************************************************************)
(* Remote control's switch (daemon/remote/control.ts) and who may use it   *)
(* (daemon/remote/pairing.ts): the state in remote.json with the copy of   *)
(* it the daemon keeps, the steps that start and stop the server to match  *)
(* it, one after the other, and the codes that pair phones.                *)
(*                                                                         *)
(* A step awaits the server it closes and the one it starts, and commands  *)
(* come in meanwhile.  The state a step holds is the daemon's very copy    *)
(* ("Shared with the cache"), which a command changes before it writes it, *)
(* and that write may fail.  The pairing's times are one event: the code   *)
(* has expired.                                                            *)
(***************************************************************************)
EXTENDS Naturals, FiniteSets, FiniteSetTheorems, TLAPS

CONSTANTS
  Port,
  Device,
  None,
  CODE_ATTEMPTS,   \* wrong codes a pairing takes
  StepBound,       \* steps started, over the daemon's lifetime
  CodeBound        \* codes made

ASSUME RemoteAssumption ==
  /\ None \notin Port \cup Device \cup [kept : Port, on : Port]
  /\ {CODE_ATTEMPTS, StepBound, CodeBound} \subseteq Nat \ {0}

VARIABLES
  stored,       \* remote.json: on or off, the port, the paired devices
  cached,       \* the daemon's copy of it, None when it has to read it again
  steps,        \* how far each step is that brings the server in line, in the order asked for
  wants,        \* the state each step under way holds
  holds,        \* the steps whose state is the daemon's copy still
  binding,      \* the port the server being started is to listen on
  server,       \* the server in use, None without one: the port kept of it
                \* (serverPort) and the one it is on
  listenError,
  listening,    \* the steps whose server holds its port
  crossed,      \* history: the steps whose state a command changed, unwritten, or as
                \* their server was starting
  pairing,      \* the code and secret that pair the next phone
  codes,        \* codes made so far
  pairedBy,     \* the devices paired with each code made
  wrongTries    \* wrong tries at each code made, while it stood

storeVars == <<stored, cached, holds>>
switchVars == <<steps, wants, binding, server, listenError, listening, crossed>>
pairingVars == <<pairing, codes, pairedBy, wrongTries>>
vars == <<storeVars, switchVars, pairingVars>>

State == [enabled : BOOLEAN, port : Port, devices : SUBSET Device]

Server == [kept : Port, on : Port]

Pairing == [n : 1..CodeBound, code : BOOLEAN, attempts : 0..CODE_ATTEMPTS, expired : BOOLEAN]

Stage == {"queued", "closing", "starting", "done"}

(* The types of the store, the steps and the pairing.                      *)
TypeOK ==
  /\ stored \in State /\ cached \in State \cup {None}
  /\ DOMAIN steps = DOMAIN wants /\ DOMAIN steps \subseteq 1..StepBound
  /\ \A n \in DOMAIN steps : steps[n] \in Stage /\ wants[n] \in State \cup {None}
  /\ server \in Server \cup {None} /\ binding \in Port \cup {None} /\ listenError \in BOOLEAN
  /\ listening \cup holds \cup crossed \subseteq DOMAIN steps
  /\ pairing \in Pairing \cup {None}
  /\ codes \in 0..CodeBound

Init ==
  /\ \E enabled \in BOOLEAN, port \in Port :
       stored = [enabled |-> enabled, port |-> port, devices |-> {}]
  /\ cached = None /\ holds = {}
  /\ steps = [n \in {1} |-> "queued"]     \* the daemon applies remote.json as it starts
  /\ wants = [n \in {1} |-> None]
  /\ binding = None /\ server = None /\ listenError = FALSE /\ listening = {} /\ crossed = {}
  /\ pairing = None /\ codes = 0
  /\ pairedBy = [n \in 1..CodeBound |-> {}]
  /\ wrongTries = [n \in 1..CodeBound |-> 0]

---------------------------------------------------------------------------
(* remote.json *)

(* The state as loaded: the copy while there is one, else the file. *)
Loaded == IF cached = None THEN stored ELSE cached

(* A state is written.  The copy is let go before the write, which may     *)
(* fail; a step that holds it goes on with it.                             *)
Save(state) ==
  /\ stored' = state
  /\ cached' = None /\ holds' = {}

SaveFails ==
  /\ cached' = None /\ holds' = {}
  /\ UNCHANGED stored

(* Whatever looks something up keeps what it read. *)
Load ==
  /\ cached' = Loaded
  /\ UNCHANGED <<stored, holds, switchVars, pairingVars>>

(* What else it keeps is written, or is not: a phone's last use, its       *)
(* subscription, how pi is started.                                        *)
Rewrite ==
  /\ Save(Loaded) \/ SaveFails
  /\ UNCHANGED <<switchVars, pairingVars>>

---------------------------------------------------------------------------
(* Steps *)

(* A mutant: a step does not wait for those before it. *)
RunsAtOnce(n) == steps[n] = "queued"

(* A step's turn comes once those before it are done. *)
Runs(n) == steps[n] = "queued" /\ \A m \in 1..(n - 1) : steps[m] = "done"

(* A step finds the server started for something else: it is closed first. *)
StepCloses(n) ==
  /\ Runs(n)
  /\ server # None
  /\ ~Loaded.enabled \/ server.kept # Loaded.port
  /\ wants' = [wants EXCEPT ![n] = Loaded]
  /\ cached' = Loaded /\ holds' = holds \cup {n}
  /\ server' = None
  /\ steps' = [steps EXCEPT ![n] = "closing"]
  /\ UNCHANGED <<stored, binding, listenError, listening, crossed, pairingVars>>

(* Without one to close, the state decides: a server is started on its     *)
(* port, or the step is done.                                              *)
Decide(n, state) ==
  IF state.enabled /\ server = None
  THEN /\ steps' = [steps EXCEPT ![n] = "starting"]
       /\ wants' = [wants EXCEPT ![n] = state]
       /\ binding' = state.port
       /\ UNCHANGED listenError
  ELSE /\ steps' = [steps EXCEPT ![n] = "done"]
       /\ wants' = [wants EXCEPT ![n] = None]
       /\ listenError' = (listenError /\ state.enabled)
       /\ UNCHANGED binding

StepDecides(n) ==
  /\ Runs(n)
  /\ server # None => Loaded.enabled /\ server.kept = Loaded.port
  /\ Decide(n, Loaded)
  /\ cached' = Loaded
  /\ holds' = IF steps'[n] = "starting" THEN holds \cup {n} ELSE holds
  /\ UNCHANGED <<stored, server, listening, crossed, pairingVars>>

(* The server closed lets its port go.  What decides is the state the step *)
(* holds, as a command may have changed it since.                          *)
StepClosed(n) ==
  /\ steps[n] = "closing"
  /\ Decide(n, wants[n])
  /\ listening' = {}
  /\ holds' = IF steps'[n] = "starting" THEN holds ELSE holds \ {n}
  /\ UNCHANGED <<stored, cached, server, crossed, pairingVars>>

(* The server listens, or cannot: its port is another program's.  The port *)
(* kept of it is the one the state says by then.  How pi is started is     *)
(* written next, if it changed.                                            *)
StepListens(n) ==
  /\ steps[n] = "starting"
  /\ steps' = [steps EXCEPT ![n] = "done"]
  /\ \/ /\ server' = [kept |-> wants[n].port, on |-> binding]
        /\ listenError' = FALSE
        /\ listening' = listening \cup {n}
        /\ cached' \in {cached, None}
     \/ /\ listenError' = TRUE
        /\ UNCHANGED <<cached, server, listening>>
  /\ wants' = [wants EXCEPT ![n] = None]
  /\ binding' = None
  /\ holds' = holds \ {n}
  /\ UNCHANGED <<stored, crossed, pairingVars>>

---------------------------------------------------------------------------
(* /remote-control's commands *)

(* A step is asked for, behind those asked for before, each with the state *)
(* it holds by now.                                                        *)
Asked(n, holding) ==
  /\ steps' = [m \in 1..n |-> IF m = n THEN "queued" ELSE steps[m]]
  /\ wants' = [m \in 1..n |-> IF m = n THEN None ELSE holding[m]]

(* On, on a port given or the one kept, and off: changed in the daemon's   *)
(* copy, which a step may hold, written, then applied.  One whose write    *)
(* fails is refused and applies nothing.                                   *)
Switch(enabled, port) ==
  LET state == [Loaded EXCEPT !.enabled = enabled, !.port = port]
      holding == [m \in DOMAIN wants |-> IF m \in holds THEN state ELSE wants[m]]
      n == Cardinality(DOMAIN steps) + 1
  IN  /\ \/ /\ n <= StepBound
            /\ Save(state)
            /\ Asked(n, holding)
            /\ crossed' = crossed \cup {m \in holds : steps[m] = "starting"}
         \/ /\ SaveFails
            /\ wants' = holding
            /\ crossed' = crossed \cup holds
            /\ UNCHANGED steps
      /\ UNCHANGED <<binding, server, listenError, listening, pairingVars>>

(* A code and the secret of its QR code, as on and pair show them, while   *)
(* the server is up.  Earlier ones are void.                               *)
CreateCode ==
  /\ server # None
  /\ codes < CodeBound
  /\ codes' = codes + 1
  /\ pairing' = [n |-> codes + 1, code |-> TRUE, attempts |-> 0, expired |-> FALSE]
  /\ UNCHANGED <<storeVars, switchVars, pairedBy, wrongTries>>

(* A device is taken off the list, from the Mac or by itself. *)
Revoke(d) ==
  /\ d \in Loaded.devices
  /\ LET state == [Loaded EXCEPT !.devices = @ \ {d}]
     IN  Save(state) \/ SaveFails
  /\ UNCHANGED <<switchVars, pairingVars>>

---------------------------------------------------------------------------
(* A phone pairs *)

Expire ==
  /\ pairing # None /\ ~pairing.expired
  /\ pairing' = [pairing EXCEPT !.expired = TRUE]
  /\ UNCHANGED <<storeVars, switchVars, codes, pairedBy, wrongTries>>

(* The code or the secret that pairs is used up, and the phone gets its    *)
(* token, if the write goes through.                                       *)
Pairs(d) ==
  LET state == [Loaded EXCEPT !.devices = @ \cup {d}]
  IN  /\ pairing' = None
      /\ \/ Save(state) /\ pairedBy' = [pairedBy EXCEPT ![pairing.n] = @ \cup {d}]
         \/ SaveFails /\ UNCHANGED pairedBy

UsedUp(attempts) == attempts >= CODE_ATTEMPTS

(* A phone sends a code, right or wrong. *)
Claim(d, right) ==
  /\ server # None /\ pairing # None
  /\ pairing.code /\ d \notin stored.devices
  /\ IF pairing.expired THEN pairing' = None /\ UNCHANGED <<storeVars, pairedBy, wrongTries>>
     ELSE IF right THEN Pairs(d) /\ UNCHANGED wrongTries
     ELSE /\ pairing' = [pairing EXCEPT !.attempts = @ + 1, !.code = ~UsedUp(pairing.attempts + 1)]
          /\ wrongTries' = [wrongTries EXCEPT ![pairing.n] = @ + 1]
          /\ UNCHANGED <<storeVars, pairedBy>>
  /\ UNCHANGED <<switchVars, codes>>

(* A phone sends the QR code's secret.  A wrong one changes nothing. *)
ClaimSecret(d) ==
  /\ server # None /\ pairing # None
  /\ d \notin stored.devices
  /\ IF pairing.expired THEN pairing' = None /\ UNCHANGED <<storeVars, pairedBy>>
     ELSE Pairs(d)
  /\ UNCHANGED <<switchVars, codes, wrongTries>>

Next ==
  \/ Load \/ Rewrite
  \/ \E n \in DOMAIN steps : StepCloses(n) \/ StepDecides(n) \/ StepClosed(n) \/ StepListens(n)
  \/ \E enabled \in BOOLEAN, port \in Port : Switch(enabled, port)
  \/ CreateCode \/ Expire
  \/ \E d \in Device, right \in BOOLEAN : Claim(d, right)
  \/ \E d \in Device : ClaimSecret(d) \/ Revoke(d)

Spec == Init /\ [][Next]_vars

---------------------------------------------------------------------------
(* Properties *)

(* However on and off overlap with servers still starting and closing,     *)
(* at most one server holds a port (control.ts, run).                      *)
OneServer == Cardinality(listening) <= 1

(* Once every step is done, a server is in use if remote.json says so, or  *)
(* the failure to listen is known, it was started for the port remote.json *)
(* says, and it is on that port: a command that came in during a step is   *)
(* not forgotten (control.ts, applyNow).  Two cases are left out, as a     *)
(* command changes the state a step holds before it writes it: while the   *)
(* last step's state was changed by a command whose write failed, the step *)
(* did as that said; and a server whose port was changed as it started is  *)
(* kept as on that port, though it is on the earlier one.                  *)
ServerMatches ==
  (\A n \in DOMAIN steps : steps[n] = "done") =>
    /\ Cardinality(DOMAIN steps) \notin crossed =>
         /\ server # None <=> stored.enabled /\ ~listenError
         /\ server # None => server.kept = stored.port
    /\ server # None => /\ listening # {}
                        /\ server.on = server.kept \/ listening \cap crossed # {}

(* The daemon's copy is what remote.json holds, writes that fail included  *)
(* (pairing.ts, save).                                                     *)
CopyTrue == cached # None => cached = stored

(* A code pairs one phone, by the code or by its secret, and takes no      *)
(* more than CODE_ATTEMPTS tries (pairing.ts, claim and claimSecret).      *)
PairingHolds ==
  /\ \A n \in 1..CodeBound : Cardinality(pairedBy[n]) <= 1 /\ wrongTries[n] <= CODE_ATTEMPTS
  /\ pairing # None => pairedBy[pairing.n] = {}

(* All of it: one server, as the switch says, the daemon's copy true, and  *)
(* at most one device from one code.                                       *)
ServerTrue == TypeOK /\ OneServer /\ ServerMatches /\ CopyTrue /\ PairingHolds

---------------------------------------------------------------------------
(* Why they hold, for any ports, devices and bounds *)

UnderWay(n) == steps[n] \in {"closing", "starting"}

(* The types of all of it, of a queue of steps. *)
StoreTyped == stored \in State /\ cached \in State \cup {None}

SwitchTyped ==
  /\ \E k \in 1..StepBound : steps \in [1..k -> Stage] /\ wants \in [1..k -> State \cup {None}]
  /\ server \in Server \cup {None} /\ binding \in Port \cup {None} /\ listenError \in BOOLEAN
  /\ listening \cup holds \cup crossed \subseteq DOMAIN steps

PairingTyped ==
  /\ pairing \in Pairing \cup {None} /\ codes \in 0..CodeBound
  /\ pairedBy \in [1..CodeBound -> SUBSET Device] /\ wrongTries \in [1..CodeBound -> Nat]

Typed == StoreTyped /\ SwitchTyped /\ PairingTyped

(* Steps go one after the other, each with the state it holds, by which a  *)
(* server starts unless a command crossed it.                              *)
OneByOne ==
  /\ \A n \in DOMAIN steps, m \in DOMAIN steps : m < n /\ steps[n] # "queued" => steps[m] = "done"
  /\ \A n \in DOMAIN steps : UnderWay(n) => wants[n] \in State
  /\ \A n \in DOMAIN steps : steps[n] = "starting" =>
       /\ binding \in Port
       /\ n \notin crossed => wants[n].enabled /\ binding = wants[n].port

(* A server that closes keeps its port until its step goes on. *)
Served ==
  /\ listening = {} \/ \E n \in DOMAIN steps : listening = {n}
  /\ (\E n \in DOMAIN steps : UnderWay(n)) => server = None
  /\ server = None /\ (\A n \in DOMAIN steps : steps[n] # "closing") => listening = {}
  /\ server # None => listening # {} /\ ~listenError
  /\ server # None => server.on = server.kept \/ listening \cap crossed # {}

(* The last step holds what remote.json says now, or did as it says, or    *)
(* will, unless a command crossed it.                                      *)
LastRight ==
  \A n \in DOMAIN steps \ crossed : (\A m \in DOMAIN steps : m <= n) =>
    /\ UnderWay(n) => wants[n].enabled = stored.enabled /\ wants[n].port = stored.port
    /\ steps[n] = "done" =>
         /\ server # None <=> stored.enabled /\ ~listenError
         /\ server # None => server.kept = stored.port

(* Only the last code stands. *)
CodesRight ==
  /\ \A n \in 1..CodeBound :
       /\ pairedBy[n] = {} \/ \E d \in Device : pairedBy[n] = {d}
       /\ wrongTries[n] <= CODE_ATTEMPTS
       /\ n > codes => pairedBy[n] = {} /\ wrongTries[n] = 0
  /\ pairing # None =>
       /\ pairing.n = codes /\ pairedBy[codes] = {} /\ wrongTries[codes] = pairing.attempts
       /\ pairing.code => pairing.attempts < CODE_ATTEMPTS

IInv == Typed /\ CopyTrue /\ OneByOne /\ Served /\ LastRight /\ CodesRight

(* The steps are a queue, numbered from 1. *)
LEMMA QueueIs ==
  ASSUME SwitchTyped
  PROVE  /\ Cardinality(DOMAIN steps) \in 1..StepBound /\ StepBound \in Nat
         /\ DOMAIN steps = 1..Cardinality(DOMAIN steps)
         /\ steps \in [DOMAIN steps -> Stage] /\ wants \in [DOMAIN steps -> State \cup {None}]
<1>1. PICK k \in 1..StepBound : steps \in [1..k -> Stage] /\ wants \in [1..k -> State \cup {None}]
  BY DEF SwitchTyped
<1>2. StepBound \in Nat /\ k \in Nat
  BY RemoteAssumption
<1>3. Cardinality(1..k) = k
  BY <1>2, FS_Interval
<1> QED BY <1>1, <1>2, <1>3

(* What is loaded is what remote.json says. *)
LEMMA LoadedIs ==
  ASSUME CopyTrue
  PROVE  Loaded = stored
BY DEF CopyTrue, Loaded

(* The daemon starts with a state like that. *)
LEMMA InitIs == Init => IInv
<1> SUFFICES ASSUME Init PROVE IInv
  OBVIOUS
<1>1. /\ CODE_ATTEMPTS \in Nat \ {0} /\ StepBound \in Nat \ {0} /\ CodeBound \in Nat \ {0}
  BY RemoteAssumption
<1>2. stored \in State
  BY DEF Init, State
<1>3. /\ steps \in [1..1 -> Stage] /\ wants \in [1..1 -> State \cup {None}] /\ DOMAIN steps = {1}
      /\ steps[1] = "queued"
  BY DEF Init, Stage
<1>4. Typed
  <2>1. StoreTyped
    BY <1>2 DEF Init, StoreTyped
  <2>2. SwitchTyped
    <3>1. 1 \in 1..StepBound
      BY <1>1
    <3> QED BY <1>3, <3>1 DEF Init, SwitchTyped
  <2>3. PairingTyped
    <3>1. 0 \in 0..CodeBound /\ 0 \in Nat
      BY <1>1
    <3> QED BY <3>1 DEF Init, PairingTyped
  <2> QED BY <2>1, <2>2, <2>3 DEF Typed
<1>5. OneByOne /\ Served /\ LastRight
  BY <1>1, <1>3 DEF Init, OneByOne, Served, LastRight, UnderWay
<1>6. CodesRight
  BY <1>1 DEF Init, CodesRight
<1>7. CopyTrue
  BY DEF Init, CopyTrue
<1> QED BY <1>4, <1>5, <1>6, <1>7 DEF IInv

(* remote.json changes, but for whether the server is on and where. *)
LEMMA DevicesChange ==
  ASSUME IInv, UNCHANGED switchVars, stored' \in State, cached' \in {stored', None},
         holds' \subseteq holds, stored'.enabled = stored.enabled, stored'.port = stored.port
  PROVE  StoreTyped' /\ SwitchTyped' /\ CopyTrue' /\ OneByOne' /\ Served' /\ LastRight'
<1>1. /\ steps' = steps /\ wants' = wants /\ server' = server /\ listenError' = listenError
      /\ listening' = listening /\ binding' = binding /\ crossed' = crossed
  BY DEF switchVars
<1>2. StoreTyped' /\ CopyTrue'
  BY DEF StoreTyped, CopyTrue
<1>3. SwitchTyped'
  BY <1>1 DEF IInv, Typed, SwitchTyped
<1>4. OneByOne' /\ Served'
  BY <1>1 DEF IInv, OneByOne, Served, UnderWay
<1>5. LastRight'
  BY <1>1 DEF IInv, LastRight, UnderWay
<1> QED BY <1>2, <1>3, <1>4, <1>5

(* A step leaves the pairing alone. *)
LEMMA PairingKept ==
  ASSUME IInv, UNCHANGED pairingVars
  PROVE  PairingTyped' /\ CodesRight'
BY DEF IInv, Typed, PairingTyped, CodesRight, pairingVars

(* A step that runs goes on: those before it are done, those after it wait. *)
LEMMA StepGoesOn ==
  ASSUME IInv, NEW n \in DOMAIN steps, NEW stage \in Stage \ {"queued"},
         NEW want \in State \cup {None},
         steps[n] # "done", \A m \in 1..(n - 1) : steps[m] = "done",
         steps' = [steps EXCEPT ![n] = stage], wants' = [wants EXCEPT ![n] = want],
         stage \in {"closing", "starting"} => want \in State,
         crossed' = crossed,
         stage = "starting" =>
           binding' \in Port /\ (n \notin crossed => want.enabled /\ binding' = want.port)
  PROVE  /\ DOMAIN steps' = DOMAIN steps /\ steps'[n] = stage /\ wants'[n] = want
         /\ \A m \in DOMAIN steps : m # n => steps'[m] = steps[m] /\ wants'[m] = wants[m]
         /\ \A m \in DOMAIN steps : m # n => steps[m] \in {"queued", "done"}
         /\ \A m \in DOMAIN steps : m > n => steps[m] = "queued"
         /\ \E k \in 1..StepBound : steps' \in [1..k -> Stage] /\ wants' \in [1..k -> State \cup {None}]
         /\ OneByOne'
<1>1. /\ SwitchTyped /\ OneByOne
  BY DEF IInv, Typed
<1>2. PICK k \in 1..StepBound : steps \in [1..k -> Stage] /\ wants \in [1..k -> State \cup {None}]
  BY <1>1 DEF SwitchTyped
<1>3. DOMAIN steps = 1..k /\ DOMAIN wants = 1..k /\ k \in Nat /\ n \in 1..k
  BY <1>2, QueueIs, <1>1
<1>4. steps' \in [1..k -> Stage] /\ wants' \in [1..k -> State \cup {None}]
  BY <1>2
<1>5. /\ DOMAIN steps' = 1..k /\ steps'[n] = stage /\ wants'[n] = want
      /\ \A m \in 1..k : m # n => steps'[m] = steps[m] /\ wants'[m] = wants[m]
  BY <1>2, <1>3
<1>6. \A m \in 1..k : m > n => steps[m] = "queued"
  BY <1>1, <1>3 DEF OneByOne
<1>7. \A m \in 1..k : m # n => steps[m] \in {"queued", "done"}
  <2> SUFFICES ASSUME NEW m \in 1..k, m # n PROVE steps[m] \in {"queued", "done"}
    OBVIOUS
  <2>1. CASE m < n
    BY <2>1, <1>3
  <2>2. CASE m > n
    BY <2>2, <1>6
  <2> QED BY <2>1, <2>2, <1>3
<1>8. OneByOne'
  <2>1. \A a \in 1..k, b \in 1..k : b < a /\ steps'[a] # "queued" => steps'[b] = "done"
    <3> SUFFICES ASSUME NEW a \in 1..k, NEW b \in 1..k, b < a, steps'[a] # "queued"
                 PROVE  steps'[b] = "done"
      OBVIOUS
    <3>1. a <= n
      BY <1>3, <1>5, <1>6
    <3>2. b < n
      BY <3>1, <1>3
    <3> QED BY <3>2, <1>3, <1>5
  <2>2. \A a \in 1..k : UnderWay(a)' => a = n
    BY <1>5, <1>7 DEF UnderWay
  <2> QED BY <2>1, <2>2, <1>5 DEF OneByOne, UnderWay
<1> QED BY <1>3, <1>4, <1>5, <1>6, <1>7, <1>8

(* A step with no server to close decides what to do of what it found.     *)
LEMMA DecideIs ==
  ASSUME IInv, NEW n \in DOMAIN steps, NEW state \in State,
         steps[n] \in {"queued", "closing"}, \A m \in 1..(n - 1) : steps[m] = "done",
         n \notin crossed /\ (\A m \in DOMAIN steps : m <= n) =>
           state.enabled = stored.enabled /\ state.port = stored.port,
         server # None => state.enabled /\ server.kept = state.port,
         Decide(n, state), UNCHANGED <<stored, server, crossed>>, holds' \subseteq holds \cup {n},
         listening' = IF steps[n] = "closing" THEN {} ELSE listening
  PROVE  SwitchTyped' /\ OneByOne' /\ Served' /\ LastRight'
<1>1. /\ SwitchTyped /\ OneByOne /\ Served /\ LastRight
      /\ {"closing", "starting", "done"} \subseteq Stage \ {"queued"}
  BY DEF IInv, Typed, Stage
<1>2. DOMAIN steps \subseteq Nat /\ n \in Nat
  BY <1>1, QueueIs
<1>3. /\ steps[n] # "done" /\ server' = server /\ stored' = stored /\ crossed' = crossed
      /\ state.port \in Port
  BY DEF State
<1>4. /\ listenError \in BOOLEAN /\ state.enabled \in BOOLEAN /\ stored.enabled \in BOOLEAN
  BY DEF IInv, Typed, SwitchTyped, StoreTyped, State
<1>5. /\ listening' \cup holds' \cup crossed' \subseteq DOMAIN steps
      /\ listening' = {} \/ \E m \in DOMAIN steps : listening' = {m}
  BY <1>1, <1>3 DEF Served, SwitchTyped
<1>6. CASE state.enabled /\ server = None
  <2>1. /\ steps' = [steps EXCEPT ![n] = "starting"] /\ wants' = [wants EXCEPT ![n] = state]
        /\ listenError' = listenError /\ binding' = state.port
    BY <1>6 DEF Decide
  <2>2. /\ DOMAIN steps' = DOMAIN steps /\ steps'[n] = "starting" /\ wants'[n] = state
        /\ \A m \in DOMAIN steps : m # n => steps'[m] = steps[m] /\ wants'[m] = wants[m]
        /\ \A m \in DOMAIN steps : m # n => steps[m] \in {"queued", "done"}
        /\ \A m \in DOMAIN steps : m > n => steps[m] = "queued"
        /\ \E k \in 1..StepBound : steps' \in [1..k -> Stage] /\ wants' \in [1..k -> State \cup {None}]
        /\ OneByOne'
    BY <2>1, <1>1, <1>3, <1>6, StepGoesOn
  <2>3. SwitchTyped'
    BY <2>1, <2>2, <1>1, <1>3, <1>5 DEF SwitchTyped
  <2>4. listening' = {}
    BY <2>2, <1>1, <1>6 DEF Served
  <2>5. Served'
    BY <2>2, <2>4, <1>3, <1>6 DEF Served
  <2>6. LastRight'
    <3> SUFFICES ASSUME NEW a \in DOMAIN steps \ crossed, \A m \in DOMAIN steps : m <= a
                 PROVE  /\ UnderWay(a)' => wants'[a].enabled = stored.enabled /\ wants'[a].port = stored.port
                        /\ steps'[a] # "done"
      BY <2>2, <1>3 DEF LastRight
    <3>1. CASE a = n
      BY <3>1, <2>2
    <3>2. CASE a # n
      <4>1. a > n
        BY <3>2, <1>2
      <4> QED BY <4>1, <3>2, <2>2 DEF UnderWay
    <3> QED BY <3>1, <3>2
  <2> QED BY <2>2, <2>3, <2>5, <2>6
<1>7. CASE ~(state.enabled /\ server = None)
  <2>1. /\ steps' = [steps EXCEPT ![n] = "done"] /\ wants' = [wants EXCEPT ![n] = None]
        /\ listenError' = (listenError /\ state.enabled) /\ binding' = binding
    BY <1>7 DEF Decide
  <2>2. /\ DOMAIN steps' = DOMAIN steps /\ steps'[n] = "done" /\ wants'[n] = None
        /\ \A m \in DOMAIN steps : m # n => steps'[m] = steps[m] /\ wants'[m] = wants[m]
        /\ \A m \in DOMAIN steps : m # n => steps[m] \in {"queued", "done"}
        /\ \A m \in DOMAIN steps : m > n => steps[m] = "queued"
        /\ \E k \in 1..StepBound : steps' \in [1..k -> Stage] /\ wants' \in [1..k -> State \cup {None}]
        /\ OneByOne'
    BY <2>1, <1>1, <1>3, StepGoesOn
  <2>3. SwitchTyped'
    <3>1. listenError' \in BOOLEAN
      BY <2>1
    <3> QED BY <2>1, <3>1, <2>2, <1>1, <1>3, <1>5 DEF SwitchTyped
  <2>4. server = None => listening' = {}
    BY <2>2, <1>1 DEF Served
  <2>5. server # None => steps[n] = "queued" /\ listening # {} /\ ~listenError
    BY <1>1 DEF Served, UnderWay
  <2>6. \A m \in DOMAIN steps : steps'[m] \in {"queued", "done"}
    BY <2>2
  <2>7. Served'
    <3>1. ~\E m \in DOMAIN steps : UnderWay(m)'
      BY <2>6 DEF UnderWay
    <3>2. server # None => listening' # {} /\ ~listenError'
      BY <2>1, <2>5
    <3>3. server # None => server.on = server.kept \/ listening' \cap crossed # {}
      BY <2>5, <1>1 DEF Served
    <3> QED BY <3>1, <3>2, <3>3, <2>2, <2>4, <1>3, <1>5 DEF Served
  <2>8. LastRight'
    <3> SUFFICES ASSUME NEW a \in DOMAIN steps \ crossed, \A m \in DOMAIN steps : m <= a,
                        steps'[a] = "done"
                 PROVE  /\ server # None <=> stored.enabled /\ ~listenError'
                        /\ server # None => server.kept = stored.port
      BY <2>2, <2>6, <1>3 DEF LastRight, UnderWay
    <3>1. a = n
      BY <1>2, <2>2
    <3>2. state.enabled = stored.enabled /\ state.port = stored.port
      BY <3>1
    <3> QED BY <3>2, <2>1, <2>5, <1>4, <1>7
  <2> QED BY <2>2, <2>3, <2>7, <2>8
<1> QED BY <1>6, <1>7

(* The order of the queue: what is behind a step under way is done.        *)
LEMMA BeforeDone ==
  ASSUME IInv, NEW n \in DOMAIN steps, Runs(n) \/ UnderWay(n)
  PROVE  n \in Nat /\ DOMAIN steps \subseteq Nat /\ \A m \in 1..(n - 1) : steps[m] = "done"
<1>1. SwitchTyped /\ OneByOne
  BY DEF IInv, Typed
<1>2. n \in Nat /\ DOMAIN steps \subseteq Nat /\ \A m \in 1..(n - 1) : m \in DOMAIN steps /\ m < n
  BY <1>1, QueueIs
<1>3. CASE Runs(n)
  BY <1>2, <1>3 DEF Runs
<1>4. CASE UnderWay(n)
  BY <1>1, <1>2, <1>4 DEF OneByOne, UnderWay
<1> QED BY <1>2, <1>3, <1>4

(* The daemon keeps what it read. *)
LEMMA LoadIs == IInv /\ Load => IInv'
<1> SUFFICES ASSUME IInv, Load PROVE IInv'
  OBVIOUS
<1>1. stored \in State /\ Loaded = stored /\ cached' = stored /\ stored' = stored /\ holds' = holds
  BY LoadedIs DEF IInv, Typed, StoreTyped, Load
<1>2. StoreTyped' /\ SwitchTyped' /\ CopyTrue' /\ OneByOne' /\ Served' /\ LastRight'
  BY <1>1, DevicesChange DEF Load
<1>3. PairingTyped' /\ CodesRight'
  BY PairingKept DEF Load
<1> QED BY <1>2, <1>3 DEF IInv, Typed

(* What else it keeps is written, or is not. *)
LEMMA RewriteIs == IInv /\ Rewrite => IInv'
<1> SUFFICES ASSUME IInv, Rewrite PROVE IInv'
  OBVIOUS
<1>1. /\ stored \in State /\ stored' = stored /\ cached' = None /\ holds' = {}
      /\ UNCHANGED switchVars /\ UNCHANGED pairingVars
  BY LoadedIs DEF IInv, Typed, StoreTyped, Rewrite, Save, SaveFails
<1>2. StoreTyped' /\ SwitchTyped' /\ CopyTrue' /\ OneByOne' /\ Served' /\ LastRight'
  BY <1>1, DevicesChange
<1>3. PairingTyped' /\ CodesRight'
  BY <1>1, PairingKept
<1> QED BY <1>2, <1>3 DEF IInv, Typed

(* A step closes the server in use. *)
LEMMA StepClosesIs ==
  ASSUME IInv, NEW n \in DOMAIN steps, StepCloses(n)
  PROVE  IInv'
<1>1. stored \in State /\ cached' = stored /\ stored' = stored /\ server' = None
  BY LoadedIs DEF IInv, Typed, StoreTyped, StepCloses
<1>2. StoreTyped' /\ CopyTrue'
  BY <1>1 DEF StoreTyped, CopyTrue
<1>3. /\ steps[n] = "queued" /\ steps' = [steps EXCEPT ![n] = "closing"]
      /\ wants' = [wants EXCEPT ![n] = stored] /\ listening' = listening /\ listenError' = listenError
      /\ binding' = binding /\ crossed' = crossed /\ holds' = holds \cup {n}
      /\ "closing" \in Stage \ {"queued"}
  BY LoadedIs DEF IInv, StepCloses, Runs, Stage
<1>4. n \in Nat /\ DOMAIN steps \subseteq Nat /\ \A m \in 1..(n - 1) : steps[m] = "done"
  BY BeforeDone DEF StepCloses
<1>5. /\ DOMAIN steps' = DOMAIN steps /\ steps'[n] = "closing" /\ wants'[n] = stored
      /\ \A m \in DOMAIN steps : m > n => steps[m] = "queued"
      /\ \A m \in DOMAIN steps : m # n => steps'[m] = steps[m] /\ wants'[m] = wants[m]
      /\ \E k \in 1..StepBound : steps' \in [1..k -> Stage] /\ wants' \in [1..k -> State \cup {None}]
      /\ OneByOne'
  BY <1>1, <1>3, <1>4, StepGoesOn
<1>6. SwitchTyped'
  BY <1>1, <1>3, <1>5 DEF IInv, Typed, SwitchTyped
<1>7. Served'
  BY <1>1, <1>3, <1>5 DEF IInv, Served
<1>8. LastRight'
  <2> SUFFICES ASSUME NEW a \in DOMAIN steps \ crossed, \A m \in DOMAIN steps : m <= a
               PROVE  /\ UnderWay(a)' => wants'[a].enabled = stored.enabled /\ wants'[a].port = stored.port
                      /\ steps'[a] # "done"
    BY <1>1, <1>3, <1>5 DEF LastRight
  <2>1. CASE a = n
    BY <2>1, <1>5
  <2>2. CASE a # n
    <3>1. a > n
      BY <2>2, <1>4
    <3> QED BY <2>2, <3>1, <1>5 DEF UnderWay
  <2> QED BY <2>1, <2>2
<1>9. PairingTyped' /\ CodesRight'
  BY PairingKept DEF StepCloses
<1> QED BY <1>2, <1>5, <1>6, <1>7, <1>8, <1>9 DEF IInv, Typed

(* A step finds the server right, or none. *)
LEMMA StepDecidesIs ==
  ASSUME IInv, NEW n \in DOMAIN steps, StepDecides(n)
  PROVE  IInv'
<1>1. stored \in State /\ Loaded = stored /\ cached' = stored /\ stored' = stored
  BY LoadedIs DEF IInv, Typed, StoreTyped, StepDecides
<1>2. StoreTyped' /\ CopyTrue'
  BY <1>1 DEF StoreTyped, CopyTrue
<1>3. \A m \in 1..(n - 1) : steps[m] = "done"
  BY BeforeDone DEF StepDecides
<1>4. /\ steps[n] = "queued" /\ Decide(n, stored) /\ UNCHANGED <<stored, server, crossed>>
      /\ holds' \subseteq holds \cup {n}
      /\ listening' = listening /\ (server # None => stored.enabled /\ server.kept = stored.port)
  BY <1>1 DEF StepDecides, Runs
<1>5. SwitchTyped' /\ OneByOne' /\ Served' /\ LastRight'
  BY <1>1, <1>3, <1>4, DecideIs
<1>6. PairingTyped' /\ CodesRight'
  BY PairingKept DEF StepDecides
<1> QED BY <1>2, <1>5, <1>6 DEF IInv, Typed

(* The server a step closes is closed. *)
LEMMA StepClosedIs ==
  ASSUME IInv, NEW n \in DOMAIN steps, StepClosed(n)
  PROVE  IInv'
<1>1. /\ steps[n] = "closing" /\ UnderWay(n) /\ listening' = {} /\ UNCHANGED <<stored, server, crossed>>
      /\ cached' = cached /\ stored' = stored /\ holds' \subseteq holds \cup {n} /\ Decide(n, wants[n])
  BY DEF StepClosed, UnderWay
<1>2. StoreTyped' /\ CopyTrue'
  BY <1>1 DEF IInv, Typed, StoreTyped, CopyTrue
<1>3. \A m \in 1..(n - 1) : steps[m] = "done"
  BY <1>1, BeforeDone
<1>4. wants[n] \in State /\ server = None
  BY <1>1 DEF IInv, OneByOne, Served
<1>5. n \notin crossed /\ (\A m \in DOMAIN steps : m <= n) =>
        wants[n].enabled = stored.enabled /\ wants[n].port = stored.port
  BY <1>1 DEF IInv, LastRight
<1>6. SwitchTyped' /\ OneByOne' /\ Served' /\ LastRight'
  BY <1>1, <1>3, <1>4, <1>5, DecideIs
<1>7. PairingTyped' /\ CodesRight'
  BY PairingKept DEF StepClosed
<1> QED BY <1>2, <1>6, <1>7 DEF IInv, Typed

(* A server listens, or cannot. *)
LEMMA StepListensIs ==
  ASSUME IInv, NEW n \in DOMAIN steps, StepListens(n)
  PROVE  IInv'
<1>1. /\ steps[n] = "starting" /\ UnderWay(n) /\ steps' = [steps EXCEPT ![n] = "done"]
      /\ wants' = [wants EXCEPT ![n] = None] /\ cached' \in {cached, None} /\ stored' = stored
      /\ binding' = None /\ holds' = holds \ {n} /\ crossed' = crossed
      /\ "done" \in Stage \ {"queued"}
  BY DEF StepListens, UnderWay, Stage
<1>2. StoreTyped' /\ CopyTrue'
  BY <1>1 DEF IInv, Typed, StoreTyped, CopyTrue
<1>3. n \in Nat /\ DOMAIN steps \subseteq Nat /\ \A m \in 1..(n - 1) : steps[m] = "done"
  BY <1>1, BeforeDone
<1>4. /\ DOMAIN steps' = DOMAIN steps /\ steps'[n] = "done" /\ wants'[n] = None
      /\ \A m \in DOMAIN steps : m # n => steps'[m] = steps[m] /\ wants'[m] = wants[m]
      /\ \A m \in DOMAIN steps : m # n => steps[m] \in {"queued", "done"}
      /\ \A m \in DOMAIN steps : m > n => steps[m] = "queued"
      /\ \E k \in 1..StepBound : steps' \in [1..k -> Stage] /\ wants' \in [1..k -> State \cup {None}]
      /\ OneByOne'
  BY <1>1, <1>3, StepGoesOn
<1>5. /\ wants[n] \in State /\ wants[n].port \in Port /\ binding \in Port
      /\ n \notin crossed => wants[n].enabled /\ binding = wants[n].port
      /\ server = None /\ listening = {}
  <2>1. wants[n] \in State /\ server = None
    BY <1>1 DEF IInv, OneByOne, Served
  <2>2. listening = {}
    BY <1>1, <1>4, <2>1 DEF IInv, Served
  <2>3. binding \in Port /\ (n \notin crossed => wants[n].enabled /\ binding = wants[n].port)
    BY <1>1 DEF IInv, OneByOne
  <2> QED BY <2>1, <2>2, <2>3 DEF State
<1> DEFINE up == [kept |-> wants[n].port, on |-> binding]
<1>6. \/ server' = up /\ listenError' = FALSE /\ listening' = {n}
      \/ server' = None /\ listenError' = TRUE /\ listening' = {}
  BY <1>5 DEF StepListens
<1>12. /\ up \in Server /\ up # None /\ up.kept = wants[n].port
       /\ up.on = up.kept \/ n \in crossed
  BY <1>5, RemoteAssumption DEF Server
<1> HIDE DEF up
<1>7. \A m \in DOMAIN steps : steps'[m] \in {"queued", "done"}
  BY <1>4
<1>8. SwitchTyped'
  BY <1>1, <1>4, <1>6, <1>12 DEF IInv, Typed, SwitchTyped
<1>9. Served'
  BY <1>1, <1>4, <1>6, <1>7, <1>12 DEF Served, UnderWay
<1>10. LastRight'
  <2> SUFFICES ASSUME NEW a \in DOMAIN steps \ crossed, \A m \in DOMAIN steps : m <= a,
                      steps'[a] = "done"
               PROVE  /\ server' # None <=> stored.enabled /\ ~listenError'
                      /\ server' # None => server'.kept = stored.port
    BY <1>1, <1>4, <1>7 DEF LastRight, UnderWay
  <2>1. a = n
    BY <1>3, <1>4
  <2>2. stored.enabled /\ stored.port = wants[n].port
    <3>1. n \notin crossed
      BY <2>1
    <3>2. wants[n].enabled = stored.enabled /\ wants[n].port = stored.port
      BY <1>1, <2>1, <3>1 DEF IInv, LastRight
    <3> QED BY <3>1, <3>2, <1>5
  <2> QED BY <2>2, <1>6, <1>12
<1>11. PairingTyped' /\ CodesRight'
  BY PairingKept DEF StepListens
<1> QED BY <1>2, <1>4, <1>8, <1>9, <1>10, <1>11 DEF IInv, Typed

(* A step that a command crosses holds what that said.                     *)
LEMMA HoldingIs ==
  ASSUME IInv, NEW state \in State, NEW n,
         n = Cardinality(DOMAIN steps)
  PROVE  LET holding == [m \in DOMAIN wants |-> IF m \in holds THEN state ELSE wants[m]] IN
         /\ n \in 1..StepBound /\ n \in Nat /\ StepBound \in Nat /\ DOMAIN steps = 1..n
         /\ steps \in [1..n -> Stage]
         /\ holding \in [1..n -> State \cup {None}]
         /\ \A m \in 1..n : m \in holds => holding[m] = state
         /\ \A m \in 1..n : m \notin holds => holding[m] = wants[m]
         /\ \A m \in 1..n : UnderWay(m) => holding[m] \in State
<1> DEFINE holding == [m \in DOMAIN wants |-> IF m \in holds THEN state ELSE wants[m]]
<1>1. SwitchTyped /\ OneByOne
  BY DEF IInv, Typed
<1>2. /\ n \in 1..StepBound /\ StepBound \in Nat /\ DOMAIN steps = 1..n
      /\ steps \in [1..n -> Stage] /\ wants \in [1..n -> State \cup {None}]
  BY <1>1, QueueIs
<1>3. holding = [m \in 1..n |-> IF m \in holds THEN state ELSE wants[m]]
  BY <1>2
<1>4. \A m \in 1..n : UnderWay(m) => wants[m] \in State
  BY <1>1, <1>2 DEF OneByOne
<1> HIDE DEF holding
<1>5. holding \in [1..n -> State \cup {None}]
  BY <1>2, <1>3
<1> QED BY <1>2, <1>3, <1>4, <1>5 DEF holding

(* A command whose write fails leaves remote.json and the steps as they    *)
(* are, but for the state of those it crossed.                             *)
LEMMA SwitchFailsIs ==
  ASSUME IInv, NEW state \in State, SaveFails,
         wants' = [m \in DOMAIN wants |-> IF m \in holds THEN state ELSE wants[m]],
         crossed' = crossed \cup holds, UNCHANGED <<steps, binding, server, listenError, listening>>
  PROVE  StoreTyped' /\ SwitchTyped' /\ CopyTrue' /\ OneByOne' /\ Served' /\ LastRight'
<1> DEFINE k == Cardinality(DOMAIN steps)
<1>1. /\ k \in 1..StepBound /\ k \in Nat /\ DOMAIN steps = 1..k /\ steps \in [1..k -> Stage]
      /\ wants' \in [1..k -> State \cup {None}]
      /\ \A m \in 1..k : m \notin holds => wants'[m] = wants[m]
      /\ \A m \in 1..k : UnderWay(m) => wants'[m] \in State
  BY HoldingIs
<1> HIDE DEF k
<1>2. /\ stored' = stored /\ cached' = None /\ holds' = {} /\ steps' = steps
      /\ SwitchTyped /\ OneByOne /\ Served /\ LastRight /\ StoreTyped
  BY DEF SaveFails, IInv, Typed
<1>3. StoreTyped' /\ CopyTrue'
  BY <1>2 DEF StoreTyped, CopyTrue
<1>4. SwitchTyped'
  BY <1>1, <1>2 DEF SwitchTyped
<1>5. OneByOne'
  BY <1>1, <1>2 DEF OneByOne, UnderWay
<1>6. Served'
  BY <1>2 DEF Served, UnderWay
<1>7. LastRight'
  BY <1>1, <1>2 DEF LastRight, UnderWay
<1> QED BY <1>3, <1>4, <1>5, <1>6, <1>7

(* One that is written asks for a step, which finds what it wrote.         *)
LEMMA SwitchAsksIs ==
  ASSUME IInv, NEW state \in State, Save(state), NEW n, n = Cardinality(DOMAIN steps) + 1,
         n <= StepBound,
         Asked(n, [m \in DOMAIN wants |-> IF m \in holds THEN state ELSE wants[m]]),
         crossed' = crossed \cup {m \in holds : steps[m] = "starting"},
         UNCHANGED <<binding, server, listenError, listening>>
  PROVE  StoreTyped' /\ SwitchTyped' /\ CopyTrue' /\ OneByOne' /\ Served' /\ LastRight'
<1> DEFINE k == Cardinality(DOMAIN steps)
           holding == [m \in DOMAIN wants |-> IF m \in holds THEN state ELSE wants[m]]
<1>1. /\ k \in 1..StepBound /\ k \in Nat /\ StepBound \in Nat /\ DOMAIN steps = 1..k
      /\ steps \in [1..k -> Stage] /\ holding \in [1..k -> State \cup {None}]
      /\ \A m \in 1..k : m \notin holds => holding[m] = wants[m]
      /\ \A m \in 1..k : UnderWay(m) => holding[m] \in State
  BY HoldingIs
<1>2. /\ steps' = [m \in 1..n |-> IF m = n THEN "queued" ELSE steps[m]]
      /\ wants' = [m \in 1..n |-> IF m = n THEN None ELSE holding[m]]
  BY DEF Asked
<1>3. n = k + 1
  OBVIOUS
<1> HIDE DEF k, holding
<1>4. /\ stored' = state /\ cached' = None /\ holds' = {}
      /\ SwitchTyped /\ OneByOne /\ Served
  BY DEF Save, IInv, Typed
<1>5. /\ DOMAIN steps' = 1..n /\ steps'[n] = "queued" /\ wants'[n] = None
      /\ \A m \in 1..k : steps'[m] = steps[m] /\ wants'[m] = holding[m]
      /\ n \in 1..StepBound /\ 1..n = 1..k \cup {n} /\ n \notin 1..k
  BY <1>1, <1>2, <1>3
<1>6. steps' \in [1..n -> Stage] /\ wants' \in [1..n -> State \cup {None}]
  <2>1. "queued" \in Stage
    BY DEF Stage
  <2> QED BY <1>1, <1>2, <1>5, <2>1
<1>7. StoreTyped' /\ CopyTrue'
  BY <1>4 DEF StoreTyped, CopyTrue
<1>8. SwitchTyped'
  BY <1>1, <1>4, <1>5, <1>6 DEF SwitchTyped
<1>9. OneByOne'
  <2>1. \A a \in 1..n, b \in 1..n : b < a /\ steps'[a] # "queued" => steps'[b] = "done"
    <3> SUFFICES ASSUME NEW a \in 1..n, NEW b \in 1..n, b < a, steps'[a] # "queued"
                 PROVE  steps'[b] = "done"
      OBVIOUS
    <3>1. a \in 1..k /\ b \in 1..k
      BY <1>1, <1>3, <1>5
    <3> QED BY <3>1, <1>1, <1>4, <1>5 DEF OneByOne
  <2>2. \A a \in 1..n : UnderWay(a)' => wants'[a] \in State
    BY <1>1, <1>5 DEF UnderWay
  <2>3. \A a \in 1..n : steps'[a] = "starting" =>
          /\ binding \in Port
          /\ a \notin crossed' => wants'[a].enabled /\ binding = wants'[a].port
    BY <1>1, <1>4, <1>5 DEF OneByOne
  <2> QED BY <2>1, <2>2, <2>3, <1>5 DEF OneByOne
<1>10. Served'
  BY <1>1, <1>4, <1>5 DEF Served, UnderWay
<1>11. LastRight'
  <2>1. \A a \in 1..n : (\A m \in 1..n : m <= a) => a = n
    BY <1>1, <1>3, <1>5
  <2> QED BY <1>5, <2>1 DEF LastRight, UnderWay
<1> QED BY <1>7, <1>8, <1>9, <1>10, <1>11

(* On and off. *)
LEMMA SwitchIs ==
  ASSUME IInv, NEW enabled \in BOOLEAN, NEW port \in Port, Switch(enabled, port)
  PROVE  IInv'
<1> DEFINE state == [Loaded EXCEPT !.enabled = enabled, !.port = port]
<1>1. state \in State
  BY LoadedIs DEF IInv, Typed, StoreTyped, State
<1> HIDE DEF state
<1>2. PairingTyped' /\ CodesRight'
  BY PairingKept DEF Switch
<1>3. StoreTyped' /\ SwitchTyped' /\ CopyTrue' /\ OneByOne' /\ Served' /\ LastRight'
  BY <1>1, SwitchFailsIs, SwitchAsksIs DEF Switch, state
<1> QED BY <1>2, <1>3 DEF IInv, Typed

(* What leaves the store and the steps alone. *)
LEMMA OnlyPairing ==
  ASSUME IInv, UNCHANGED storeVars, UNCHANGED switchVars
  PROVE  StoreTyped' /\ SwitchTyped' /\ CopyTrue' /\ OneByOne' /\ Served' /\ LastRight'
<1>1. /\ stored' = stored /\ cached' = cached /\ cached \in {stored, None} /\ stored \in State
      /\ holds' = holds
  BY DEF IInv, Typed, StoreTyped, CopyTrue, storeVars
<1> QED BY <1>1, DevicesChange

(* A code made voids the one before. *)
LEMMA CreateCodeIs == IInv /\ CreateCode => IInv'
<1> SUFFICES ASSUME IInv, CreateCode PROVE IInv'
  OBVIOUS
<1>1. StoreTyped' /\ SwitchTyped' /\ CopyTrue' /\ OneByOne' /\ Served' /\ LastRight'
  BY OnlyPairing DEF CreateCode
<1>2. CODE_ATTEMPTS \in Nat \ {0} /\ CodeBound \in Nat \ {0} /\ PairingTyped /\ CodesRight
  BY RemoteAssumption DEF IInv, Typed
<1>3. /\ codes \in Nat /\ codes < CodeBound /\ codes' = codes + 1
      /\ pairing' = [n |-> codes + 1, code |-> TRUE, attempts |-> 0, expired |-> FALSE]
      /\ pairedBy' = pairedBy /\ wrongTries' = wrongTries
  BY <1>2 DEF CreateCode, PairingTyped
<1>4. codes' \in 1..CodeBound /\ 0 \in 0..CODE_ATTEMPTS
  BY <1>2, <1>3
<1>5. pairing' \in Pairing
  BY <1>3, <1>4 DEF Pairing
<1>6. pairedBy[codes + 1] = {} /\ wrongTries[codes + 1] = 0
  BY <1>2, <1>3, <1>4 DEF CodesRight
<1>7. PairingTyped'
  BY <1>2, <1>3, <1>4, <1>5 DEF PairingTyped
<1>8. \A n \in 1..CodeBound : n > codes' => n > codes
  BY <1>3
<1>9. CodesRight'
  BY <1>2, <1>3, <1>6, <1>8 DEF CodesRight
<1> QED BY <1>1, <1>7, <1>9 DEF IInv, Typed

(* A code expires. *)
LEMMA ExpireIs == IInv /\ Expire => IInv'
<1> SUFFICES ASSUME IInv, Expire PROVE IInv'
  OBVIOUS
<1>1. StoreTyped' /\ SwitchTyped' /\ CopyTrue' /\ OneByOne' /\ Served' /\ LastRight'
  BY OnlyPairing DEF Expire
<1>2. PairingTyped /\ CodesRight
  BY DEF IInv, Typed
<1>3. /\ pairing # None /\ pairing' = [pairing EXCEPT !.expired = TRUE]
      /\ codes' = codes /\ pairedBy' = pairedBy /\ wrongTries' = wrongTries
  BY DEF Expire
<1>4. /\ pairing' \in Pairing /\ pairing'.n = pairing.n /\ pairing'.code = pairing.code
      /\ pairing'.attempts = pairing.attempts
  BY <1>2, <1>3 DEF PairingTyped, Pairing
<1>5. PairingTyped'
  BY <1>2, <1>3, <1>4 DEF PairingTyped
<1>6. CodesRight'
  BY <1>2, <1>3, <1>4 DEF CodesRight
<1> QED BY <1>1, <1>5, <1>6 DEF IInv, Typed

(* A device comes off the list. *)
LEMMA RevokeIs ==
  ASSUME IInv, NEW d \in Device, Revoke(d)
  PROVE  IInv'
<1>1. stored \in State /\ Loaded = stored
  BY LoadedIs DEF IInv, Typed, StoreTyped
<1>2. /\ stored' = [stored EXCEPT !.devices = @ \ {d}] \/ stored' = stored
      /\ cached' = None /\ holds' = {} /\ UNCHANGED switchVars /\ UNCHANGED pairingVars
  BY <1>1 DEF Revoke, Save, SaveFails
<1>3. stored' \in State /\ stored'.enabled = stored.enabled /\ stored'.port = stored.port
  BY <1>1, <1>2 DEF State
<1>4. StoreTyped' /\ SwitchTyped' /\ CopyTrue' /\ OneByOne' /\ Served' /\ LastRight'
  BY <1>2, <1>3, DevicesChange
<1>5. PairingTyped' /\ CodesRight'
  BY <1>2, PairingKept
<1> QED BY <1>4, <1>5 DEF IInv, Typed

(* A code that pairs is used up, for the device it pairs. *)
LEMMA PairsIs ==
  ASSUME IInv, NEW d \in Device, pairing # None, Pairs(d), UNCHANGED <<codes, wrongTries>>,
         UNCHANGED switchVars
  PROVE  IInv'
<1>1. stored \in State /\ Loaded = stored /\ PairingTyped /\ CodesRight
  BY LoadedIs DEF IInv, Typed, StoreTyped
<1>2. /\ pairing' = None /\ cached' = None /\ holds' = {}
      /\ \/ /\ stored' = [stored EXCEPT !.devices = @ \cup {d}]
            /\ pairedBy' = [pairedBy EXCEPT ![pairing.n] = @ \cup {d}]
         \/ stored' = stored /\ pairedBy' = pairedBy
  BY <1>1 DEF Pairs, Save, SaveFails
<1>3. stored' \in State /\ stored'.enabled = stored.enabled /\ stored'.port = stored.port
  BY <1>1, <1>2 DEF State
<1>4. StoreTyped' /\ SwitchTyped' /\ CopyTrue' /\ OneByOne' /\ Served' /\ LastRight'
  BY <1>2, <1>3, DevicesChange
<1>5. pairing.n \in 1..CodeBound /\ pairing.n = codes /\ pairedBy[codes] = {}
  BY <1>1 DEF PairingTyped, Pairing, CodesRight
<1>6. /\ pairedBy' \in [1..CodeBound -> SUBSET Device]
      /\ pairedBy'[codes] \in {{}, {d}}
      /\ \A n \in 1..CodeBound : n # codes => pairedBy'[n] = pairedBy[n]
  <2>1. pairedBy \in [1..CodeBound -> SUBSET Device] /\ {d} \in SUBSET Device
    BY <1>1 DEF PairingTyped
  <2>2. CASE pairedBy' = pairedBy
    BY <2>1, <2>2, <1>5
  <2>3. CASE pairedBy' = [pairedBy EXCEPT ![pairing.n] = @ \cup {d}]
    <3>1. pairedBy[pairing.n] \cup {d} = {d}
      BY <1>5
    <3>2. pairedBy' = [pairedBy EXCEPT ![codes] = {d}]
      BY <2>3, <3>1, <1>5
    <3> QED BY <2>1, <3>2, <1>5
  <2> QED BY <1>2, <2>2, <2>3
<1>7. PairingTyped'
  BY <1>1, <1>2, <1>6 DEF PairingTyped
<1>8. codes \in Nat
  BY <1>1, RemoteAssumption DEF PairingTyped
<1>9. CodesRight'
  <2>1. \A n \in 1..CodeBound : pairedBy'[n] = {} \/ \E e \in Device : pairedBy'[n] = {e}
    BY <1>1, <1>6 DEF CodesRight
  <2>2. \A n \in 1..CodeBound : n > codes => pairedBy'[n] = {}
    BY <1>1, <1>6, <1>8 DEF CodesRight
  <2> QED BY <1>1, <1>2, <2>1, <2>2 DEF CodesRight
<1> QED BY <1>4, <1>7, <1>9 DEF IInv, Typed

(* A pairing that expired is cleared. *)
LEMMA ClearedIs ==
  ASSUME IInv, pairing' = None, UNCHANGED <<storeVars, pairedBy, wrongTries, codes>>,
         UNCHANGED switchVars
  PROVE  IInv'
<1>1. StoreTyped' /\ SwitchTyped' /\ CopyTrue' /\ OneByOne' /\ Served' /\ LastRight'
  BY OnlyPairing
<1>2. PairingTyped' /\ CodesRight'
  BY DEF IInv, Typed, PairingTyped, CodesRight
<1> QED BY <1>1, <1>2 DEF IInv, Typed

(* The code of a pairing put together. *)
LEMMA FieldIs ==
  ASSUME NEW p, NEW n, NEW code \in BOOLEAN, NEW attempts, NEW expired,
         p = [n |-> n, code |-> code, attempts |-> attempts, expired |-> expired]
  PROVE  p.code = code
OBVIOUS

(* A wrong code counts as a try. *)
LEMMA WrongCodeIs ==
  ASSUME IInv, pairing # None, pairing.code,
         pairing' = [pairing EXCEPT !.attempts = @ + 1, !.code = ~UsedUp(pairing.attempts + 1)],
         wrongTries' = [wrongTries EXCEPT ![pairing.n] = @ + 1],
         UNCHANGED <<storeVars, pairedBy, codes>>, UNCHANGED switchVars
  PROVE  IInv'
<1>1. StoreTyped' /\ SwitchTyped' /\ CopyTrue' /\ OneByOne' /\ Served' /\ LastRight'
  BY OnlyPairing
<1>2. CODE_ATTEMPTS \in Nat /\ CodeBound \in Nat /\ PairingTyped /\ CodesRight
  BY RemoteAssumption DEF IInv, Typed
<1>3. /\ pairing \in Pairing /\ pairing.n \in 1..CodeBound /\ pairing.n = codes
      /\ wrongTries[codes] = pairing.attempts /\ pairing.attempts \in Nat
      /\ pairing.attempts < CODE_ATTEMPTS
  BY <1>2 DEF PairingTyped, Pairing, CodesRight
<1> DEFINE code == ~UsedUp(pairing.attempts + 1)
<1>4. code \in BOOLEAN /\ (code => pairing.attempts + 1 < CODE_ATTEMPTS)
  BY <1>2, <1>3 DEF UsedUp
<1>5. pairing' = [n |-> pairing.n, code |-> code, attempts |-> pairing.attempts + 1,
                  expired |-> pairing.expired]
  BY <1>3 DEF Pairing
<1> HIDE DEF code
<1>6. pairing.attempts + 1 \in 0..CODE_ATTEMPTS
  BY <1>2, <1>3
<1>7. pairing' \in Pairing
  BY <1>3, <1>4, <1>5, <1>6 DEF Pairing
<1>8. /\ wrongTries' \in [1..CodeBound -> Nat] /\ wrongTries'[codes] = pairing.attempts + 1
      /\ \A n \in 1..CodeBound : n # codes => wrongTries'[n] = wrongTries[n]
  BY <1>2, <1>3 DEF PairingTyped
<1>9. PairingTyped'
  BY <1>2, <1>7, <1>8 DEF PairingTyped
<1>10. CodesRight'
  <2>1. \A n \in 1..CodeBound : wrongTries'[n] <= CODE_ATTEMPTS /\ (n > codes => wrongTries'[n] = 0)
    BY <1>2, <1>3, <1>6, <1>8 DEF CodesRight
  <2>2. /\ pairing'.n = codes /\ wrongTries'[codes] = pairing'.attempts
        /\ pairing'.code => pairing'.attempts < CODE_ATTEMPTS
    <3>1. pairing'.n = pairing.n /\ pairing'.attempts = pairing.attempts + 1
      BY <1>5
    <3>2. pairing'.code = code
      BY ONLY <1>4, <1>5, FieldIs, Zenon
    <3> QED BY <3>1, <3>2, <1>3, <1>4, <1>8
  <2> QED BY <1>2, <2>1, <2>2 DEF CodesRight
<1> QED BY <1>1, <1>9, <1>10 DEF IInv, Typed

(* A phone sends a code, or the secret. *)
LEMMA ClaimIs ==
  ASSUME IInv, NEW d \in Device, NEW right \in BOOLEAN, Claim(d, right)
  PROVE  IInv'
<1>1. CASE pairing.expired
  BY <1>1, ClearedIs DEF Claim
<1>2. CASE ~pairing.expired /\ right
  BY <1>2, PairsIs DEF Claim
<1>3. CASE ~pairing.expired /\ ~right
  BY <1>3, WrongCodeIs DEF Claim
<1> QED BY <1>1, <1>2, <1>3

LEMMA ClaimSecretIs ==
  ASSUME IInv, NEW d \in Device, ClaimSecret(d)
  PROVE  IInv'
<1>1. CASE pairing.expired
  BY <1>1, ClearedIs DEF ClaimSecret
<1>2. CASE ~pairing.expired
  BY <1>2, PairsIs DEF ClaimSecret
<1> QED BY <1>1, <1>2

(* Whatever happens, it stays so. *)
LEMMA NextIs == IInv /\ [Next]_vars => IInv'
<1> SUFFICES ASSUME IInv, [Next]_vars PROVE IInv'
  OBVIOUS
<1>1. CASE Load \/ Rewrite
  BY <1>1, LoadIs, RewriteIs
<1>2. ASSUME NEW n \in DOMAIN steps,
             StepCloses(n) \/ StepDecides(n) \/ StepClosed(n) \/ StepListens(n)
      PROVE  IInv'
  BY <1>2, StepClosesIs, StepDecidesIs, StepClosedIs, StepListensIs
<1>3. ASSUME NEW enabled \in BOOLEAN, NEW port \in Port, Switch(enabled, port)
      PROVE  IInv'
  BY <1>3, SwitchIs
<1>4. CASE CreateCode \/ Expire
  BY <1>4, CreateCodeIs, ExpireIs
<1>5. ASSUME NEW d \in Device, NEW right \in BOOLEAN, Claim(d, right)
      PROVE  IInv'
  BY <1>5, ClaimIs
<1>6. ASSUME NEW d \in Device, ClaimSecret(d) \/ Revoke(d)
      PROVE  IInv'
  BY <1>6, ClaimSecretIs, RevokeIs
<1>7. CASE UNCHANGED vars
  <2>1. UNCHANGED storeVars /\ UNCHANGED switchVars /\ UNCHANGED pairingVars
    BY <1>7 DEF vars
  <2> QED BY <2>1, OnlyPairing, PairingKept DEF IInv, Typed
<1> QED BY <1>1, <1>2, <1>3, <1>4, <1>5, <1>6, <1>7 DEF Next

(* At most one server holds a port, and what listens is what was asked. *)
LEMMA SwitchRight == IInv => OneServer /\ ServerMatches
<1> SUFFICES ASSUME IInv PROVE OneServer /\ ServerMatches
  OBVIOUS
<1>1. SwitchTyped /\ OneByOne /\ Served /\ LastRight
  BY DEF IInv, Typed
<1>2. OneServer
  <2>1. Cardinality({}) = 0 /\ \A m : Cardinality({m}) = 1
    BY FS_EmptySet, FS_Singleton
  <2>2. Cardinality(listening) \in {0, 1}
    BY <1>1, <2>1 DEF Served
  <2> QED BY <2>2 DEF OneServer
<1>3. ServerMatches
  <2> DEFINE last == Cardinality(DOMAIN steps)
  <2>1. last \in DOMAIN steps /\ \A m \in DOMAIN steps : m <= last
    BY <1>1, QueueIs
  <2> QED BY <1>1, <2>1 DEF ServerMatches, LastRight, Served
<1> QED BY <1>2, <1>3

(* A code pairs one device, of so many tries. *)
LEMMA CodesHold == IInv => PairingHolds
<1> SUFFICES ASSUME IInv PROVE PairingHolds
  OBVIOUS
<1>1. PairingTyped /\ CodesRight
  BY DEF IInv, Typed
<1>2. Cardinality({}) = 0 /\ \A d : Cardinality({d}) = 1
  BY FS_EmptySet, FS_Singleton
<1>3. \A n \in 1..CodeBound : Cardinality(pairedBy[n]) \in {0, 1}
  BY <1>1, <1>2 DEF CodesRight
<1>4. \A n \in 1..CodeBound : Cardinality(pairedBy[n]) <= 1 /\ wrongTries[n] <= CODE_ATTEMPTS
  BY <1>1, <1>3 DEF CodesRight
<1> QED BY <1>1, <1>4 DEF CodesRight, PairingHolds

(* The types, as the run checks them. *)
LEMMA TypesHold == IInv => TypeOK
BY QueueIs DEF IInv, Typed, StoreTyped, SwitchTyped, PairingTyped, TypeOK

(* The invariant the others follow from. *)
THEOREM RemoteInvariant == Spec => []IInv
<1>1. Init => IInv
  BY InitIs
<1>2. IInv /\ [Next]_vars => IInv'
  BY NextIs
<1> QED BY <1>1, <1>2, PTL DEF Spec

(* However commands, failed writes and servers that start and close        *)
(* overlap: one server at most holds a port; once every step is done what  *)
(* listens is what remote.json says, but for the two cases of              *)
(* ServerMatches, where a command changed the state a step holds           *)
(* (control.ts, run and applyNow); the daemon's copy says no other than    *)
(* the file; and a code pairs one phone within its tries (pairing.ts, save *)
(* and claim).                                                             *)
THEOREM ServerAlwaysTrue == Spec => []ServerTrue
<1>1. IInv => ServerTrue
  BY TypesHold, SwitchRight, CodesHold DEF IInv, ServerTrue
<1> QED BY <1>1, RemoteInvariant, PTL
====
