------------------------- MODULE TraderCycleProofs -------------------------
(***************************************************************************)
(* Theorems about TraderCycle, for any symbols, universes, lots, slots,    *)
(* retries and bounds: what an automatic trader and the daemon promise     *)
(* each other about one ledger and one account.                            *)
(***************************************************************************)
EXTENDS TraderCycle, FiniteSetTheorems, TLAPS

(***************************************************************************)
(* Types, and the work that a phase of a cycle allows                      *)
(***************************************************************************)

\* What an actor sends while its cycle is at c.
KindsAt(a, c) ==
  CASE a = "trader" /\ c = "exits"    -> {"partial", "full"}
    [] a = "trader" /\ c = "entries"  -> {"buy"}
    [] a = "daemon" /\ c = "exits"    -> {"partial", "full"} \cup (IF Zone THEN {"dca"} ELSE {})
    [] a = "daemon" /\ c = "entries"  -> {"buy"}
    [] a = "daemon" /\ c = "carrying" -> {"carry"}
    [] OTHER -> {}

\* Orders that are decided from a loaded entry.
UsesEntry(a, kind) == kind = "dca" \/ (a = "trader" /\ kind # "buy")

\* Shares bought so far.
Cap == Lot * bought

ItemOk(a, i) ==
  /\ i.kind \in KindsAt(a, pc[a])
  /\ UsesEntry(a, i.kind) => snap[a][i.sym] # None
  /\ i.kind = "partial" /\ a = "daemon" => heldSnap[i.sym] >= 1
  /\ i.kind = "partial" /\ a = "trader" => snap[a][i.sym].total >= 2

JobOk(a) ==
  LET j == job[a] IN
  /\ j.kind \in KindsAt(a, pc[a])
  /\ UsesEntry(a, j.kind) => snap[a][j.sym] # None
  /\ j.kind = "partial" => j.qty >= 1
  /\ j.kind = "partial" /\ a = "trader" => j.qty <= snap[a][j.sym].total
  /\ j.kind \in Buys => j.qty = Lot
  /\ j.kind = "buy" /\ j.answered => Lot <= Cap
  /\ j.kind = "dca" /\ j.answered => snap[a][j.sym].qty + Lot <= Cap

WorkOk ==
  \A a \in Actors : (\A i \in plan[a] : ItemOk(a, i)) /\ (job[a] # None => JobOk(a))

\* The trader works only where its mode puts it.
PlaceOk ==
  /\ pc["trader"] \in {"idle", "exits", "entries"}
  /\ pc["trader"] # "idle" => ~Zone
  /\ pc["daemon"] = "entries" => Zone
  /\ ~Apart /\ pc["trader"] # "idle" => mode = "inside" /\ pc["daemon"] = "exits" /\ Done("daemon")

\* Nobody holds, knows or notes more shares than were bought; only an entry of a
\* zone strategy counts the shares of its second tranche before they are ordered.
EntryOk(entry) ==
  entry # None =>
    /\ entry.qty <= Cap
    /\ ~Zone => entry.total <= Cap
    /\ entry.rest => Zone

AmountsOk ==
  \A s \in Symbols :
    /\ shares[s] + buying[s] <= Cap
    /\ selling[s] <= shares[s]
    /\ heldSnap[s] <= Cap
    /\ EntryOk(book[s])
    /\ \A a \in Actors : EntryOk(snap[a][s])

TypeInv == TypeOK /\ WorkOk /\ PlaceOk /\ AmountsOk

(***************************************************************************)
(* Arithmetic of the bounds                                                *)
(***************************************************************************)

LEMMA Bounds ==
  ASSUME TypeOK
  PROVE  /\ Lot \in Nat \ {0} /\ MaxShares \in Nat /\ Lot <= MaxShares
         /\ Cap \in Nat /\ Cap <= MaxShares
<1>1. Lot \in Nat \ {0} /\ MaxBuys[mode] \in Nat \ {0} /\ bought \in 0..MaxBuys[mode]
  BY NumbersAssumption DEF TypeOK
<1>2. \A m, n \in Nat : m <= n => Lot * m \in Nat /\ Lot * n \in Nat /\ Lot * m <= Lot * n
  BY <1>1
<1>3. Lot * 1 <= Lot * MaxBuys[mode] /\ Lot * bought <= Lot * MaxBuys[mode]
  BY <1>1, <1>2
<1> QED
  BY <1>1, <1>2, <1>3 DEF MaxShares, Cap

LEMMA OneMore ==
  ASSUME TypeOK, bought' = bought + 1, bought < MaxBuys[mode]
  PROVE  Cap' = Cap + Lot /\ Cap + Lot <= MaxShares /\ bought' \in 0..MaxBuys[mode]
<1>1. Lot \in Nat \ {0} /\ MaxBuys[mode] \in Nat \ {0} /\ bought \in 0..MaxBuys[mode]
  BY NumbersAssumption DEF TypeOK
<1>2. bought + 1 <= MaxBuys[mode] /\ Lot * (bought + 1) = Lot * bought + Lot
  BY <1>1
<1>3. \A m, n \in Nat : m <= n => Lot * m <= Lot * n
  BY <1>1
<1>4. Lot * (bought + 1) <= Lot * MaxBuys[mode]
  BY <1>1, <1>2, <1>3
<1> QED
  BY <1>1, <1>2, <1>4 DEF MaxShares, Cap

LEMMA LotsCover ==
  ASSUME NEW q \in Nat
  PROVE  LotsOf(q) \in Nat /\ q <= Lot * LotsOf(q)
<1>1. Lot \in Nat \ {0}
  BY NumbersAssumption
<1>2. \A n \in Nat, d \in Nat \ {0} : n \div d \in Nat /\ n < d * (n \div d) + d
  OBVIOUS
<1>3. (q + Lot - 1) \in Nat
  BY <1>1
<1>4. (q + Lot - 1) \div Lot \in Nat /\ q + Lot - 1 < Lot * ((q + Lot - 1) \div Lot) + Lot
  BY <1>1, <1>2, <1>3
<1>5. Lot * ((q + Lot - 1) \div Lot) \in Nat
  BY <1>1, <1>4
<1> QED
  BY <1>1, <1>4, <1>5 DEF LotsOf

\* Where a cycle sends nothing there is nothing to send.
LEMMA NoWork ==
  ASSUME TypeInv, NEW a \in Actors, KindsAt(a, pc[a]) = {}
  PROVE  plan[a] = {} /\ job[a] = None
BY DEF TypeInv, WorkOk, ItemOk, JobOk

LEMMA KeepType ==
  ASSUME TypeOK, NEW a \in Actors, NEW entries \in [Symbols -> Entry \cup {None}], NEW used,
         Keep(a, entries, used)
  PROVE  /\ snap' \in [Actors -> [Symbols -> Entry \cup {None}]]
         /\ \A b \in Actors \ {a} : snap'[b] = snap[b]
         /\ \A s \in Symbols : snap'[a][s] = IF s \in used THEN entries[s] ELSE None
<1> DEFINE f == [s \in Symbols |-> IF s \in used THEN entries[s] ELSE None]
<1>1. f \in [Symbols -> Entry \cup {None}]
  OBVIOUS
<1>2. snap' = [snap EXCEPT ![a] = f]
  BY DEF Keep
<1>3. snap \in [Actors -> [Symbols -> Entry \cup {None}]]
  BY DEF TypeOK
<1> HIDE DEF f
<1>4. snap' \in [Actors -> [Symbols -> Entry \cup {None}]] /\ snap'[a] = f
      /\ \A b \in Actors \ {a} : snap'[b] = snap[b]
  BY <1>1, <1>2, <1>3
<1> QED
  BY <1>4 DEF f

LEMMA ForgetType ==
  ASSUME TypeOK, NEW a \in Actors, Forget(a)
  PROVE  /\ snap' \in [Actors -> [Symbols -> Entry \cup {None}]]
         /\ \A b \in Actors \ {a} : snap'[b] = snap[b]
         /\ \A s \in Symbols : snap'[a][s] = None
<1>1. snap[a] \in [Symbols -> Entry \cup {None}]
  BY DEF TypeOK
<1> QED
  BY <1>1, KeepType DEF Forget

LEMMA KeepReadsType ==
  ASSUME NEW holdings \in [Symbols -> 0..MaxShares], NEW used, MaxShares \in Nat,
         KeepReads(holdings, used)
  PROVE  /\ ~openKnown' /\ pending' = {} /\ pendingSell' = {}
         /\ openKnown' \in BOOLEAN /\ pending' \in SUBSET Symbols /\ pendingSell' \in SUBSET Symbols
         /\ heldSnap' \in [Symbols -> 0..MaxShares]
         /\ \A s \in Symbols : heldSnap'[s] = IF s \in used THEN holdings[s] ELSE 0
<1>1. openKnown' = FALSE
  BY DEF KeepReads
<1>2. ~openKnown' /\ openKnown' \in BOOLEAN
  BY <1>1
<1>3. pending' = {} /\ pendingSell' = {}
  BY DEF KeepReads
<1>4. /\ heldSnap' \in [Symbols -> 0..MaxShares]
      /\ \A s \in Symbols : heldSnap'[s] = IF s \in used THEN holdings[s] ELSE 0
  BY DEF KeepReads
<1> QED
  BY <1>2, <1>3, <1>4

LEMMA ForgetReadsType ==
  ASSUME TypeOK, ForgetReads
  PROVE  /\ ~openKnown' /\ pending' = {} /\ pendingSell' = {}
         /\ openKnown' \in BOOLEAN /\ pending' \in SUBSET Symbols /\ pendingSell' \in SUBSET Symbols
         /\ heldSnap' \in [Symbols -> 0..MaxShares]
         /\ \A s \in Symbols : heldSnap'[s] = 0
<1>1. heldSnap \in [Symbols -> 0..MaxShares] /\ MaxShares \in Nat
  BY Bounds DEF TypeOK
<1>2. KeepReads(heldSnap, {})
  BY DEF ForgetReads
<1> QED
  BY <1>1, <1>2, KeepReadsType

LEMMA FailType ==
  ASSUME TypeOK, Fail
  PROVE  faults' \in 0..MaxFaults[mode]
<1>1. MaxFaults[mode] \in Nat /\ faults \in 0..MaxFaults[mode]
  BY NumbersAssumption DEF TypeOK
<1> QED
  BY <1>1 DEF Fail

\* The sets that the mode determines do not change with a step.
LEMMA SameMode ==
  ASSUME mode' = mode
  PROVE  /\ MaxShares' = MaxShares /\ Entry' = Entry /\ Job' = Job
         /\ (Zone' <=> Zone) /\ (Apart' <=> Apart)
         /\ \A a, c : KindsAt(a, c)' = KindsAt(a, c)
BY DEF MaxShares, Entry, Job, Zone, Apart, KindsAt

(***************************************************************************)
(* Every step keeps TypeInv                                                *)
(***************************************************************************)

LEMMA InitType ==
  ASSUME Init
  PROVE  TypeInv
<1>1. MaxBuys[mode] \in Nat \ {0} /\ MaxFaults[mode] \in Nat /\ Lot \in Nat \ {0}
  BY NumbersAssumption DEF Init
<1>2. MaxShares \in Nat
  BY <1>1 DEF MaxShares
<1>3. TypeOK
  <2>1. /\ mode \in Modes /\ faults \in 0..MaxFaults[mode] /\ bought \in 0..MaxBuys[mode]
        /\ shares \in [Symbols -> 0..MaxShares] /\ buying \in [Symbols -> 0..MaxShares]
        /\ selling \in [Symbols -> 0..MaxShares] /\ heldSnap \in [Symbols -> 0..MaxShares]
        /\ strays \in [Symbols -> Nat] /\ partials \in [Symbols -> Nat]
    BY <1>1, <1>2 DEF Init
  <2>2. [s \in Symbols |-> None] \in [Symbols -> Entry \cup {None}]
    OBVIOUS
  <2>3. /\ book \in [Symbols -> Entry \cup {None}]
        /\ snap \in [Actors -> [Symbols -> Entry \cup {None}]]
    BY <2>2 DEF Init
  <2>4. /\ day \in [Symbols -> {"free", "bought", "sold"}]
        /\ plan \in [Actors -> SUBSET Item] /\ job \in [Actors -> Job \cup {None}]
        /\ openKnown \in BOOLEAN /\ pending \in SUBSET Symbols /\ pendingSell \in SUBSET Symbols
    BY DEF Init
  <2>5. pc \in [Actors -> {"idle", "exits", "entries", "balance", "sync", "load", "reconcile",
                           "decide", "carry", "carrying"}]
    BY DEF Init
  <2> QED
    BY <2>1, <2>3, <2>4, <2>5 DEF TypeOK
<1>4. Cap = 0
  BY <1>1 DEF Cap, Init
<1>5. WorkOk
  BY DEF WorkOk, Init, Actors
<1>6. PlaceOk
  BY DEF PlaceOk, Init, Actors
<1>7. AmountsOk
  BY <1>4 DEF AmountsOk, EntryOk, Init, Actors
<1> QED
  BY <1>3, <1>5, <1>6, <1>7 DEF TypeInv

\* What neither sends nor changes what is sent.
LEMMA WorkUntouched ==
  ASSUME TypeInv, UNCHANGED <<mode, bought, pc, snap, plan, job, heldSnap>>
  PROVE  WorkOk' /\ PlaceOk'
<1>1. Cap' = Cap
  BY DEF Cap
<1>2. \A a \in Actors : KindsAt(a, pc[a])' = KindsAt(a, pc[a])
  BY SameMode
<1>3. \A a \in Actors : \A i \in plan[a] : ItemOk(a, i)'
  BY <1>2 DEF TypeInv, WorkOk, ItemOk
<1>4. \A a \in Actors : job[a] # None => JobOk(a)'
  BY <1>1, <1>2 DEF TypeInv, WorkOk, JobOk
<1>5. WorkOk'
  BY <1>3, <1>4 DEF WorkOk
<1>6. PlaceOk'
  BY DEF TypeInv, PlaceOk, Zone, Apart, Done
<1> QED
  BY <1>5, <1>6

LEMMA BrokerType ==
  ASSUME TypeInv, BrokerStep
  PROVE  TypeInv'
<1> USE DEF TypeInv
<1>0. PICK s \in Symbols : \/ \E q \in 1..MaxShares : FillBuy(s, q) \/ FillSell(s, q)
                           \/ Cancel(s)
  BY DEF BrokerStep
<1>1. /\ Lot \in Nat \ {0} /\ MaxShares \in Nat /\ Cap \in Nat /\ Cap <= MaxShares
      /\ MaxFaults[mode] \in Nat
  BY Bounds, NumbersAssumption DEF TypeOK
<1>2. UNCHANGED <<mode, bought, book, day, pc, snap, plan, job, openKnown, pending, pendingSell,
                  heldSnap, partials>>
  BY <1>0 DEF FillBuy, FillSell, Cancel, ledgers, cycles, reads, history
<1>3. Cap' = Cap /\ MaxShares' = MaxShares /\ Entry' = Entry /\ Job' = Job
  BY <1>2, SameMode DEF Cap
<1>4. WorkOk' /\ PlaceOk'
  BY <1>2, WorkUntouched
<1>5. \A t \in Symbols : /\ shares[t] \in 0..MaxShares /\ buying[t] \in 0..MaxShares
                         /\ selling[t] \in 0..MaxShares /\ strays[t] \in Nat
                         /\ shares[t] + buying[t] <= Cap /\ selling[t] <= shares[t]
  BY DEF TypeOK, AmountsOk
<1>6. /\ shares' \in [Symbols -> 0..MaxShares] /\ buying' \in [Symbols -> 0..MaxShares]
      /\ selling' \in [Symbols -> 0..MaxShares] /\ strays' \in [Symbols -> Nat]
      /\ faults' \in 0..MaxFaults[mode]
      /\ \A t \in Symbols : shares'[t] + buying'[t] <= Cap /\ selling'[t] <= shares'[t]
  <2>1. CASE \E q \in 1..MaxShares : FillBuy(s, q)
    <3>1. PICK q \in 1..MaxShares : FillBuy(s, q)
      BY <2>1
    <3>2. /\ q <= buying[s] /\ shares' = [shares EXCEPT ![s] = @ + q]
          /\ buying' = [buying EXCEPT ![s] = @ - q] /\ UNCHANGED <<selling, strays, faults>>
      BY <3>1 DEF FillBuy, history
    <3>3. shares[s] + q \in 0..MaxShares /\ buying[s] - q \in 0..MaxShares
      BY <1>1, <1>5, <3>2
    <3> QED
      BY <1>1, <1>5, <3>2, <3>3 DEF TypeOK
  <2>2. CASE \E q \in 1..MaxShares : FillSell(s, q)
    <3>1. PICK q \in 1..MaxShares : FillSell(s, q)
      BY <2>2
    <3>2. /\ q <= selling[s] /\ shares' = [shares EXCEPT ![s] = @ - q]
          /\ selling' = [selling EXCEPT ![s] = @ - q] /\ UNCHANGED <<buying, strays, faults>>
      BY <3>1 DEF FillSell, history
    <3>3. shares[s] - q \in 0..MaxShares /\ selling[s] - q \in 0..MaxShares
      BY <1>1, <1>5, <3>2
    <3> QED
      BY <1>1, <1>5, <3>2, <3>3 DEF TypeOK
  <2>3. CASE Cancel(s)
    <3>1. /\ buying' = [buying EXCEPT ![s] = 0] /\ selling' = [selling EXCEPT ![s] = 0]
          /\ strays' = [strays EXCEPT ![s] = @ + LotsOf(selling[s])]
          /\ faults < MaxFaults[mode] /\ faults' = faults + 1 /\ UNCHANGED shares
      BY <2>3 DEF Cancel, Fail
    <3>2. strays[s] + LotsOf(selling[s]) \in Nat
      BY <1>5, LotsCover
    <3> QED
      BY <1>1, <1>5, <3>1, <3>2 DEF TypeOK
  <2> QED
    BY <1>0, <2>1, <2>2, <2>3
<1>7. TypeOK'
  BY <1>2, <1>3, <1>6 DEF TypeOK, Item
<1>8. AmountsOk'
  BY <1>2, <1>3, <1>6 DEF AmountsOk, EntryOk, Zone
<1> QED
  BY <1>4, <1>7, <1>8

\* The trader's own steps leave the account and the daemon's memory alone.
LEMMA TraderStepType ==
  ASSUME TypeInv, TraderStep
  PROVE  TypeInv'
<1> USE DEF TypeInv
<1>1. UNCHANGED <<mode, faults, shares, buying, selling, bought, book, day, job, openKnown, pending,
                  pendingSell, heldSnap, strays, partials>>
  BY DEF TraderStep, TraderLoads, TraderScans, TraderEnds, broker, ledgers, reads, history
<1>2. Cap' = Cap /\ MaxShares' = MaxShares /\ Entry' = Entry /\ Job' = Job
  BY <1>1, SameMode DEF Cap
<1>3. \A a \in Actors : \A c : KindsAt(a, c)' = KindsAt(a, c)
  BY <1>1, SameMode
<1>4. MaxShares \in Nat /\ Cap \in Nat /\ Cap <= MaxShares
  BY Bounds
<1>5. CASE TraderLoads
  <2>1. pc["trader"] = "idle" /\ ~Zone /\ pc' = [pc EXCEPT !["trader"] = "exits"]
        /\ (mode = "inside" => pc["daemon"] = "exits" /\ Done("daemon"))
    BY <1>5 DEF TraderLoads, Go
  <2>2. plan["trader"] = {} /\ job["trader"] = None
    BY <2>1, NoWork DEF KindsAt, Actors
  <2>3. PICK signal \in [Entries -> {"hold", "partial", "full"}] :
          /\ \A s \in Entries : signal[s] = "partial" =>
               ~book[s].partial /\ GapPart(book[s].total) \in 1..book[s].total - 1
          /\ \A s \in Entries : signal[s] = "full" => book[s].total > 0
          /\ LET sold == {s \in Entries : signal[s] # "hold"} IN
               /\ plan' = [plan EXCEPT !["trader"] = {[sym |-> s, kind |-> signal[s]] : s \in sold}]
               /\ Keep("trader", book, sold)
    BY <1>5 DEF TraderLoads
  <2> DEFINE sold == {s \in Entries : signal[s] # "hold"}
  <2>4. sold \subseteq Symbols /\ \A s \in sold : signal[s] \in {"partial", "full"}
    BY DEF Entries
  <2>5. /\ snap' \in [Actors -> [Symbols -> Entry \cup {None}]]
        /\ \A b \in Actors \ {"trader"} : snap'[b] = snap[b]
        /\ \A s \in Symbols : snap'["trader"][s] = IF s \in sold THEN book[s] ELSE None
    BY <2>3, KeepType DEF TypeOK, Actors
  <2>6. plan' = [plan EXCEPT !["trader"] = {[sym |-> s, kind |-> signal[s]] : s \in sold}]
    BY <2>3
  <2>7. plan' \in [Actors -> SUBSET Item]
    <3>1. ASSUME NEW s \in sold
          PROVE  [sym |-> s, kind |-> signal[s]] \in Item
      BY <2>4 DEF Item, Kinds
    <3>2. {[sym |-> s, kind |-> signal[s]] : s \in sold} \in SUBSET Item
      BY <3>1
    <3> QED
      BY <2>6, <3>2 DEF TypeOK
  <2>8. TypeOK'
    BY <1>1, <1>2, <2>1, <2>5, <2>7 DEF TypeOK, Item
  <2>9. PlaceOk'
    <3>1. pc'["trader"] = "exits" /\ pc'["daemon"] = pc["daemon"] /\ plan'["daemon"] = plan["daemon"]
      BY <2>1, <2>6 DEF Actors, TypeOK
    <3>2. ~Apart => mode = "inside"
      BY <2>1, ModesAssumption DEF Apart, Zone, TypeOK
    <3> QED
      BY <1>1, <2>1, <3>1, <3>2 DEF PlaceOk, Done, Zone, Apart
  <2>10. ASSUME NEW i \in plan'["trader"]
         PROVE  ItemOk("trader", i)'
    <3>1. PICK s \in sold : i = [sym |-> s, kind |-> signal[s]]
      BY <2>6 DEF TypeOK, Actors
    <3>2. snap'["trader"][s] = book[s] /\ book[s] # None /\ book[s] \in Entry /\ s \in Symbols
      BY <2>4, <2>5 DEF Entries, HasEntry, TypeOK
    <3>3. i.kind = "partial" => book[s].total >= 2
      <4>1. book[s].total \in Int
        BY <1>4, <3>2 DEF Entry
      <4>2. SUFFICES ASSUME i.kind = "partial" PROVE book[s].total >= 2
        OBVIOUS
      <4>3. GapPart(book[s].total) \in 1..book[s].total - 1
        BY <2>3, <3>1, <4>2
      <4> QED
        BY <4>1, <4>3
    <3>4. KindsAt("trader", "exits") = {"partial", "full"}
      BY DEF KindsAt
    <3> QED
      BY <1>3, <2>1, <2>4, <3>1, <3>2, <3>3, <3>4 DEF ItemOk, TypeOK, Actors
  <2>11. \A i \in plan'["daemon"] : ItemOk("daemon", i)'
    BY <1>1, <1>3, <2>1, <2>5, <2>6 DEF ItemOk, WorkOk, TypeOK, Actors
  <2>12. job'["daemon"] # None => JobOk("daemon")'
    BY <1>1, <1>2, <1>3, <2>1, <2>5 DEF JobOk, WorkOk, TypeOK, Actors
  <2>13. WorkOk'
    BY <1>1, <2>2, <2>10, <2>11, <2>12 DEF WorkOk, Actors
  <2>14. AmountsOk'
    BY <1>1, <1>2, <2>5 DEF AmountsOk, EntryOk, Zone, Actors
  <2> QED
    BY <2>8, <2>9, <2>13, <2>14
<1>6. CASE TraderScans
  <2>1. pc["trader"] = "exits" /\ Done("trader") /\ Forget("trader")
    BY <1>6 DEF TraderScans
  <2>2. PICK chosen \in SUBSET (Universe[mode] \ Entries) :
          /\ plan' = [plan EXCEPT !["trader"] = {[sym |-> s, kind |-> "buy"] : s \in chosen}]
          /\ IF chosen = {} THEN TraderRests ELSE Go("trader", "entries")
    BY <1>6 DEF TraderScans
  <2>3. chosen \subseteq Symbols
    BY UniverseAssumption DEF TypeOK
  <2>4. /\ snap' \in [Actors -> [Symbols -> Entry \cup {None}]]
        /\ \A b \in Actors \ {"trader"} : snap'[b] = snap[b]
        /\ \A s \in Symbols : snap'["trader"][s] = None
    BY <2>1, ForgetType DEF Actors
  <2>5. plan' \in [Actors -> SUBSET Item]
    <3>1. \A s \in chosen : [sym |-> s, kind |-> "buy"] \in Item
      BY <2>3 DEF Item, Kinds
    <3>2. {[sym |-> s, kind |-> "buy"] : s \in chosen} \in SUBSET Item
      BY <3>1
    <3> QED
      BY <2>2, <3>2 DEF TypeOK
  <2>6. /\ pc' \in [Actors -> {"idle", "exits", "entries", "balance", "sync", "load", "reconcile",
                               "decide", "carry", "carrying"}]
        /\ chosen = {} => pc'["trader"] = "idle"
        /\ chosen # {} => pc'["trader"] = "entries" /\ pc'["daemon"] = pc["daemon"]
        /\ pc'["daemon"] # pc["daemon"] => mode = "inside" /\ pc'["daemon"] = "carry"
    BY <2>2 DEF TraderRests, Go, TypeOK, Actors
  <2>7. TypeOK'
    BY <1>1, <1>2, <2>4, <2>5, <2>6 DEF TypeOK, Item
  <2>8. plan'["daemon"] = plan["daemon"] /\ job["trader"] = None
    BY <2>1, <2>2 DEF TypeOK, Actors, Done
  <2>9. PlaceOk'
    BY <1>1, <2>1, <2>6, <2>8 DEF PlaceOk, Done, Zone, Apart
  <2>10. \A i \in plan'["trader"] : ItemOk("trader", i)'
    <3>1. KindsAt("trader", "entries") = {"buy"}
      BY DEF KindsAt
    <3>2. \A i \in plan'["trader"] : i.kind = "buy" /\ pc'["trader"] = "entries"
      BY <2>2, <2>6 DEF TypeOK, Actors
    <3> QED
      BY <1>3, <3>1, <3>2 DEF ItemOk, UsesEntry, Actors
  <2>11. pc'["daemon"] # pc["daemon"] => plan["daemon"] = {} /\ job["daemon"] = None
    BY <2>1, <2>6 DEF PlaceOk, Done, Apart
  <2>12. \A i \in plan'["daemon"] : ItemOk("daemon", i)'
    BY <1>1, <1>3, <2>4, <2>8, <2>11 DEF ItemOk, WorkOk, Actors
  <2>13. job'["daemon"] # None => JobOk("daemon")'
    BY <1>1, <1>2, <1>3, <2>4, <2>11 DEF JobOk, WorkOk, Actors
  <2>14. WorkOk'
    BY <1>1, <2>8, <2>10, <2>12, <2>13 DEF WorkOk, Actors
  <2>15. AmountsOk'
    BY <1>1, <1>2, <2>4 DEF AmountsOk, EntryOk, Zone, Actors
  <2> QED
    BY <2>7, <2>9, <2>14, <2>15
<1>7. CASE TraderEnds
  <2>1. pc["trader"] = "entries" /\ Done("trader") /\ TraderRests /\ UNCHANGED <<snap, plan>>
    BY <1>7 DEF TraderEnds
  <2>2. /\ pc' \in [Actors -> {"idle", "exits", "entries", "balance", "sync", "load", "reconcile",
                               "decide", "carry", "carrying"}]
        /\ pc'["trader"] = "idle"
        /\ pc'["daemon"] # pc["daemon"] => mode = "inside" /\ pc'["daemon"] = "carry"
    BY <2>1 DEF TraderRests, TypeOK, Actors
  <2>3. TypeOK'
    BY <1>1, <1>2, <2>1, <2>2 DEF TypeOK, Item
  <2>4. PlaceOk'
    BY <1>1, <2>1, <2>2 DEF PlaceOk, Done, Zone, Apart
  <2>5. pc'["daemon"] # pc["daemon"] => plan["daemon"] = {} /\ job["daemon"] = None
    BY <2>1, <2>2 DEF PlaceOk, Done, Apart
  <2>6. \A i \in plan'["daemon"] : ItemOk("daemon", i)'
    BY <1>1, <1>3, <2>1, <2>5 DEF ItemOk, WorkOk, Actors
  <2>7. job'["daemon"] # None => JobOk("daemon")'
    BY <1>1, <1>2, <1>3, <2>1, <2>5 DEF JobOk, WorkOk, Actors
  <2>8. WorkOk'
    BY <1>1, <2>1, <2>6, <2>7 DEF WorkOk, Actors, Done
  <2>9. AmountsOk'
    BY <1>1, <1>2, <2>1 DEF AmountsOk, EntryOk, Zone
  <2> QED
    BY <2>3, <2>4, <2>8, <2>9
<1> QED
  BY <1>5, <1>6, <1>7 DEF TraderStep

Steps == {"idle", "exits", "entries", "balance", "sync", "load", "reconcile", "decide", "carry",
          "carrying"}

\* The daemon goes on with nothing to send; inside it the trader is not
\* working meanwhile.
LEMMA DaemonMoves ==
  ASSUME TypeInv, UNCHANGED <<mode, bought, plan, job>>, plan["daemon"] = {}, job["daemon"] = None,
         NEW next \in Steps, next # "entries" \/ Zone, Go("daemon", next),
         snap'["trader"] = snap["trader"],
         ~Apart => pc["trader"] = "idle"
  PROVE  pc' \in [Actors -> Steps] /\ WorkOk' /\ PlaceOk'
<1> USE DEF TypeInv
<1>1. /\ pc' \in [Actors -> Steps] /\ pc'["trader"] = pc["trader"] /\ pc'["daemon"] = next
  BY DEF TypeOK, Steps, Go, Actors
<1>2. Cap' = Cap /\ \A a \in Actors : \A c : KindsAt(a, c)' = KindsAt(a, c)
  BY SameMode DEF Cap
<1>3. \A i \in plan["trader"] : ItemOk("trader", i)'
  BY <1>1, <1>2 DEF WorkOk, ItemOk, Actors
<1>4. job["trader"] # None => JobOk("trader")'
  BY <1>1, <1>2 DEF WorkOk, JobOk, Actors
<1>5. WorkOk'
  BY <1>3, <1>4 DEF WorkOk, Actors
<1>6. PlaceOk'
  BY <1>1 DEF PlaceOk, Zone, Apart
<1> QED
  BY <1>1, <1>5, <1>6

LEMMA DaemonReadsType ==
  ASSUME TypeInv, ReadOpenOrders \/ ReadBalance
  PROVE  TypeInv'
<1> USE DEF TypeInv
<1>1. UNCHANGED <<mode, shares, buying, selling, bought, book, day, snap, plan, job, strays, partials>>
  BY DEF ReadOpenOrders, ReadBalance, broker, ledgers, history
<1>2. Cap' = Cap /\ MaxShares' = MaxShares /\ Entry' = Entry /\ Job' = Job /\ Item' = Item
  BY <1>1, SameMode DEF Cap, Item
<1>3. MaxShares \in Nat /\ Cap \in Nat /\ Cap <= MaxShares /\ MaxFaults[mode] \in Nat
  BY Bounds, NumbersAssumption DEF TypeOK
<1>4. PICK next \in {"balance", "sync", "exits"} : pc["daemon"] \in {"idle", "balance"} /\ Go("daemon", next)
  BY DEF ReadOpenOrders, ReadBalance
<1>5. plan["daemon"] = {} /\ job["daemon"] = None
  BY <1>4, NoWork DEF KindsAt, Actors
<1>6. ~Apart => pc["trader"] = "idle"
  BY <1>4 DEF PlaceOk
<1>7. pc' \in [Actors -> Steps] /\ WorkOk' /\ PlaceOk'
  BY <1>1, <1>4, <1>5, <1>6, DaemonMoves DEF Steps
<1>8. /\ faults' \in 0..MaxFaults[mode]
      /\ openKnown' \in BOOLEAN /\ pending' \in SUBSET Symbols /\ pendingSell' \in SUBSET Symbols
      /\ heldSnap' \in [Symbols -> 0..MaxShares]
      /\ \A s \in Symbols : heldSnap'[s] <= Cap
  <2>1. CASE ReadOpenOrders
    <3>1. UNCHANGED faults \/ Fail
      BY <2>1 DEF ReadOpenOrders
    <3>2. faults' \in 0..MaxFaults[mode]
      BY <3>1, FailType DEF TypeOK
    <3>3. UNCHANGED heldSnap
      BY <2>1 DEF ReadOpenOrders
    <3>4. \/ openKnown' = TRUE /\ pending' = {s \in Symbols : Working(s)}
                          /\ pendingSell' = {s \in Symbols : selling[s] > 0}
          \/ openKnown' = FALSE /\ pending' = {} /\ pendingSell' = {}
      BY <2>1 DEF ReadOpenOrders
    <3>5. openKnown' \in BOOLEAN /\ pending' \in SUBSET Symbols /\ pendingSell' \in SUBSET Symbols
      BY <3>4
    <3> QED
      BY <3>2, <3>3, <3>5 DEF TypeOK, AmountsOk
  <2>2. CASE ReadBalance /\ heldSnap' = shares /\ UNCHANGED <<faults, openKnown, pending, pendingSell>>
    <3>1. \A s \in Symbols : shares[s] \in Int /\ buying[s] \in Nat /\ shares[s] + buying[s] <= Cap
      BY <1>3 DEF TypeOK, AmountsOk
    <3> QED
      BY <2>2, <3>1, <1>3 DEF TypeOK
  <2>3. CASE ForgetReads /\ Fail
    <3>1. faults' \in 0..MaxFaults[mode]
      BY <2>3, FailType
    <3>2. /\ openKnown' \in BOOLEAN /\ pending' \in SUBSET Symbols
          /\ pendingSell' \in SUBSET Symbols
          /\ heldSnap' \in [Symbols -> 0..MaxShares]
          /\ \A s \in Symbols : heldSnap'[s] = 0
      BY <2>3, ForgetReadsType
    <3> QED
      BY <1>3, <3>1, <3>2
  <2>4. ReadBalance => \/ heldSnap' = shares /\ UNCHANGED <<faults, openKnown, pending, pendingSell>>
                       \/ ForgetReads /\ Fail
    BY DEF ReadBalance
  <2> QED
    BY <2>1, <2>2, <2>3, <2>4
<1>9. TypeOK'
  BY <1>1, <1>2, <1>7, <1>8 DEF TypeOK, Steps
<1>10. AmountsOk'
  BY <1>1, <1>2, <1>8 DEF AmountsOk, EntryOk, Zone
<1> QED
  BY <1>7, <1>9, <1>10

LEMMA SyncType ==
  ASSUME TypeInv, SyncPositions
  PROVE  TypeInv'
<1> USE DEF TypeInv
<1>1. UNCHANGED <<mode, faults, shares, buying, selling, bought, day, snap, plan, job, openKnown,
                  pending, pendingSell, heldSnap, partials>>
  BY DEF SyncPositions, broker, reads
<1>2. Cap' = Cap /\ MaxShares' = MaxShares /\ Entry' = Entry /\ Job' = Job /\ Item' = Item
  BY <1>1, SameMode DEF Cap, Item
<1>3. pc["daemon"] = "sync" /\ Go("daemon", "load")
  BY DEF SyncPositions
<1>4. plan["daemon"] = {} /\ job["daemon"] = None
  BY <1>3, NoWork DEF KindsAt, Actors
<1>5. ~Apart => pc["trader"] = "idle"
  BY <1>3 DEF PlaceOk
<1>6. pc' \in [Actors -> Steps] /\ WorkOk' /\ PlaceOk'
  BY <1>1, <1>3, <1>4, <1>5, DaemonMoves DEF Steps
<1>7. /\ book' \in [Symbols -> Entry \cup {None}]
      /\ \A s \in Symbols : book'[s] \in {book[s], None}
      /\ strays' \in [Symbols -> Nat]
  BY DEF SyncPositions, TypeOK
<1>8. TypeOK'
  BY <1>1, <1>2, <1>6, <1>7 DEF TypeOK, Steps
<1>9. AmountsOk'
  BY <1>1, <1>2, <1>7 DEF AmountsOk, EntryOk, Zone
<1> QED
  BY <1>6, <1>8, <1>9

LEMMA LoadType ==
  ASSUME TypeInv, LoadPositions
  PROVE  TypeInv'
<1> USE DEF TypeInv
<1>1. UNCHANGED <<mode, faults, shares, buying, selling, bought, book, day, plan, job, strays, partials>>
  BY DEF LoadPositions, broker, ledgers, history
<1>2. Cap' = Cap /\ MaxShares' = MaxShares /\ Entry' = Entry /\ Job' = Job /\ Item' = Item
  BY <1>1, SameMode DEF Cap, Item
<1>3. MaxShares \in Nat /\ Cap \in Nat /\ Cap <= MaxShares
  BY Bounds
<1>4. PICK next \in {"reconcile", "exits"} : pc["daemon"] = "load" /\ Go("daemon", next)
  BY DEF LoadPositions
<1>5. plan["daemon"] = {} /\ job["daemon"] = None
  BY <1>4, NoWork DEF KindsAt, Actors
<1>6. ~Apart => pc["trader"] = "idle"
  BY <1>4 DEF PlaceOk
<1>7. /\ snap' \in [Actors -> [Symbols -> Entry \cup {None}]]
      /\ snap'["trader"] = snap["trader"]
      /\ \A s \in Symbols : snap'["daemon"][s] \in {snap["daemon"][s], book[s]}
      /\ openKnown' \in BOOLEAN /\ pending' \in SUBSET Symbols /\ pendingSell' \in SUBSET Symbols
      /\ heldSnap' \in [Symbols -> 0..MaxShares]
      /\ \A s \in Symbols : heldSnap'[s] <= Cap
  <2>1. CASE Keep("daemon", book, Symbols) /\ UNCHANGED reads
    <3>1. /\ snap' \in [Actors -> [Symbols -> Entry \cup {None}]]
          /\ \A b \in Actors \ {"daemon"} : snap'[b] = snap[b]
          /\ \A s \in Symbols : snap'["daemon"][s] = book[s]
      BY <2>1, KeepType DEF TypeOK, Actors
    <3> QED
      BY <2>1, <3>1 DEF TypeOK, reads, AmountsOk, Actors
  <2>2. CASE ForgetReads /\ UNCHANGED snap
    <3>1. /\ openKnown' \in BOOLEAN /\ pending' \in SUBSET Symbols
          /\ pendingSell' \in SUBSET Symbols
          /\ heldSnap' \in [Symbols -> 0..MaxShares]
          /\ \A s \in Symbols : heldSnap'[s] = 0
      BY <2>2, ForgetReadsType
    <3> QED
      BY <1>3, <2>2, <3>1 DEF TypeOK, Actors
  <2> QED
    BY <2>1, <2>2 DEF LoadPositions
<1>8. pc' \in [Actors -> Steps] /\ WorkOk' /\ PlaceOk'
  BY <1>1, <1>4, <1>5, <1>6, <1>7, DaemonMoves DEF Steps
<1>9. TypeOK'
  BY <1>1, <1>2, <1>7, <1>8 DEF TypeOK, Steps
<1>10. AmountsOk'
  BY <1>1, <1>2, <1>7 DEF AmountsOk, EntryOk, Zone, Actors
<1> QED
  BY <1>8, <1>9, <1>10

\* A reconciled entry is an entry with an amount that was bought.
LEMMA ReconciledType ==
  ASSUME TypeInv, NEW s \in Symbols, snap["daemon"][s] # None
  PROVE  Reconciled(s) \in Entry /\ Reconciled(s) # None /\ EntryOk(Reconciled(s))
<1>1. MaxShares \in Nat /\ Cap \in Nat
  BY Bounds DEF TypeInv
<1>2. /\ snap["daemon"][s] \in Entry /\ EntryOk(snap["daemon"][s])
      /\ heldSnap[s] \in 0..MaxShares /\ heldSnap[s] <= Cap
  BY DEF TypeInv, TypeOK, AmountsOk, Actors
<1>3. Reconciled(s) \in {snap["daemon"][s],
                         [snap["daemon"][s] EXCEPT !.qty = heldSnap[s], !.total = heldSnap[s]]}
  BY DEF Reconciled
<1>4. [snap["daemon"][s] EXCEPT !.qty = heldSnap[s], !.total = heldSnap[s]] \in Entry
  <2>1. heldSnap[s] \in 0..2 * MaxShares
    BY <1>1, <1>2
  <2>2. \A e \in Entry, q \in 0..MaxShares, n \in 0..2 * MaxShares :
          [e EXCEPT !.qty = q, !.total = n] \in Entry
    BY DEF Entry
  <2> QED
    BY <1>2, <2>1, <2>2
<1>5. \A e \in Entry : e # None
  BY <1>1, NoneAssumption DEF Entry
<1>6. EntryOk([snap["daemon"][s] EXCEPT !.qty = heldSnap[s], !.total = heldSnap[s]])
  BY <1>2 DEF EntryOk, Entry
<1> QED
  BY <1>2, <1>3, <1>4, <1>5, <1>6

LEMMA FillSyncType ==
  ASSUME TypeInv, FillSync
  PROVE  TypeInv'
<1> USE DEF TypeInv
<1>1. UNCHANGED <<mode, faults, shares, buying, selling, bought, day, plan, job, openKnown, pending,
                  pendingSell, heldSnap, strays, partials>>
  BY DEF FillSync, broker, reads, history
<1>2. Cap' = Cap /\ MaxShares' = MaxShares /\ Entry' = Entry /\ Job' = Job /\ Item' = Item
  BY <1>1, SameMode DEF Cap, Item
<1>3. pc["daemon"] = "reconcile" /\ Go("daemon", "decide")
  BY DEF FillSync
<1>4. plan["daemon"] = {} /\ job["daemon"] = None
  BY <1>3, NoWork DEF KindsAt, Actors
<1>5. ~Apart => pc["trader"] = "idle"
  BY <1>3 DEF PlaceOk
<1> DEFINE known == {s \in Symbols : heldSnap[s] > 0 /\ snap["daemon"][s] # None}
           mended == {s \in known : Reconciled(s) # snap["daemon"][s]}
<1>6. PICK dirty \in SUBSET known :
        book' = [s \in Symbols |-> IF s \in mended \cup dirty THEN Reconciled(s) ELSE book[s]]
  BY DEF FillSync
<1>7. snap' = [snap EXCEPT !["daemon"] =
                [s \in Symbols |-> IF s \in known THEN Reconciled(s) ELSE snap["daemon"][s]]]
  BY DEF FillSync, TypeOK, Actors
<1>8. \A s \in known : s \in Symbols /\ Reconciled(s) \in Entry /\ EntryOk(Reconciled(s))
  BY ReconciledType
<1>9. mended \cup dirty \subseteq known
  OBVIOUS
<1> HIDE DEF known, mended
<1>10. /\ book' \in [Symbols -> Entry \cup {None}]
       /\ \A s \in Symbols : EntryOk(book'[s])
  BY <1>6, <1>8, <1>9 DEF TypeOK, AmountsOk
<1>11. [s \in Symbols |-> IF s \in known THEN Reconciled(s) ELSE snap["daemon"][s]]
         \in [Symbols -> Entry \cup {None}]
  BY <1>8 DEF TypeOK, Actors
<1>12. /\ snap' \in [Actors -> [Symbols -> Entry \cup {None}]]
       /\ snap'["trader"] = snap["trader"]
       /\ \A s \in Symbols : EntryOk(snap'["daemon"][s])
  BY <1>7, <1>8, <1>11 DEF TypeOK, AmountsOk, Actors
<1>13. pc' \in [Actors -> Steps] /\ WorkOk' /\ PlaceOk'
  BY <1>1, <1>3, <1>4, <1>5, <1>12, DaemonMoves DEF Steps
<1>14. TypeOK'
  BY <1>1, <1>2, <1>10, <1>12, <1>13 DEF TypeOK, Steps
<1>15. AmountsOk'
  BY <1>1, <1>2, <1>10, <1>12 DEF AmountsOk, EntryOk, Zone, Actors
<1> QED
  BY <1>13, <1>14, <1>15

\* The daemon goes on with new orders to send.
LEMMA DaemonPlans ==
  ASSUME TypeInv, UNCHANGED <<mode, bought, job>>, job["daemon"] = None,
         NEW next \in Steps, next # "entries" \/ Zone, Go("daemon", next),
         NEW new \in SUBSET Item, plan' = [plan EXCEPT !["daemon"] = new],
         snap'["trader"] = snap["trader"],
         ~Apart => pc["trader"] = "idle",
         \A i \in new : ItemOk("daemon", i)'
  PROVE  /\ pc' \in [Actors -> Steps] /\ plan' \in [Actors -> SUBSET Item]
         /\ WorkOk' /\ PlaceOk'
<1> USE DEF TypeInv
<1>1. /\ pc' \in [Actors -> Steps] /\ pc'["trader"] = pc["trader"] /\ pc'["daemon"] = next
      /\ plan' \in [Actors -> SUBSET Item] /\ plan'["trader"] = plan["trader"]
      /\ plan'["daemon"] = new
  BY DEF TypeOK, Steps, Go, Actors
<1>2. Cap' = Cap /\ \A a \in Actors : \A c : KindsAt(a, c)' = KindsAt(a, c)
  BY SameMode DEF Cap
<1>3. \A i \in plan["trader"] : ItemOk("trader", i)'
  BY <1>1, <1>2 DEF WorkOk, ItemOk, Actors
<1>4. job["trader"] # None => JobOk("trader")'
  BY <1>1, <1>2 DEF WorkOk, JobOk, Actors
<1>5. WorkOk'
  BY <1>1, <1>3, <1>4 DEF WorkOk, Actors
<1>6. PlaceOk'
  BY <1>1 DEF PlaceOk, Zone, Apart
<1> QED
  BY <1>1, <1>5, <1>6

LEMMA DecideType ==
  ASSUME TypeInv, Decide
  PROVE  TypeInv'
<1> USE DEF TypeInv
<1>1. UNCHANGED <<mode, faults, shares, buying, selling, bought, book, day, job, strays, partials>>
  BY DEF Decide, broker, ledgers, history
<1>2. Cap' = Cap /\ MaxShares' = MaxShares /\ Entry' = Entry /\ Job' = Job /\ Item' = Item
  BY <1>1, SameMode DEF Cap, Item
<1>3. MaxShares \in Nat /\ Cap \in Nat /\ Cap <= MaxShares
  BY Bounds
<1>4. pc["daemon"] = "decide" /\ Go("daemon", "exits")
  BY DEF Decide
<1>5. plan["daemon"] = {} /\ job["daemon"] = None
  BY <1>4, NoWork DEF KindsAt, Actors
<1>6. ~Apart => pc["trader"] = "idle"
  BY <1>4 DEF PlaceOk
<1> DEFINE held == {s \in Symbols : heldSnap[s] > 0}
<1>7. PICK signal \in [held -> {"hold", "partial", "full"}],
           fallen \in SUBSET {s \in held : HasEntry(s) /\ book[s].rest} :
        LET sold == {s \in held \ pendingSell : signal[s] # "hold"} IN
        /\ plan' = [plan EXCEPT !["daemon"] =
                      {[sym |-> s, kind |-> signal[s]] : s \in sold}
                        \cup {[sym |-> s, kind |-> "dca"] : s \in fallen}]
        /\ Keep("daemon", book, sold \cup fallen)
        /\ KeepReads(heldSnap, sold)
  BY DEF Decide
<1> DEFINE sold == {s \in held \ pendingSell : signal[s] # "hold"}
           new == {[sym |-> s, kind |-> signal[s]] : s \in sold}
                    \cup {[sym |-> s, kind |-> "dca"] : s \in fallen}
<1>8. /\ plan' = [plan EXCEPT !["daemon"] = new]
      /\ Keep("daemon", book, sold \cup fallen) /\ KeepReads(heldSnap, sold)
  BY <1>7
<1>9. /\ \A s \in sold : s \in Symbols /\ signal[s] \in {"partial", "full"} /\ heldSnap[s] > 0
      /\ \A s \in fallen : s \in Symbols /\ book[s] # None /\ book[s].rest
  BY DEF HasEntry
<1>10. new \in SUBSET Item
  <2>1. \A s \in sold : [sym |-> s, kind |-> signal[s]] \in Item
    BY <1>9 DEF Item, Kinds
  <2>2. \A s \in fallen : [sym |-> s, kind |-> "dca"] \in Item
    BY <1>9 DEF Item, Kinds
  <2> HIDE DEF sold
  <2> QED
    BY <2>1, <2>2
<1>11. \A i \in new : i.sym \in Symbols /\ (\/ i.sym \in sold /\ i.kind \in {"partial", "full"}
                                            \/ i.sym \in fallen /\ i.kind = "dca")
  BY <1>9
<1> HIDE DEF new, sold, held
<1>12. /\ snap' \in [Actors -> [Symbols -> Entry \cup {None}]]
       /\ \A b \in Actors \ {"daemon"} : snap'[b] = snap[b]
       /\ \A s \in Symbols : snap'["daemon"][s] = IF s \in sold \cup fallen THEN book[s] ELSE None
  BY <1>8, KeepType DEF TypeOK, Actors
<1>13. /\ openKnown' \in BOOLEAN /\ pending' \in SUBSET Symbols /\ pendingSell' \in SUBSET Symbols
       /\ heldSnap' \in [Symbols -> 0..MaxShares]
       /\ \A s \in Symbols : heldSnap'[s] = IF s \in sold THEN heldSnap[s] ELSE 0
  BY <1>3, <1>8, KeepReadsType DEF TypeOK
<1>14. ASSUME NEW i \in new
       PROVE  ItemOk("daemon", i)'
  <2>1. pc'["daemon"] = "exits"
    BY <1>4 DEF Go, TypeOK, Actors
  <2>2. i.kind \in {"partial", "full", "dca"} /\ (i.kind = "dca" => Zone)
    BY <1>9, <1>11 DEF AmountsOk, EntryOk
  <2>3. KindsAt("daemon", "exits") = {"partial", "full"} \cup (IF Zone THEN {"dca"} ELSE {})
    BY DEF KindsAt
  <2>4. i.kind \in KindsAt("daemon", "exits")'
    BY <1>1, <2>2, <2>3, SameMode
  <2>5. i.kind = "dca" => snap'["daemon"][i.sym] # None
    BY <1>9, <1>11, <1>12
  <2>6. i.kind = "partial" => heldSnap'[i.sym] >= 1
    <3>1. \A s \in Symbols : heldSnap[s] \in Int
      BY <1>3 DEF TypeOK
    <3> QED
      BY <1>9, <1>11, <1>13, <3>1
  <2> QED
    BY <2>1, <2>4, <2>5, <2>6 DEF ItemOk, UsesEntry
<1>15. pc' \in [Actors -> Steps] /\ plan' \in [Actors -> SUBSET Item] /\ WorkOk' /\ PlaceOk'
  <2>1. snap'["trader"] = snap["trader"]
    BY <1>12 DEF Actors
  <2> QED
    BY <1>1, <1>4, <1>5, <1>6, <1>8, <1>10, <1>14, <2>1, DaemonPlans DEF Steps
<1>16. TypeOK'
  BY <1>1, <1>2, <1>12, <1>13, <1>15 DEF TypeOK, Steps
<1>17. AmountsOk'
  <2>1. \A s \in Symbols : heldSnap'[s] <= Cap
    BY <1>3, <1>13 DEF AmountsOk
  <2>2. \A s \in Symbols : snap'["daemon"][s] \in {book[s], None} /\ snap'["trader"] = snap["trader"]
    BY <1>12 DEF Actors
  <2> QED
    BY <1>1, <1>2, <2>1, <2>2 DEF AmountsOk, EntryOk, Zone, Actors
<1> QED
  BY <1>15, <1>16, <1>17

LEMMA ScansType ==
  ASSUME TypeInv, DaemonScans \/ LimitCarry \/ DaemonRests
  PROVE  TypeInv'
<1> USE DEF TypeInv
<1>1. UNCHANGED <<mode, faults, shares, buying, selling, bought, book, day, job, strays, partials>>
  BY DEF DaemonScans, LimitCarry, DaemonRests, broker, ledgers, history
<1>2. Cap' = Cap /\ MaxShares' = MaxShares /\ Entry' = Entry /\ Job' = Job /\ Item' = Item
  BY <1>1, SameMode DEF Cap, Item
<1>3. MaxShares \in Nat /\ Cap \in Nat /\ Cap <= MaxShares
  BY Bounds
<1>4. plan["daemon"] = {} /\ job["daemon"] = None /\ Forget("daemon")
  BY DEF DaemonScans, LimitCarry, DaemonRests, Done
<1>5. ~Apart => pc["trader"] = "idle"
  BY DEF DaemonScans, LimitCarry, DaemonRests, PlaceOk, TraderAway
<1>6. /\ snap' \in [Actors -> [Symbols -> Entry \cup {None}]]
      /\ \A b \in Actors \ {"daemon"} : snap'[b] = snap[b]
      /\ \A s \in Symbols : snap'["daemon"][s] = None
  BY <1>4, ForgetType DEF Actors
<1>7. /\ \A s \in Symbols : shares[s] \in Nat /\ buying[s] \in Nat /\ shares[s] <= Cap
      /\ shares \in [Symbols -> 0..MaxShares]
  <2>1. \A s \in Symbols : shares[s] \in Nat /\ buying[s] \in Nat /\ shares[s] + buying[s] <= Cap
    BY <1>3 DEF TypeOK, AmountsOk
  <2> QED
    BY <1>3, <2>1 DEF TypeOK
<1>8. /\ openKnown' \in BOOLEAN /\ pending' \in SUBSET Symbols /\ pendingSell' \in SUBSET Symbols
      /\ heldSnap' \in [Symbols -> 0..MaxShares]
      /\ \A s \in Symbols : heldSnap'[s] <= Cap
  <2>1. CASE \E excess : KeepReads(shares, excess)
    <3>1. PICK excess : KeepReads(shares, excess)
      BY <2>1
    <3>2. /\ openKnown' \in BOOLEAN /\ pending' \in SUBSET Symbols /\ pendingSell' \in SUBSET Symbols
          /\ heldSnap' \in [Symbols -> 0..MaxShares]
          /\ \A s \in Symbols : heldSnap'[s] = IF s \in excess THEN shares[s] ELSE 0
      BY <1>3, <1>7, <3>1, KeepReadsType
    <3> QED
      BY <1>3, <1>7, <3>2
  <2>2. CASE ForgetReads
    <3>1. /\ openKnown' \in BOOLEAN /\ pending' \in SUBSET Symbols /\ pendingSell' \in SUBSET Symbols
          /\ heldSnap' \in [Symbols -> 0..MaxShares]
          /\ \A s \in Symbols : heldSnap'[s] = 0
      BY <2>2, ForgetReadsType
    <3> QED
      BY <1>3, <3>1
  <2> QED
    BY <2>1, <2>2 DEF DaemonScans, LimitCarry, DaemonRests
<1>9. pc' \in [Actors -> Steps] /\ plan' \in [Actors -> SUBSET Item] /\ WorkOk' /\ PlaceOk'
  <2>1. CASE DaemonScans
    <3>1. PICK chosen \in SUBSET {s \in Universe[mode] \ Entries : shares[s] = 0 /\ day[s] = "free"} :
            plan' = [plan EXCEPT !["daemon"] = {[sym |-> s, kind |-> "buy"] : s \in chosen}]
      BY <2>1 DEF DaemonScans
    <3> DEFINE new == {[sym |-> s, kind |-> "buy"] : s \in chosen}
    <3>2. chosen \subseteq Symbols
      BY UniverseAssumption DEF TypeOK
    <3>3. new \in SUBSET Item
      BY <3>2 DEF Item, Kinds
    <3>4. Zone /\ Go("daemon", "entries")
      BY <2>1 DEF DaemonScans
    <3>5. ASSUME NEW i \in new
          PROVE  ItemOk("daemon", i)'
      <4>1. i.kind = "buy" /\ pc'["daemon"] = "entries"
        BY <3>4 DEF Go, TypeOK, Actors
      <4>2. KindsAt("daemon", "entries")' = {"buy"}
        BY DEF KindsAt
      <4> QED
        BY <4>1, <4>2 DEF ItemOk, UsesEntry
    <3> HIDE DEF new
    <3>6. plan' = [plan EXCEPT !["daemon"] = new]
      BY <3>1 DEF new
    <3> QED
      BY <1>1, <1>4, <1>5, <1>6, <3>3, <3>4, <3>5, <3>6, DaemonPlans DEF Steps, Actors
  <2>2. CASE LimitCarry
    <3>1. PICK excess \in (SUBSET {s \in Entries : shares[s] > 0}) \ {{}} :
            plan' = [plan EXCEPT !["daemon"] = {[sym |-> s, kind |-> "carry"] : s \in excess}]
      BY <2>2 DEF LimitCarry
    <3> DEFINE new == {[sym |-> s, kind |-> "carry"] : s \in excess}
    <3>2. excess \subseteq Symbols
      BY DEF Entries
    <3>3. new \in SUBSET Item
      BY <3>2 DEF Item, Kinds
    <3>4. Go("daemon", "carrying")
      BY <2>2 DEF LimitCarry
    <3>5. ASSUME NEW i \in new
          PROVE  ItemOk("daemon", i)'
      <4>1. i.kind = "carry" /\ pc'["daemon"] = "carrying"
        BY <3>4 DEF Go, TypeOK, Actors
      <4>2. KindsAt("daemon", "carrying")' = {"carry"}
        BY DEF KindsAt
      <4> QED
        BY <4>1, <4>2 DEF ItemOk, UsesEntry
    <3> HIDE DEF new
    <3>6. plan' = [plan EXCEPT !["daemon"] = new]
      BY <3>1 DEF new
    <3> QED
      BY <1>1, <1>4, <1>5, <1>6, <3>3, <3>4, <3>5, <3>6, DaemonPlans DEF Steps, Actors
  <2>3. CASE DaemonRests
    <3>1. Go("daemon", "idle") /\ UNCHANGED plan
      BY <2>3 DEF DaemonRests
    <3> QED
      BY <1>1, <1>4, <1>5, <1>6, <3>1, DaemonMoves DEF Steps, Actors, TypeOK, Item
  <2> QED
    BY <2>1, <2>2, <2>3
<1>10. TypeOK'
  BY <1>1, <1>2, <1>6, <1>8, <1>9 DEF TypeOK, Steps
<1>11. AmountsOk'
  BY <1>1, <1>2, <1>6, <1>8 DEF AmountsOk, EntryOk, Zone, Actors
<1> QED
  BY <1>9, <1>10, <1>11

\* One order: the place of the actors does not change.
LEMMA PlaceKept ==
  ASSUME TypeInv, UNCHANGED <<mode, pc>>, Done("daemon") => Done("daemon")'
  PROVE  PlaceOk'
BY DEF TypeInv, PlaceOk, Zone, Apart

\* The quantity of a planned order.
LEMMA QtyType ==
  ASSUME TypeInv, NEW a \in Actors, NEW i \in plan[a]
  PROVE  /\ QtyOf(a, i) \in 0..MaxShares
         /\ i.kind \in Buys => QtyOf(a, i) = Lot
         /\ i.kind = "partial" => QtyOf(a, i) >= 1
         /\ i.kind = "partial" /\ a = "trader" => QtyOf(a, i) <= snap[a][i.sym].total
<1>1. Lot \in Nat \ {0} /\ MaxShares \in Nat /\ Lot <= MaxShares
  BY Bounds DEF TypeInv
<1>2. i \in Item /\ i.sym \in Symbols /\ i.kind \in Kinds /\ ItemOk(a, i)
  BY DEF TypeInv, TypeOK, WorkOk, Item
<1>3. heldSnap[i.sym] \in 0..MaxShares /\ snap[a][i.sym] \in Entry \cup {None}
  BY <1>2 DEF TypeInv, TypeOK
<1>4. i.kind \in Buys => QtyOf(a, i) = Lot
  BY DEF QtyOf, Buys
<1>5. CASE a = "trader" /\ i.kind \in {"partial", "full"}
  <2>1. snap[a][i.sym] # None /\ (i.kind = "partial" => snap[a][i.sym].total >= 2)
    BY <1>2, <1>5 DEF ItemOk, UsesEntry
  <2>2. snap[a][i.sym].total \in 0..MaxShares
    <3>1. ~Zone
      BY <1>2, <1>5 DEF ItemOk, KindsAt, PlaceOk, TypeInv
    <3>2. EntryOk(snap[a][i.sym]) /\ Cap \in Nat /\ Cap <= MaxShares
      BY <1>2, Bounds DEF TypeInv, AmountsOk
    <3>3. snap[a][i.sym].total \in 0..2 * MaxShares
      BY <1>3, <2>1 DEF Entry
    <3> QED
      BY <1>1, <2>1, <3>1, <3>2, <3>3 DEF EntryOk
  <2>3. \A q \in Nat : q >= 2 => GapPart(q) \in 1..q
    BY DEF GapPart
  <2>4. QtyOf(a, i) = IF i.kind = "partial" THEN GapPart(snap[a][i.sym].total)
                                             ELSE snap[a][i.sym].total
    BY <1>5 DEF QtyOf, Buys
  <2> QED
    BY <1>1, <1>5, <2>1, <2>2, <2>3, <2>4 DEF Buys
<1>6. CASE a = "daemon" /\ i.kind = "partial"
  <2>1. heldSnap[i.sym] >= 1
    BY <1>2, <1>6 DEF ItemOk
  <2>2. QtyOf(a, i) = IF heldSnap[i.sym] = 1 THEN 1 ELSE heldSnap[i.sym] \div 2
    BY <1>6 DEF QtyOf, Buys
  <2>3. \A q \in Nat : q >= 2 => q \div 2 \in 1..q
    OBVIOUS
  <2> QED
    BY <1>1, <1>3, <1>6, <2>1, <2>2, <2>3 DEF Buys
<1>7. CASE i.kind \notin Buys /\ i.kind # "partial" /\ ~(a = "trader" /\ i.kind = "full")
  <2>1. QtyOf(a, i) = heldSnap[i.sym]
    BY <1>7 DEF QtyOf
  <2> QED
    BY <1>3, <1>7, <2>1
<1> QED
  BY <1>1, <1>4, <1>5, <1>6, <1>7 DEF Actors, Buys

LEMMA SkipType ==
  ASSUME TypeInv, NEW a \in Actors, NEW i \in plan[a], Skip(a, i)
  PROVE  TypeInv'
<1> USE DEF TypeInv
<1>1. UNCHANGED <<mode, faults, shares, buying, selling, bought, book, day, pc, snap, job, openKnown,
                  pending, pendingSell, heldSnap, strays, partials>>
  BY DEF Skip, broker, ledgers, reads, history
<1>2. Cap' = Cap /\ MaxShares' = MaxShares /\ Entry' = Entry /\ Job' = Job /\ Item' = Item
  BY <1>1, SameMode DEF Cap, Item
<1>3. plan' = [plan EXCEPT ![a] = @ \ {i}]
  BY DEF Skip
<1>4. plan' \in [Actors -> SUBSET Item] /\ \A b \in Actors : plan'[b] \subseteq plan[b]
  BY <1>3 DEF TypeOK
<1>5. TypeOK'
  BY <1>1, <1>2, <1>4 DEF TypeOK
<1>6. WorkOk'
  <2>1. \A b \in Actors : \A c : KindsAt(b, c)' = KindsAt(b, c)
    BY <1>1, SameMode
  <2>2. \A b \in Actors : \A k \in plan[b] : ItemOk(b, k)'
    BY <1>1, <2>1 DEF WorkOk, ItemOk
  <2>3. \A b \in Actors : job[b] # None => JobOk(b)'
    BY <1>1, <1>2, <2>1 DEF WorkOk, JobOk
  <2> QED
    BY <1>1, <1>4, <2>2, <2>3 DEF WorkOk
<1>7. PlaceOk'
  BY <1>1, <1>4, PlaceKept DEF Done, Actors
<1>8. AmountsOk'
  BY <1>1, <1>2 DEF AmountsOk, EntryOk, Zone
<1> QED
  BY <1>5, <1>6, <1>7, <1>8

LEMMA BeginType ==
  ASSUME TypeInv, NEW a \in Actors, NEW i \in plan[a], Begin(a, i)
  PROVE  TypeInv'
<1> USE DEF TypeInv
<1>1. UNCHANGED <<mode, faults, shares, buying, selling, bought, book, day, pc, snap, openKnown,
                  pending, pendingSell, heldSnap, strays, partials>>
  BY DEF Begin, broker, ledgers, reads, history
<1>2. Cap' = Cap /\ MaxShares' = MaxShares /\ Entry' = Entry /\ Job' = Job /\ Item' = Item
  BY <1>1, SameMode DEF Cap, Item
<1>3. plan' = [plan EXCEPT ![a] = @ \ {i}]
  BY DEF Begin
<1>4. plan' \in [Actors -> SUBSET Item] /\ \A b \in Actors : plan'[b] \subseteq plan[b]
  BY <1>3 DEF TypeOK
<1> DEFINE j == [sym |-> i.sym, kind |-> i.kind, qty |-> QtyOf(a, i), tries |-> 0, answered |-> FALSE]
<1>5. job' = [job EXCEPT ![a] = j]
  BY DEF Begin
<1>6. i.sym \in Symbols /\ i.kind \in Kinds /\ ItemOk(a, i)
  BY DEF TypeOK, WorkOk, Item
<1>7. j \in Job
  <2>1. QtyOf(a, i) \in 0..MaxShares /\ Retries \in Nat
    BY QtyType, NumbersAssumption
  <2> QED
    BY <1>6, <2>1 DEF Job
<1>8. job' \in [Actors -> Job \cup {None}] /\ job'[a] = j /\ \A b \in Actors \ {a} : job'[b] = job[b]
  BY <1>5, <1>7 DEF TypeOK
<1>9. TypeOK'
  BY <1>1, <1>2, <1>4, <1>8 DEF TypeOK
<1>10. WorkOk'
  <2>1. \A b \in Actors : \A c : KindsAt(b, c)' = KindsAt(b, c)
    BY <1>1, SameMode
  <2>2. \A b \in Actors : \A k \in plan[b] : ItemOk(b, k)'
    BY <1>1, <2>1 DEF WorkOk, ItemOk
  <2>3. \A b \in Actors \ {a} : job'[b] # None => JobOk(b)'
    BY <1>1, <1>2, <1>8, <2>1 DEF WorkOk, JobOk
  <2>4. /\ j.sym = i.sym /\ j.kind = i.kind /\ j.qty = QtyOf(a, i) /\ ~j.answered
    OBVIOUS
  <2> HIDE DEF j
  <2>5. JobOk(a)'
    BY <1>1, <1>6, <1>8, <2>1, <2>4, QtyType DEF JobOk, ItemOk
  <2> QED
    BY <1>4, <2>2, <2>3, <2>5 DEF WorkOk
<1>11. PlaceOk'
  <2>1. plan[a] # {}
    OBVIOUS
  <2>2. Done("daemon") => a # "daemon" /\ plan'["daemon"] = plan["daemon"] /\ job'["daemon"] = job["daemon"]
    BY <1>3, <1>8, <2>1 DEF Done, Actors, TypeOK
  <2> QED
    BY <1>1, <2>2, PlaceKept DEF Done
<1>12. AmountsOk'
  BY <1>1, <1>2 DEF AmountsOk, EntryOk, Zone
<1> QED
  BY <1>9, <1>10, <1>11, <1>12

\* What the broker does with a request that reaches it.
LEMMA AcceptType ==
  ASSUME TypeInv, NEW a \in Actors, Unanswered(a), Accept(job[a]), UNCHANGED <<mode, shares>>
  PROVE  /\ buying' \in [Symbols -> 0..MaxShares] /\ selling' \in [Symbols -> 0..MaxShares]
         /\ bought' \in 0..MaxBuys[mode] /\ Cap' \in Nat /\ Cap <= Cap'
         /\ job[a].kind \in Buys => Cap' = Cap + Lot
         /\ \A s \in Symbols : shares[s] + buying'[s] <= Cap' /\ selling'[s] <= shares[s]
<1> USE DEF TypeInv
<1>1. /\ Lot \in Nat \ {0} /\ MaxShares \in Nat /\ Lot <= MaxShares /\ Cap \in Nat
      /\ Cap <= MaxShares
  BY Bounds
<1>2. \A s \in Symbols : /\ shares[s] \in 0..MaxShares /\ buying[s] \in 0..MaxShares
                         /\ selling[s] \in 0..MaxShares
                         /\ shares[s] + buying[s] <= Cap /\ selling[s] <= shares[s]
  BY DEF TypeOK, AmountsOk
<1> DEFINE j == job[a]
<1>3. j \in Job /\ j.sym \in Symbols /\ j.qty \in 0..MaxShares /\ JobOk(a)
  BY DEF Unanswered, TypeOK, WorkOk, Job
<1>4. CASE j.kind \in Buys
  <2>1. /\ bought' = bought + 1 /\ bought < MaxBuys[mode]
        /\ buying' = [buying EXCEPT ![j.sym] = @ + j.qty] /\ UNCHANGED selling
    BY <1>4 DEF Accept
  <2>2. Cap' = Cap + Lot /\ Cap + Lot <= MaxShares /\ bought' \in 0..MaxBuys[mode]
    BY <2>1, OneMore
  <2>3. j.qty = Lot
    BY <1>3, <1>4 DEF JobOk
  <2>4. buying[j.sym] + j.qty \in 0..MaxShares
    BY <1>1, <1>2, <1>3, <2>2, <2>3
  <2> HIDE DEF j
  <2>5. buying' \in [Symbols -> 0..MaxShares]
    BY <2>1, <2>4 DEF TypeOK
  <2>6. \A s \in Symbols : buying'[s] = IF s = j.sym THEN buying[s] + Lot ELSE buying[s]
    BY <2>1, <2>3 DEF TypeOK
  <2>7. \A s \in Symbols : shares[s] + buying'[s] <= Cap' /\ selling'[s] <= shares[s]
    BY <1>1, <1>2, <2>1, <2>2, <2>6
  <2>8. Cap' \in Nat /\ Cap <= Cap' /\ selling' \in [Symbols -> 0..MaxShares]
    BY <1>1, <2>1, <2>2 DEF TypeOK
  <2> QED
    BY <2>2, <2>5, <2>7, <2>8
<1>5. CASE j.kind \notin Buys
  <2>1. /\ j.qty <= shares[j.sym] - selling[j.sym]
        /\ selling' = [selling EXCEPT ![j.sym] = @ + j.qty] /\ UNCHANGED <<bought, buying>>
    BY <1>5 DEF Accept
  <2>2. selling[j.sym] + j.qty \in 0..MaxShares /\ selling[j.sym] + j.qty <= shares[j.sym]
    BY <1>1, <1>2, <1>3, <2>1
  <2> HIDE DEF j
  <2>3. Cap' = Cap
    BY <2>1 DEF Cap
  <2>4. selling' \in [Symbols -> 0..MaxShares] /\ \A s \in Symbols : selling'[s] <= shares[s]
    BY <1>2, <2>1, <2>2 DEF TypeOK
  <2>5. buying' \in [Symbols -> 0..MaxShares] /\ bought' \in 0..MaxBuys[mode]
    BY <2>1 DEF TypeOK
  <2> QED
    BY <1>1, <1>2, <1>5, <2>1, <2>3, <2>4, <2>5 DEF j
<1> QED
  BY <1>4, <1>5

LEMMA CountedType ==
  ASSUME TypeOK, NEW j \in Job, Counted(j)
  PROVE  /\ partials' \in [Symbols -> Nat]
         /\ \A s \in Symbols :
              partials'[s] = IF s = j.sym /\ ~Apart /\ j.kind = "partial" THEN partials[s] + 1 ELSE partials[s]
<1>1. \A s \in Symbols : partials[s] \in Nat
  BY DEF TypeOK
<1>2. j.sym \in Symbols
  BY DEF Job
<1>3. partials[j.sym] + (IF ~Apart /\ j.kind = "partial" THEN 1 ELSE 0) \in Nat
  BY <1>1, <1>2
<1> QED
  BY <1>1, <1>2, <1>3 DEF Counted, TypeOK

\* The job after an attempt that brought no answer.
LEMMA RetryType ==
  ASSUME TypeInv, NEW a \in Actors, Unanswered(a), Retry(a)
  PROVE  /\ job' \in [Actors -> Job \cup {None}]
         /\ \A b \in Actors \ {a} : job'[b] = job[b]
         /\ job'[a] # None => /\ job'[a].sym = job[a].sym /\ job'[a].kind = job[a].kind
                              /\ job'[a].qty = job[a].qty /\ ~job'[a].answered
<1>1. job \in [Actors -> Job \cup {None}] /\ job[a] \in Job /\ ~job[a].answered
  BY DEF TypeInv, TypeOK, Unanswered
<1> DEFINE again == [job[a] EXCEPT !.tries = @ + 1]
           next == IF job[a].tries < RetriesOf(a, job[a].kind) THEN again ELSE None
<1>2. job' = [job EXCEPT ![a] = next]
  BY <1>1 DEF Retry
<1>3. RetriesOf(a, job[a].kind) \in 0..Retries /\ Retries \in Nat
  BY NumbersAssumption DEF RetriesOf
<1>4. job[a].tries < RetriesOf(a, job[a].kind) => again \in Job
  BY <1>1, <1>3 DEF Job
<1>5. again.sym = job[a].sym /\ again.kind = job[a].kind /\ again.qty = job[a].qty /\ ~again.answered
  BY <1>1 DEF Job
<1> HIDE DEF again
<1>6. next \in Job \cup {None} /\ next \in {again, None}
  BY <1>4
<1> HIDE DEF next
<1> QED
  BY <1>1, <1>2, <1>5, <1>6

LEMMA AuditedType ==
  ASSUME TypeOK, NEW a \in Actors, Audited(a)
  PROVE  /\ day' \in [Symbols -> {"free", "bought", "sold"}]
         /\ \A s \in Symbols : day'[s] \in {day[s], "sold"}
BY DEF TypeOK, Audited

\* What sending changes of the work: a job that is tried again or answered.
LEMMA SentWork ==
  ASSUME TypeInv, NEW a \in Actors, UNCHANGED <<mode, pc, snap, plan, heldSnap>>, job[a] # None,
         \A b \in Actors \ {a} : job'[b] = job[b],
         Cap \in Nat, Cap' \in Nat, Cap <= Cap', job'[a] # None => JobOk(a)'
  PROVE  WorkOk' /\ PlaceOk'
<1> USE DEF TypeInv
<1>1. \A b \in Actors : \A c : KindsAt(b, c)' = KindsAt(b, c)
  BY SameMode
<1>2. \A b \in Actors : \A k \in plan[b] : ItemOk(b, k)'
  BY <1>1 DEF WorkOk, ItemOk
<1>3. ASSUME NEW b \in Actors \ {a}, job[b] # None
      PROVE  JobOk(b)'
  <2>1. JobOk(b) /\ Lot \in Nat /\ job[b] \in Job
    BY <1>3, NumbersAssumption DEF WorkOk, TypeOK
  <2>2. job[b].kind = "dca" => snap[b][job[b].sym].qty \in Int
    <3>1. SUFFICES ASSUME job[b].kind = "dca" PROVE snap[b][job[b].sym].qty \in Int
      OBVIOUS
    <3>2. snap[b][job[b].sym] \in Entry /\ MaxShares \in Nat
      BY <2>1, <3>1, Bounds DEF JobOk, UsesEntry, Job, TypeOK
    <3> QED
      BY <3>2 DEF Entry
  <2> QED
    BY <1>1, <2>1, <2>2 DEF JobOk
<1>4. WorkOk'
  BY <1>2, <1>3 DEF WorkOk
<1>5. Done("daemon") => Done("daemon")'
  BY DEF Done, Actors
<1> QED
  BY <1>4, <1>5, PlaceKept

LEMMA SendAcceptedType ==
  ASSUME TypeInv, NEW a \in Actors, SendAccepted(a)
  PROVE  TypeInv'
<1> USE DEF TypeInv
<1>1. UNCHANGED <<mode, faults, shares, book, day, pc, snap, plan, openKnown, pending, pendingSell,
                  heldSnap, strays>>
  BY DEF SendAccepted, ledgers, reads
<1>2. MaxShares' = MaxShares /\ Entry' = Entry /\ Job' = Job /\ Item' = Item
  BY <1>1, SameMode DEF Item
<1>3. Unanswered(a) /\ Accept(job[a]) /\ Counted(job[a]) /\ job' = [job EXCEPT ![a].answered = TRUE]
  BY DEF SendAccepted
<1>4. job[a] \in Job /\ JobOk(a) /\ job[a] # None /\ Lot \in Nat /\ Cap \in Nat /\ MaxShares \in Nat
  BY <1>3, Bounds DEF TypeOK, WorkOk, Unanswered
<1> DEFINE j == [job[a] EXCEPT !.answered = TRUE]
<1>5. /\ j \in Job /\ j.sym = job[a].sym /\ j.kind = job[a].kind /\ j.qty = job[a].qty
  BY <1>4 DEF Job
<1>6. job' = [job EXCEPT ![a] = j]
  BY <1>3
<1> HIDE DEF j
<1>7. job' \in [Actors -> Job \cup {None}] /\ job'[a] = j /\ \A b \in Actors \ {a} : job'[b] = job[b]
  BY <1>5, <1>6 DEF TypeOK
<1>8. /\ buying' \in [Symbols -> 0..MaxShares] /\ selling' \in [Symbols -> 0..MaxShares]
      /\ bought' \in 0..MaxBuys[mode] /\ Cap' \in Nat /\ Cap <= Cap'
      /\ job[a].kind \in Buys => Cap' = Cap + Lot
      /\ \A s \in Symbols : shares[s] + buying'[s] <= Cap' /\ selling'[s] <= shares[s]
  BY <1>1, <1>3, AcceptType
<1>9. partials' \in [Symbols -> Nat]
  BY <1>3, <1>4, CountedType
<1>10. TypeOK'
  BY <1>1, <1>2, <1>7, <1>8, <1>9 DEF TypeOK
<1>11. JobOk(a)'
  <2>1. \A c : KindsAt(a, c)' = KindsAt(a, c)
    BY <1>1, SameMode
  <2>2. job[a].kind = "dca" => snap[a][job[a].sym].qty \in Int /\ snap[a][job[a].sym].qty <= Cap
    <3>1. SUFFICES ASSUME job[a].kind = "dca"
                   PROVE  snap[a][job[a].sym].qty \in Int /\ snap[a][job[a].sym].qty <= Cap
      OBVIOUS
    <3>2. job[a].sym \in Symbols /\ snap[a][job[a].sym] \in Entry /\ snap[a][job[a].sym] # None
      BY <1>4, <3>1 DEF JobOk, UsesEntry, Job, TypeOK
    <3> QED
      BY <1>4, <3>2 DEF Entry, AmountsOk, EntryOk
  <2> QED
    BY <1>1, <1>4, <1>5, <1>7, <1>8, <2>1, <2>2 DEF JobOk, Buys
<1>12. WorkOk' /\ PlaceOk'
  BY <1>1, <1>4, <1>7, <1>8, <1>11, SentWork
<1>13. AmountsOk'
  <2>1. \A s \in Symbols : heldSnap[s] \in Int /\ heldSnap[s] <= Cap'
    BY <1>4, <1>8 DEF TypeOK, AmountsOk
  <2>2. \A e \in Entry \cup {None} : EntryOk(e) => EntryOk(e)'
    <3>1. \A e \in Entry : e.qty \in Int /\ e.total \in Int
      BY <1>4 DEF Entry
    <3> QED
      BY <1>1, <1>4, <1>8, <3>1 DEF EntryOk, Zone
  <2> QED
    BY <1>1, <1>8, <2>1, <2>2 DEF AmountsOk, TypeOK
<1> QED
  BY <1>10, <1>12, <1>13

LEMMA SendFailedType ==
  ASSUME TypeInv, NEW a \in Actors, SendRefused(a) \/ SendLost(a)
  PROVE  TypeInv'
<1> USE DEF TypeInv
<1>1. UNCHANGED <<mode, shares, book, pc, snap, plan, openKnown, pending, pendingSell, heldSnap>>
  BY DEF SendRefused, SendLost, reads, broker
<1>2. MaxShares' = MaxShares /\ Entry' = Entry /\ Job' = Job /\ Item' = Item
  BY <1>1, SameMode DEF Item
<1>3. Unanswered(a) /\ Retry(a) /\ Audited(a)
  BY DEF SendRefused, SendLost
<1>4. job[a] \in Job /\ JobOk(a) /\ job[a] # None /\ Lot \in Nat /\ Cap \in Nat /\ MaxShares \in Nat
  BY <1>3, Bounds DEF TypeOK, WorkOk, Unanswered
<1>5. /\ job' \in [Actors -> Job \cup {None}]
      /\ \A b \in Actors \ {a} : job'[b] = job[b]
      /\ job'[a] # None => /\ job'[a].sym = job[a].sym /\ job'[a].kind = job[a].kind
                           /\ job'[a].qty = job[a].qty /\ ~job'[a].answered
  BY <1>3, RetryType
<1>6. day' \in [Symbols -> {"free", "bought", "sold"}]
  BY <1>3, AuditedType
<1>7. /\ faults' \in 0..MaxFaults[mode] /\ strays' \in [Symbols -> Nat]
      /\ partials' \in [Symbols -> Nat]
      /\ buying' \in [Symbols -> 0..MaxShares] /\ selling' \in [Symbols -> 0..MaxShares]
      /\ bought' \in 0..MaxBuys[mode] /\ Cap' \in Nat /\ Cap <= Cap'
      /\ \A s \in Symbols : shares[s] + buying'[s] <= Cap' /\ selling'[s] <= shares[s]
  <2>1. CASE UNCHANGED <<buying, selling, bought, strays, partials>>
    <3>1. UNCHANGED faults \/ Fail
      BY DEF SendRefused, SendLost
    <3>2. faults' \in 0..MaxFaults[mode]
      BY <3>1, FailType DEF TypeOK
    <3>3. Cap' = Cap
      BY <2>1 DEF Cap
    <3> QED
      BY <1>4, <2>1, <3>2, <3>3 DEF TypeOK, AmountsOk
  <2>2. CASE /\ Accept(job[a]) /\ Counted(job[a]) /\ Fail
             /\ strays' = [strays EXCEPT ![job[a].sym] = @ + (IF job[a].kind \in Buys THEN 1 ELSE 0)]
    <3>1. faults' \in 0..MaxFaults[mode] /\ partials' \in [Symbols -> Nat]
      BY <1>4, <2>2, FailType, CountedType
    <3>2. strays' \in [Symbols -> Nat]
      BY <1>4, <2>2 DEF TypeOK, Job
    <3>3. /\ buying' \in [Symbols -> 0..MaxShares] /\ selling' \in [Symbols -> 0..MaxShares]
          /\ bought' \in 0..MaxBuys[mode] /\ Cap' \in Nat /\ Cap <= Cap'
          /\ job[a].kind \in Buys => Cap' = Cap + Lot
          /\ \A s \in Symbols : shares[s] + buying'[s] <= Cap' /\ selling'[s] <= shares[s]
      BY <1>1, <1>3, <2>2, AcceptType
    <3> QED
      BY <3>1, <3>2, <3>3
  <2> QED
    BY <2>1, <2>2 DEF SendRefused, SendLost, broker, history
<1>8. TypeOK'
  BY <1>1, <1>2, <1>5, <1>6, <1>7 DEF TypeOK
<1>9. job'[a] # None => JobOk(a)'
  <2>1. \A c : KindsAt(a, c)' = KindsAt(a, c)
    BY <1>1, SameMode
  <2> QED
    BY <1>1, <1>4, <1>5, <2>1 DEF JobOk
<1>10. WorkOk' /\ PlaceOk'
  BY <1>1, <1>4, <1>5, <1>7, <1>9, SentWork
<1>11. AmountsOk'
  <2>1. \A s \in Symbols : heldSnap[s] \in Int /\ heldSnap[s] <= Cap'
    BY <1>4, <1>7 DEF TypeOK, AmountsOk
  <2>2. \A e \in Entry \cup {None} : EntryOk(e) => EntryOk(e)'
    <3>1. \A e \in Entry : e.qty \in Int /\ e.total \in Int
      BY <1>4 DEF Entry
    <3> QED
      BY <1>1, <1>4, <1>7, <3>1 DEF EntryOk, Zone
  <2> QED
    BY <1>1, <1>7, <2>1, <2>2 DEF AmountsOk, TypeOK
<1> QED
  BY <1>8, <1>10, <1>11

\* The entry a recorded answer leaves.
Recorded(a) ==
  LET j == job[a] IN
  CASE j.kind = "buy" -> NewEntry
    [] j.kind = "dca" -> AfterDca(a, j)
    [] j.kind = "partial" /\ snap[a][j.sym] # None -> AfterPartial(a, j)
    [] j.kind = "partial" /\ snap[a][j.sym] = None -> book[j.sym]
    [] OTHER -> None

LEMMA RecordedEntry ==
  ASSUME TypeInv, NEW a \in Actors, job[a] # None, job[a].answered
  PROVE  /\ Recorded(a) \in Entry \cup {None} /\ EntryOk(Recorded(a))
         /\ job[a].kind \in Buys => Recorded(a) # None
         /\ job[a].kind = "partial" /\ snap[a][job[a].sym] # None => Recorded(a) # None
         /\ job[a].kind = "buy" => ~Recorded(a).partial
         /\ job[a].kind = "dca" => ~Recorded(a).rest
         /\ job[a].kind = "dca" => (Recorded(a).partial <=> snap[a][job[a].sym].partial)
         /\ job[a].kind = "partial" /\ snap[a][job[a].sym] # None =>
              Recorded(a).partial /\ (Recorded(a).rest <=> snap[a][job[a].sym].rest)
<1> USE DEF TypeInv
<1>1. /\ Lot \in Nat \ {0} /\ MaxShares \in Nat /\ Lot <= MaxShares /\ Cap \in Nat /\ Cap <= MaxShares
  BY Bounds
<1> DEFINE j == job[a]
           e == snap[a][j.sym]
<1>2. /\ j \in Job /\ j.sym \in Symbols /\ j.qty \in 0..MaxShares /\ j.kind \in Kinds /\ JobOk(a)
      /\ e \in Entry \cup {None} /\ EntryOk(e)
      /\ book[j.sym] \in Entry \cup {None} /\ EntryOk(book[j.sym])
  BY DEF TypeOK, WorkOk, AmountsOk, Job
<1>3. \A x \in Entry : x # None
  BY <1>1, NoneAssumption DEF Entry
<1>4. CASE j.kind = "buy"
  <2>1. Recorded(a) = NewEntry
    BY <1>4 DEF Recorded
  <2>2. Zone \in BOOLEAN
    BY DEF Zone
  <2> DEFINE total == IF Zone THEN 2 * Lot ELSE Lot
  <2>3. total \in 0..2 * MaxShares /\ (~Zone => total = Lot)
    BY <1>1
  <2> HIDE DEF total
  <2>4. NewEntry = [qty |-> Lot, total |-> total, partial |-> FALSE, rest |-> Zone]
    BY DEF NewEntry, total
  <2>6. NewEntry \in Entry
    BY <1>1, <2>2, <2>3, <2>4 DEF Entry
  <2>7. /\ NewEntry.qty = Lot /\ NewEntry.total = total
        /\ NewEntry.partial = FALSE /\ (NewEntry.rest => Zone)
    BY <2>2, <2>4
  <2>5. Lot <= Cap
    BY <1>2, <1>4 DEF JobOk
  <2> QED
    BY <1>3, <1>4, <2>1, <2>3, <2>5, <2>6, <2>7 DEF EntryOk
<1>5. CASE j.kind = "dca"
  <2>1. Recorded(a) = AfterDca(a, j)
    BY <1>5 DEF Recorded
  <2>2. e \in Entry /\ e.qty \in 0..MaxShares /\ e.qty + Lot <= Cap /\ j.qty = Lot
        /\ (~Zone => e.total <= Cap) /\ e.total \in Int
    BY <1>1, <1>2, <1>5 DEF JobOk, UsesEntry, Entry, EntryOk, Buys
  <2> HIDE DEF j, e
  <2>3. AfterDca(a, j) = [e EXCEPT !.qty = e.qty + j.qty, !.rest = FALSE]
    BY <2>2 DEF AfterDca, e, Entry
  <2>4. [e EXCEPT !.qty = e.qty + j.qty, !.rest = FALSE] \in Entry
    <3>1. e.qty + j.qty \in 0..MaxShares
      BY <1>1, <2>2
    <3> QED
      BY <2>2, <3>1 DEF Entry
  <2>5. LET x == [e EXCEPT !.qty = e.qty + j.qty, !.rest = FALSE] IN
          x.qty = e.qty + Lot /\ x.total = e.total /\ ~x.rest /\ x.partial = e.partial
    BY <2>2 DEF Entry
  <2> QED
    BY <1>3, <1>5, <2>1, <2>2, <2>3, <2>4, <2>5 DEF EntryOk, j, e
<1>6. CASE j.kind = "partial" /\ e # None
  <2>1. Recorded(a) = AfterPartial(a, j)
    BY <1>6 DEF Recorded
  <2>2. e \in Entry /\ e.qty \in 0..MaxShares /\ e.qty <= Cap /\ (e.rest => Zone)
        /\ e.total \in 0..2 * MaxShares /\ (~Zone => e.total <= Cap)
        /\ (a = "trader" => j.qty <= e.total)
    BY <1>2, <1>6 DEF JobOk, Entry, EntryOk
  <2> DEFINE q == IF a = "trader" THEN e.total - j.qty ELSE e.total
  <2>3. q \in 0..2 * MaxShares /\ (~Zone => q <= Cap)
    BY <1>1, <1>2, <2>2
  <2> HIDE DEF j, e
  <2>4. AfterPartial(a, j) = [e EXCEPT !.partial = TRUE, !.total = q]
    BY <2>2 DEF AfterPartial, e, Entry
  <2> HIDE DEF q
  <2>5. [e EXCEPT !.partial = TRUE, !.total = q] \in Entry
    BY <1>1, <2>2, <2>3 DEF Entry
  <2>6. LET x == [e EXCEPT !.partial = TRUE, !.total = q] IN
          x.qty = e.qty /\ x.total = q /\ x.partial /\ x.rest = e.rest
    BY <2>2 DEF Entry
  <2> QED
    BY <1>3, <1>6, <2>1, <2>2, <2>3, <2>4, <2>5, <2>6 DEF EntryOk, j, e
<1>7. CASE j.kind = "partial" /\ e = None
  <2>1. Recorded(a) = book[j.sym]
    BY <1>7 DEF Recorded
  <2> QED
    BY <1>2, <1>7, <2>1 DEF Buys
<1>8. CASE j.kind \notin {"buy", "dca", "partial"}
  <2>1. Recorded(a) = None
    BY <1>8 DEF Recorded
  <2> QED
    BY <1>8, <2>1 DEF Buys, EntryOk
<1> QED
  BY <1>4, <1>5, <1>6, <1>7, <1>8

\* What Record does, with the entry named.
LEMMA RecordStep ==
  ASSUME TypeInv, NEW a \in Actors, Record(a)
  PROVE  /\ job[a] # None /\ job[a].answered /\ job[a] \in Job /\ job[a].sym \in Symbols /\ JobOk(a)
         /\ book' = [book EXCEPT ![job[a].sym] = Recorded(a)]
         /\ \A s \in Symbols : book'[s] = IF s = job[a].sym THEN Recorded(a) ELSE book[s]
         /\ job' = [job EXCEPT ![a] = None]
         /\ \A b \in Actors : job'[b] = IF b = a THEN None ELSE job[b]
         /\ plan' \in [Actors -> SUBSET Item] /\ \A b \in Actors : plan'[b] \subseteq plan[b]
         /\ \A b \in Actors \ {a} : plan'[b] = plan[b]
         /\ UNCHANGED <<mode, faults, broker, pc, snap, reads>>
<1>1. job[a] # None /\ job[a].answered
  BY DEF Record
<1>2. job[a] \in Job /\ job[a].sym \in Symbols /\ JobOk(a)
  BY <1>1 DEF TypeInv, TypeOK, WorkOk, Job
<1>3. book' = [book EXCEPT ![job[a].sym] = Recorded(a)]
  BY DEF Record, Recorded
<1>4. /\ job' = [job EXCEPT ![a] = None]
      /\ plan' = [plan EXCEPT ![a] = IF job[a].kind = "dca" THEN {i \in @ : i.sym # job[a].sym} ELSE @]
      /\ UNCHANGED <<mode, faults, broker, pc, snap, reads>>
  BY DEF Record
<1>5. \A s \in Symbols : book'[s] = IF s = job[a].sym THEN Recorded(a) ELSE book[s]
  BY <1>3 DEF TypeInv, TypeOK
<1>6. \A b \in Actors : job'[b] = IF b = a THEN None ELSE job[b]
  BY <1>4 DEF TypeInv, TypeOK
<1>7. /\ plan' \in [Actors -> SUBSET Item] /\ \A b \in Actors : plan'[b] \subseteq plan[b]
      /\ \A b \in Actors \ {a} : plan'[b] = plan[b]
  BY <1>4 DEF TypeInv, TypeOK
<1> QED
  BY <1>1, <1>2, <1>3, <1>4, <1>5, <1>6, <1>7

LEMMA RecordType ==
  ASSUME TypeInv, NEW a \in Actors, Record(a)
  PROVE  TypeInv'
<1> USE DEF TypeInv
<1>1. /\ job[a] # None /\ job[a].answered /\ job[a].sym \in Symbols
      /\ book' = [book EXCEPT ![job[a].sym] = Recorded(a)]
      /\ \A s \in Symbols : book'[s] = IF s = job[a].sym THEN Recorded(a) ELSE book[s]
      /\ \A b \in Actors : job'[b] = IF b = a THEN None ELSE job[b]
      /\ job' = [job EXCEPT ![a] = None]
      /\ plan' \in [Actors -> SUBSET Item] /\ \A b \in Actors : plan'[b] \subseteq plan[b]
      /\ UNCHANGED <<mode, faults, shares, buying, selling, bought, pc, snap, openKnown, pending,
                     pendingSell, heldSnap>>
  BY RecordStep DEF broker, reads
<1>2. Cap' = Cap /\ MaxShares' = MaxShares /\ Entry' = Entry /\ Job' = Job /\ Item' = Item
  BY <1>1, SameMode DEF Cap, Item
<1>3. Recorded(a) \in Entry \cup {None} /\ EntryOk(Recorded(a))
  BY <1>1, RecordedEntry
<1>4. book' \in [Symbols -> Entry \cup {None}]
  BY <1>1, <1>3 DEF TypeOK
<1>5. job' \in [Actors -> Job \cup {None}]
  BY <1>1 DEF TypeOK
<1>6. day' \in [Symbols -> {"free", "bought", "sold"}]
  <2>1. CASE Audited(a)
    BY <2>1, AuditedType
  <2>2. CASE day' = [day EXCEPT ![job[a].sym] = "bought"]
    BY <2>2 DEF TypeOK
  <2> QED
    BY <2>1, <2>2 DEF Record
<1>7. strays' \in [Symbols -> Nat]
  <2>1. strays' = [strays EXCEPT ![job[a].sym] =
          strays[job[a].sym] + (IF job[a].kind \in {"full", "carry"} /\ Net(job[a].sym) > 0 THEN 1 ELSE 0)]
    BY <1>1 DEF Record, TypeOK
  <2> QED
    BY <1>1, <2>1 DEF TypeOK
<1>8. partials' \in [Symbols -> Nat]
  <2>1. partials' = [partials EXCEPT ![job[a].sym] =
          IF job[a].kind = "buy" THEN 0 ELSE partials[job[a].sym]]
    BY <1>1 DEF Record, TypeOK
  <2> QED
    BY <1>1, <2>1 DEF TypeOK
<1>9. TypeOK'
  BY <1>1, <1>2, <1>4, <1>5, <1>6, <1>7, <1>8 DEF TypeOK
<1>10. WorkOk'
  <2>1. \A b \in Actors : \A c : KindsAt(b, c)' = KindsAt(b, c)
    BY <1>1, SameMode
  <2>2. \A b \in Actors : \A k \in plan[b] : ItemOk(b, k)'
    BY <1>1, <2>1 DEF WorkOk, ItemOk
  <2>3. \A b \in Actors \ {a} : job[b] # None => JobOk(b)'
    BY <1>1, <1>2, <2>1 DEF WorkOk, JobOk
  <2> QED
    BY <1>1, <2>2, <2>3 DEF WorkOk
<1>11. PlaceOk'
  BY <1>1, PlaceKept DEF Done, Actors
<1>12. AmountsOk'
  <2>1. \A s \in Symbols : EntryOk(book'[s])
    BY <1>1, <1>3 DEF AmountsOk
  <2> QED
    BY <1>1, <1>2, <2>1 DEF AmountsOk, EntryOk, Zone
<1> QED
  BY <1>9, <1>10, <1>11, <1>12

\* Who dies, and what is left of the work.
LEMMA CrashStep ==
  ASSUME TypeInv, NEW a \in Actors, Crash(a)
  PROVE  \E dead \in SUBSET Actors :
           /\ dead = IF Apart THEN {a} ELSE Actors
           /\ \A b \in Actors : IF b \in dead
                THEN /\ pc'[b] = "idle" /\ plan'[b] = {} /\ job'[b] = None
                     /\ \A s \in Symbols : snap'[b][s] = None
                ELSE pc'[b] = pc[b] /\ plan'[b] = plan[b] /\ job'[b] = job[b] /\ snap'[b] = snap[b]
           /\ pc' \in [Actors -> Steps] /\ plan' \in [Actors -> SUBSET Item]
           /\ job' \in [Actors -> Job \cup {None}]
           /\ snap' \in [Actors -> [Symbols -> Entry \cup {None}]]
           /\ IF "daemon" \in dead THEN ForgetReads ELSE UNCHANGED reads
           /\ strays' \in [Symbols -> Nat]
           /\ \A s \in Symbols : strays[s] <= strays'[s]
           /\ \A s \in Symbols : \A b \in dead :
                job[b] # None /\ job[b].answered /\ job[b].kind \in Buys /\ job[b].sym = s =>
                  strays'[s] = strays[s] + 1
           /\ day' \in [Symbols -> {"free", "bought", "sold"}]
           /\ \A s \in Symbols : day[s] = "sold" => day'[s] = "sold"
           /\ Fail /\ UNCHANGED <<mode, broker, book, partials>>
<1> DEFINE dead == IF Apart THEN {a} ELSE Actors
           forgotten(s) == \E b \in dead : /\ job[b] # None /\ job[b].answered
                                           /\ job[b].kind \in Buys /\ job[b].sym = s
           nothing == [s \in Symbols |-> None]
<1>1. /\ Fail /\ UNCHANGED <<mode, broker, book, partials>>
      /\ IF "daemon" \in dead
           THEN day' = [s \in Symbols |-> IF day[s] = "bought" THEN "free" ELSE day[s]]
           ELSE UNCHANGED day
      /\ strays' = [s \in Symbols |-> strays[s] + (IF forgotten(s) THEN 1 ELSE 0)]
      /\ pc' = [b \in Actors |-> IF b \in dead THEN "idle" ELSE pc[b]]
      /\ plan' = [b \in Actors |-> IF b \in dead THEN {} ELSE plan[b]]
      /\ job' = [b \in Actors |-> IF b \in dead THEN None ELSE job[b]]
      /\ snap' = [b \in Actors |-> IF b \in dead THEN nothing ELSE snap[b]]
      /\ IF "daemon" \in dead THEN ForgetReads ELSE UNCHANGED reads
  BY DEF Crash
<1>2. nothing \in [Symbols -> Entry \cup {None}] /\ \A s \in Symbols : nothing[s] = None
  OBVIOUS
<1>3. dead \in SUBSET Actors
  OBVIOUS
<1> HIDE DEF nothing, dead
<1>4. /\ pc' \in [Actors -> Steps] /\ plan' \in [Actors -> SUBSET Item]
      /\ job' \in [Actors -> Job \cup {None}]
      /\ snap' \in [Actors -> [Symbols -> Entry \cup {None}]]
  BY <1>1, <1>2 DEF TypeInv, TypeOK, Steps
<1>5. \A b \in Actors : IF b \in dead
        THEN /\ pc'[b] = "idle" /\ plan'[b] = {} /\ job'[b] = None
             /\ \A s \in Symbols : snap'[b][s] = None
        ELSE pc'[b] = pc[b] /\ plan'[b] = plan[b] /\ job'[b] = job[b] /\ snap'[b] = snap[b]
  BY <1>1, <1>2
<1>6. /\ strays' \in [Symbols -> Nat]
      /\ \A s \in Symbols : strays'[s] = IF forgotten(s) THEN strays[s] + 1 ELSE strays[s]
  <2>1. \A s \in Symbols : strays[s] \in Nat
    BY DEF TypeInv, TypeOK
  <2> HIDE DEF forgotten
  <2> QED
    BY <1>1, <2>1
<1>7. \A s \in Symbols : strays[s] <= strays'[s]
  <2>1. \A s \in Symbols : strays[s] \in Nat
    BY DEF TypeInv, TypeOK
  <2> HIDE DEF forgotten
  <2> QED
    BY <1>6, <2>1
<1>8. day' \in [Symbols -> {"free", "bought", "sold"}] /\ \A s \in Symbols : day[s] = "sold" => day'[s] = "sold"
  BY <1>1 DEF TypeInv, TypeOK
<1> QED
  BY <1>1, <1>3, <1>4, <1>5, <1>6, <1>7, <1>8 DEF dead

LEMMA CrashType ==
  ASSUME TypeInv, NEW a \in Actors, Crash(a)
  PROVE  TypeInv'
<1> USE DEF TypeInv
<1>1. PICK dead \in SUBSET Actors :
        /\ dead = IF Apart THEN {a} ELSE Actors
        /\ \A b \in Actors : IF b \in dead
             THEN /\ pc'[b] = "idle" /\ plan'[b] = {} /\ job'[b] = None
                  /\ \A s \in Symbols : snap'[b][s] = None
             ELSE pc'[b] = pc[b] /\ plan'[b] = plan[b] /\ job'[b] = job[b] /\ snap'[b] = snap[b]
        /\ pc' \in [Actors -> Steps] /\ plan' \in [Actors -> SUBSET Item]
        /\ job' \in [Actors -> Job \cup {None}]
        /\ snap' \in [Actors -> [Symbols -> Entry \cup {None}]]
        /\ IF "daemon" \in dead THEN ForgetReads ELSE UNCHANGED reads
        /\ strays' \in [Symbols -> Nat] /\ day' \in [Symbols -> {"free", "bought", "sold"}]
        /\ Fail /\ UNCHANGED <<mode, broker, book, partials>>
  BY CrashStep
<1>2. UNCHANGED <<mode, shares, buying, selling, bought, book, partials>>
  BY <1>1 DEF broker
<1>3. Cap' = Cap /\ MaxShares' = MaxShares /\ Entry' = Entry /\ Job' = Job /\ Item' = Item
  BY <1>2, SameMode DEF Cap, Item
<1>4. MaxShares \in Nat /\ Cap \in Nat /\ faults' \in 0..MaxFaults[mode]
  BY <1>1, Bounds, FailType
<1>5. /\ openKnown' \in BOOLEAN /\ pending' \in SUBSET Symbols /\ pendingSell' \in SUBSET Symbols
      /\ heldSnap' \in [Symbols -> 0..MaxShares]
      /\ \A s \in Symbols : heldSnap'[s] <= Cap
      /\ "daemon" \notin dead => UNCHANGED heldSnap
  <2>1. CASE "daemon" \in dead
    <3>1. /\ openKnown' \in BOOLEAN /\ pending' \in SUBSET Symbols /\ pendingSell' \in SUBSET Symbols
          /\ heldSnap' \in [Symbols -> 0..MaxShares]
          /\ \A s \in Symbols : heldSnap'[s] = 0
      BY <1>1, <2>1, ForgetReadsType
    <3> QED
      BY <1>4, <2>1, <3>1
  <2>2. CASE "daemon" \notin dead
    <3>1. UNCHANGED <<openKnown, pending, pendingSell, heldSnap>>
      BY <1>1, <2>2 DEF reads
    <3> QED
      BY <3>1 DEF TypeOK, AmountsOk
  <2> QED
    BY <2>1, <2>2
<1>6. TypeOK'
  BY <1>1, <1>2, <1>3, <1>4, <1>5 DEF TypeOK, Steps
<1>7. WorkOk'
  <2>1. \A b \in Actors : \A c : KindsAt(b, c)' = KindsAt(b, c)
    BY <1>2, SameMode
  <2>2. ASSUME NEW b \in Actors \ dead
        PROVE  (\A i \in plan'[b] : ItemOk(b, i)') /\ (job'[b] # None => JobOk(b)')
    <3>1. /\ pc'[b] = pc[b] /\ plan'[b] = plan[b] /\ job'[b] = job[b] /\ snap'[b] = snap[b]
          /\ b = "daemon" => UNCHANGED heldSnap
      BY <1>1, <1>5
    <3>2. \A i \in plan[b] : ItemOk(b, i)'
      BY <2>1, <3>1 DEF WorkOk, ItemOk
    <3>3. job[b] # None => JobOk(b)'
      BY <1>3, <2>1, <3>1 DEF WorkOk, JobOk
    <3> QED
      BY <3>1, <3>2, <3>3
  <2> QED
    BY <1>1, <2>2 DEF WorkOk
<1>8. PlaceOk'
  <2>1. "trader" \in Actors /\ "daemon" \in Actors
    BY DEF Actors
  <2> QED
    BY <1>1, <1>2, <2>1 DEF PlaceOk, Done, Zone, Apart
<1>9. AmountsOk'
  <2>1. \A b \in Actors : \A s \in Symbols : EntryOk(snap'[b][s])
    BY <1>1 DEF AmountsOk, EntryOk
  <2> QED
    BY <1>2, <1>3, <1>5, <2>1 DEF AmountsOk, EntryOk, Zone
<1> QED
  BY <1>6, <1>7, <1>8, <1>9

LEMMA OrderStepCases ==
  ASSUME NEW a \in Actors, OrderStep(a)
  PROVE  \/ \E i \in plan[a] : Skip(a, i)
         \/ \E i \in plan[a] : Begin(a, i)
         \/ SendAccepted(a) \/ SendRefused(a) \/ SendLost(a) \/ Record(a)
BY DEF OrderStep

LEMMA NextType ==
  ASSUME TypeInv, [Next]_vars
  PROVE  TypeInv'
<1>1. CASE UNCHANGED vars
  <2>1. UNCHANGED <<mode, faults, shares, buying, selling, bought, book, day, pc, snap, plan, job,
                    openKnown, pending, pendingSell, heldSnap, strays, partials>>
    BY <1>1 DEF vars, broker, ledgers, cycles, reads, history
  <2>2. Cap' = Cap /\ MaxShares' = MaxShares /\ Entry' = Entry /\ Job' = Job /\ Item' = Item
    BY <2>1, SameMode DEF Cap, Item
  <2>3. TypeOK'
    BY <2>1, <2>2 DEF TypeInv, TypeOK
  <2>4. WorkOk' /\ PlaceOk'
    BY <2>1, WorkUntouched
  <2>5. AmountsOk'
    BY <2>1, <2>2 DEF TypeInv, AmountsOk, EntryOk, Zone
  <2> QED
    BY <2>3, <2>4, <2>5 DEF TypeInv
<1>2. CASE DaemonStep
  BY <1>2, DaemonReadsType, SyncType, LoadType, FillSyncType, DecideType, ScansType DEF DaemonStep
<1>3. ASSUME NEW a \in Actors, OrderStep(a)
      PROVE  TypeInv'
  BY <1>3, OrderStepCases, SkipType, BeginType, SendAcceptedType, SendFailedType, RecordType
<1>4. ASSUME NEW a \in Actors, Crash(a)
      PROVE  TypeInv'
  BY <1>4, CrashType
<1> QED
  BY <1>1, <1>2, <1>3, <1>4, BrokerType, TraderStepType DEF Next

\* Entries, working orders, snapshots and the orders in hand keep their types
\* (core/journal/active_positions.py ActivePosition, LiveOrderGate.place_buy
\* and place_sell), for any symbols, lots, bounds and places of the trader.
THEOREM TypeCorrect == Spec => []TypeOK
<1>1. Init => TypeInv
  BY InitType
<1>2. TypeInv /\ [Next]_vars => TypeInv'
  BY NextType
<1>3. TypeInv => TypeOK
  BY DEF TypeInv
<1> QED
  BY <1>1, <1>2, <1>3, PTL DEF Spec

(***************************************************************************)
(* One ledger, one cycle at a time                                         *)
(***************************************************************************)

\* An actor has one order of a symbol to send; a second tranche may come
\* before a sell.
Unique ==
  \A a \in Actors :
    /\ \A i, k \in plan[a] : i.sym = k.sym => i = k \/ i.kind = "dca" \/ k.kind = "dca"
    /\ job[a] # None => \A i \in plan[a] :
         i.sym = job[a].sym => job[a].kind = "dca" /\ i.kind # "dca"

\* An order is sent from an entry that the ledger still has.
FreshFor(a, s, kind) ==
  /\ kind \in {"dca", "partial", "full"} => snap[a][s] = book[s]
  /\ kind = "partial" => ~PartialDone(book[s])

\* Nothing changes the ledger behind the back of an actor in its process.
Fresh ==
  ~Apart =>
    /\ pc["daemon"] \in {"reconcile", "decide"} => \A s \in Symbols : snap["daemon"][s] = book[s]
    /\ \A a \in Actors :
         /\ \A i \in plan[a] : FreshFor(a, i.sym, i.kind)
         /\ job[a] # None => FreshFor(a, job[a].sym, job[a].kind)

\* A symbol without a known working order still has none, and its balance is
\* the one that was read.
ReadsOk ==
  ~Apart /\ openKnown /\ pc["daemon"] \in {"balance", "sync"} =>
    \A s \in Symbols \ pending :
      ~Working(s) /\ (pc["daemon"] = "sync" => heldSnap[s] = shares[s])

OneInv == Unique /\ Fresh /\ ReadsOk

\* In one process at most one actor has something to send, and none while
\* the daemon reads.
LEMMA Quiet ==
  ASSUME TypeInv, ~Apart, pc["daemon"] \notin {"exits", "entries", "carrying"}
  PROVE  /\ pc["trader"] = "idle"
         /\ \A a \in Actors : plan[a] = {} /\ job[a] = None
<1>1. pc["trader"] = "idle"
  BY DEF TypeInv, PlaceOk
<1>2. KindsAt("trader", pc["trader"]) = {} /\ KindsAt("daemon", pc["daemon"]) = {}
  BY <1>1 DEF KindsAt
<1> QED
  BY <1>1, <1>2, NoWork DEF Actors

LEMMA OneActor ==
  ASSUME TypeInv, ~Apart, NEW a \in Actors, NEW b \in Actors \ {a}, ~Done(a)
  PROVE  plan[b] = {} /\ job[b] = None
<1>1. CASE a = "trader"
  <2>1. pc["trader"] # "idle"
    BY <1>1, NoWork DEF Done, KindsAt
  <2> QED
    BY <1>1, <2>1 DEF TypeInv, PlaceOk, Done, Actors
<1>2. CASE a = "daemon"
  <2>1. pc["trader"] = "idle"
    BY <1>2 DEF TypeInv, PlaceOk
  <2>2. b = "trader"
    BY <1>2 DEF Actors
  <2> QED
    BY <2>1, <2>2, NoWork DEF KindsAt
<1> QED
  BY <1>1, <1>2 DEF Actors

\* Who buys: the trader, or the daemon where only zone strategies buy.
LEMMA Buyer ==
  ASSUME TypeInv, NEW a \in Actors,
         (\E i \in plan[a] : i.kind \in Buys) \/ (job[a] # None /\ job[a].kind \in Buys)
  PROVE  a = IF Zone THEN "daemon" ELSE "trader"
<1>1. PICK k \in Buys : k \in KindsAt(a, pc[a])
  BY DEF TypeInv, WorkOk, ItemOk, JobOk
<1>2. a = "trader" => pc["trader"] # "idle"
  BY <1>1 DEF KindsAt, Buys
<1>3. a = "daemon" => Zone
  <2>1. SUFFICES ASSUME a = "daemon" PROVE Zone
    OBVIOUS
  <2>2. \/ pc["daemon"] = "entries"
        \/ pc["daemon"] = "exits" /\ k \in {"partial", "full"} \cup (IF Zone THEN {"dca"} ELSE {})
    BY <1>1, <2>1 DEF KindsAt, Buys
  <2> QED
    BY <2>2 DEF TypeInv, PlaceOk, Buys
<1> QED
  BY <1>2, <1>3 DEF TypeInv, PlaceOk, Actors

\* What the planning steps plan.
LEMMA TraderLoadsShape ==
  ASSUME TypeInv, TraderLoads
  PROVE  \E new \in SUBSET Item :
           /\ plan' = [plan EXCEPT !["trader"] = new] /\ plan["trader"] = {} /\ job["trader"] = None
           /\ UNCHANGED <<mode, faults, broker, ledgers, job, reads, history>>
           /\ pc'["daemon"] = pc["daemon"] /\ snap'["daemon"] = snap["daemon"]
           /\ \A i, k \in new : i.sym = k.sym => i = k
           /\ \A i \in new : /\ i.kind \in {"partial", "full"}
                             /\ snap'["trader"][i.sym] = book[i.sym] /\ HasEntry(i.sym)
                             /\ i.kind = "partial" => ~book[i.sym].partial
<1>1. /\ pc["trader"] = "idle" /\ Go("trader", "exits")
      /\ UNCHANGED <<mode, faults, broker, ledgers, job, reads, history>>
  BY DEF TraderLoads
<1>2. PICK signal \in [Entries -> {"hold", "partial", "full"}] :
        /\ \A s \in Entries : signal[s] = "partial" =>
             ~book[s].partial /\ GapPart(book[s].total) \in 1..book[s].total - 1
        /\ LET sold == {s \in Entries : signal[s] # "hold"} IN
             /\ plan' = [plan EXCEPT !["trader"] = {[sym |-> s, kind |-> signal[s]] : s \in sold}]
             /\ Keep("trader", book, sold)
  BY DEF TraderLoads
<1> DEFINE sold == {s \in Entries : signal[s] # "hold"}
           new == {[sym |-> s, kind |-> signal[s]] : s \in sold}
<1>3. \A s \in sold : /\ s \in Symbols /\ signal[s] \in {"partial", "full"} /\ HasEntry(s)
                      /\ signal[s] = "partial" => ~book[s].partial
  BY <1>2 DEF Entries
<1>4. plan' = [plan EXCEPT !["trader"] = new] /\ Keep("trader", book, sold)
  BY <1>2
<1> HIDE DEF sold
<1>5. new \in SUBSET Item
  <2>1. \A s \in sold : [sym |-> s, kind |-> signal[s]] \in Item
    BY <1>3 DEF Item, Kinds
  <2> QED
    BY <2>1
<1>6. /\ \A i \in new : i.sym \in sold /\ i.kind = signal[i.sym] /\ i = [sym |-> i.sym, kind |-> signal[i.sym]]
  OBVIOUS
<1> HIDE DEF new
<1>7. /\ \A b \in Actors \ {"trader"} : snap'[b] = snap[b]
      /\ \A s \in Symbols : snap'["trader"][s] = IF s \in sold THEN book[s] ELSE None
  BY <1>4, KeepType DEF TypeInv, TypeOK, Actors
<1>8. pc'["daemon"] = pc["daemon"] /\ snap'["daemon"] = snap["daemon"]
  BY <1>1, <1>7 DEF Go, TypeInv, TypeOK, Actors
<1>9. plan["trader"] = {} /\ job["trader"] = None
  BY <1>1, NoWork DEF KindsAt, Actors
<1>10. \A i, k \in new : i.sym = k.sym => i = k
  BY <1>6
<1>11. \A i \in new : /\ i.kind \in {"partial", "full"}
                      /\ snap'["trader"][i.sym] = book[i.sym] /\ HasEntry(i.sym)
                      /\ i.kind = "partial" => ~book[i.sym].partial
  BY <1>3, <1>6, <1>7
<1> QED
  BY <1>1, <1>4, <1>5, <1>8, <1>9, <1>10, <1>11

LEMMA TraderScansShape ==
  ASSUME TypeInv, TraderScans
  PROVE  \E chosen \in SUBSET (Symbols \ Entries), new \in SUBSET Item :
           /\ \A i \in new : i.kind = "buy" /\ i.sym \in chosen
           /\ \A i, k \in new : i.sym = k.sym => i = k
           /\ chosen # {} => Cardinality(chosen) <= FreeSlots
           /\ plan' = [plan EXCEPT !["trader"] = new] /\ plan["trader"] = {} /\ job["trader"] = None
           /\ UNCHANGED <<mode, faults, broker, ledgers, job, reads, history>>
           /\ ~Zone /\ (Apart \/ pc["daemon"] \notin {"balance", "sync", "reconcile", "decide"})
           /\ pc'["daemon"] = pc["daemon"] \/ pc'["daemon"] = "carry"
           /\ snap'["daemon"] = snap["daemon"]
<1>1. /\ pc["trader"] = "exits" /\ Done("trader") /\ Forget("trader")
      /\ UNCHANGED <<mode, faults, broker, ledgers, job, reads, history>>
  BY DEF TraderScans
<1>2. PICK chosen \in SUBSET (Universe[mode] \ Entries) :
        /\ chosen # {} => Cardinality(chosen) <= FreeSlots
        /\ plan' = [plan EXCEPT !["trader"] = {[sym |-> s, kind |-> "buy"] : s \in chosen}]
        /\ IF chosen = {} THEN TraderRests ELSE Go("trader", "entries")
  BY DEF TraderScans
<1>3. chosen \in SUBSET (Symbols \ Entries)
  BY UniverseAssumption DEF TypeInv, TypeOK
<1> DEFINE new == {[sym |-> s, kind |-> "buy"] : s \in chosen}
<1>4. new \in SUBSET Item
  BY <1>3 DEF Item, Kinds
<1>9. \A i \in new : i.kind = "buy" /\ i.sym \in chosen /\ i = [sym |-> i.sym, kind |-> "buy"]
  OBVIOUS
<1>10. plan' = [plan EXCEPT !["trader"] = new]
  BY <1>2
<1> HIDE DEF new
<1>11. \A i, k \in new : i.sym = k.sym => i = k
  BY <1>9
<1>5. snap'["daemon"] = snap["daemon"]
  BY <1>1, ForgetType DEF TypeInv, Actors
<1>6. pc'["daemon"] = pc["daemon"] \/ pc'["daemon"] = "carry"
  BY <1>2 DEF TraderRests, Go, TypeInv, TypeOK, Actors
<1>7. ~Zone /\ (Apart \/ pc["daemon"] \notin {"balance", "sync", "reconcile", "decide"})
  BY <1>1 DEF TypeInv, PlaceOk
<1>8. plan["trader"] = {} /\ job["trader"] = None
  BY <1>1 DEF Done
<1> QED
  <2> WITNESS chosen \in SUBSET (Symbols \ Entries), new \in SUBSET Item
  <2> QED
    BY <1>1, <1>2, <1>5, <1>6, <1>7, <1>8, <1>9, <1>10, <1>11

LEMMA DecideShape ==
  ASSUME TypeInv, Decide
  PROVE  \E new \in SUBSET Item :
           /\ plan' = [plan EXCEPT !["daemon"] = new] /\ plan["daemon"] = {} /\ job["daemon"] = None
           /\ UNCHANGED <<mode, faults, broker, ledgers, job, history>>
           /\ pc["daemon"] = "decide" /\ pc'["daemon"] = "exits" /\ snap'["trader"] = snap["trader"]
           /\ \A i, k \in new : i.sym = k.sym => i = k \/ i.kind = "dca" \/ k.kind = "dca"
           /\ \A i \in new : /\ i.kind \in {"dca", "partial", "full"}
                             /\ snap'["daemon"][i.sym] = book[i.sym]
                             /\ i.kind = "partial" => ~PartialDone(snap["daemon"][i.sym])
                             /\ i.kind = "dca" => book[i.sym] # None /\ book[i.sym].rest
<1>1. /\ pc["daemon"] = "decide" /\ Go("daemon", "exits")
      /\ UNCHANGED <<mode, faults, broker, ledgers, job, history>>
  BY DEF Decide
<1> DEFINE held == {s \in Symbols : heldSnap[s] > 0}
<1>2. PICK signal \in [held -> {"hold", "partial", "full"}],
           fallen \in SUBSET {s \in held : HasEntry(s) /\ book[s].rest} :
        /\ \A s \in held : signal[s] = "partial" => ~PartialDone(snap["daemon"][s])
        /\ LET sold == {s \in held \ pendingSell : signal[s] # "hold"} IN
             /\ plan' = [plan EXCEPT !["daemon"] =
                           {[sym |-> s, kind |-> signal[s]] : s \in sold}
                             \cup {[sym |-> s, kind |-> "dca"] : s \in fallen}]
             /\ Keep("daemon", book, sold \cup fallen)
  BY DEF Decide
<1> DEFINE sold == {s \in held \ pendingSell : signal[s] # "hold"}
           new == {[sym |-> s, kind |-> signal[s]] : s \in sold}
                    \cup {[sym |-> s, kind |-> "dca"] : s \in fallen}
<1>3. plan' = [plan EXCEPT !["daemon"] = new] /\ Keep("daemon", book, sold \cup fallen)
  BY <1>2
<1>4. /\ \A s \in sold : /\ s \in Symbols /\ signal[s] \in {"partial", "full"}
                         /\ signal[s] = "partial" => ~PartialDone(snap["daemon"][s])
      /\ \A s \in fallen : s \in Symbols /\ book[s] # None /\ book[s].rest
  BY <1>2 DEF HasEntry
<1> HIDE DEF sold, held
<1>5. new \in SUBSET Item
  <2>1. \A s \in sold : [sym |-> s, kind |-> signal[s]] \in Item
    BY <1>4 DEF Item, Kinds
  <2>2. \A s \in fallen : [sym |-> s, kind |-> "dca"] \in Item
    BY <1>4 DEF Item, Kinds
  <2> QED
    BY <2>1, <2>2
<1>6. \A i \in new : \/ i.sym \in sold /\ i = [sym |-> i.sym, kind |-> signal[i.sym]] /\ i.kind = signal[i.sym]
                     \/ i.sym \in fallen /\ i.kind = "dca"
  OBVIOUS
<1> HIDE DEF new
<1>7. /\ \A b \in Actors \ {"daemon"} : snap'[b] = snap[b]
      /\ \A s \in Symbols : snap'["daemon"][s] = IF s \in sold \cup fallen THEN book[s] ELSE None
  BY <1>3, KeepType DEF TypeInv, TypeOK, Actors
<1>8. pc'["daemon"] = "exits" /\ snap'["trader"] = snap["trader"]
  BY <1>1, <1>7 DEF Go, TypeInv, TypeOK, Actors
<1>9. plan["daemon"] = {} /\ job["daemon"] = None
  BY <1>1, NoWork DEF KindsAt, Actors
<1>10. \A i, k \in new : i.sym = k.sym => i = k \/ i.kind = "dca" \/ k.kind = "dca"
  BY <1>6
<1>11. \A i \in new : /\ i.kind \in {"dca", "partial", "full"}
                      /\ snap'["daemon"][i.sym] = book[i.sym]
                      /\ i.kind = "partial" => ~PartialDone(snap["daemon"][i.sym])
                      /\ i.kind = "dca" => book[i.sym] # None /\ book[i.sym].rest
  BY <1>4, <1>6, <1>7
<1> QED
  BY <1>1, <1>3, <1>5, <1>8, <1>9, <1>10, <1>11

LEMMA LaterShape ==
  ASSUME TypeInv, DaemonScans \/ LimitCarry \/ DaemonRests
  PROVE  \E new \in SUBSET Item :
           /\ plan' = [plan EXCEPT !["daemon"] = new] /\ plan["daemon"] = {} /\ job["daemon"] = None
           /\ UNCHANGED <<mode, faults, broker, ledgers, job, history>>
           /\ pc'["daemon"] \in {"entries", "carrying", "idle"} /\ snap'["trader"] = snap["trader"]
           /\ \A i, k \in new : i.sym = k.sym => i = k
           /\ \A i \in new : /\ i.kind \in {"buy", "carry"}
                             /\ i.kind = "buy" => /\ Zone /\ ~HasEntry(i.sym) /\ day[i.sym] = "free"
                                                  /\ i.sym \in Universe[mode]
<1>1. /\ UNCHANGED <<mode, faults, broker, ledgers, job, history>>
      /\ Forget("daemon") /\ plan["daemon"] = {} /\ job["daemon"] = None
  BY DEF DaemonScans, LimitCarry, DaemonRests, Done
<1>2. snap'["trader"] = snap["trader"]
  BY <1>1, ForgetType DEF TypeInv, Actors
<1>3. pc'["daemon"] \in {"entries", "carrying", "idle"}
  BY DEF DaemonScans, LimitCarry, DaemonRests, Go, TypeInv, TypeOK, Actors
<1>4. PICK kind \in {"buy", "carry"}, chosen \in SUBSET Symbols :
        /\ plan' = [plan EXCEPT !["daemon"] = {[sym |-> s, kind |-> kind] : s \in chosen}]
        /\ kind = "buy" => /\ Zone
                           /\ \A s \in chosen : ~HasEntry(s) /\ day[s] = "free" /\ s \in Universe[mode]
  <2>1. CASE DaemonScans
    <3>1. PICK chosen \in SUBSET {s \in Universe[mode] \ Entries : shares[s] = 0 /\ day[s] = "free"} :
            plan' = [plan EXCEPT !["daemon"] = {[sym |-> s, kind |-> "buy"] : s \in chosen}]
      BY <2>1 DEF DaemonScans
    <3>2. /\ chosen \in SUBSET Symbols
          /\ \A s \in chosen : ~HasEntry(s) /\ day[s] = "free" /\ s \in Universe[mode]
      BY UniverseAssumption DEF TypeInv, TypeOK, Entries
    <3> QED
      BY <2>1, <3>1, <3>2 DEF DaemonScans
  <2>2. CASE LimitCarry
    BY <2>2 DEF LimitCarry, Entries
  <2>3. CASE DaemonRests
    <3>1. plan' = [plan EXCEPT !["daemon"] = {}]
      BY <1>1, <2>3 DEF DaemonRests, TypeInv, TypeOK, Actors
    <3>2. {[sym |-> s, kind |-> "carry"] : s \in {}} = {}
      OBVIOUS
    <3> QED
      BY <3>1, <3>2
  <2> QED
    BY <2>1, <2>2, <2>3
<1> DEFINE new == {[sym |-> s, kind |-> kind] : s \in chosen}
<1>5. new \in SUBSET Item
  BY DEF Item, Kinds
<1>6. \A i \in new : i.sym \in chosen /\ i.kind = kind /\ i = [sym |-> i.sym, kind |-> kind]
  OBVIOUS
<1>7. plan' = [plan EXCEPT !["daemon"] = new]
  BY <1>4
<1> HIDE DEF new
<1>8. \A i, k \in new : i.sym = k.sym => i = k
  BY <1>6
<1>9. \A i \in new : /\ i.kind \in {"buy", "carry"}
                     /\ i.kind = "buy" => /\ Zone /\ ~HasEntry(i.sym) /\ day[i.sym] = "free"
                                          /\ i.sym \in Universe[mode]
  BY <1>4, <1>6
<1> QED
  BY <1>1, <1>2, <1>3, <1>5, <1>7, <1>8, <1>9

LEMMA FillSyncShape ==
  ASSUME TypeInv, FillSync
  PROVE  /\ UNCHANGED <<mode, faults, broker, day, plan, job, reads, history>>
         /\ pc["daemon"] = "reconcile" /\ pc'["daemon"] = "decide" /\ snap'["trader"] = snap["trader"]
         /\ \A s \in Symbols :
              \/ book'[s] = book[s]
              \/ snap["daemon"][s] # None /\ book'[s] = Reconciled(s)
         /\ (\A s \in Symbols : snap["daemon"][s] = book[s]) =>
              \A s \in Symbols : snap'["daemon"][s] = book'[s]
<1>1. /\ UNCHANGED <<mode, faults, broker, day, plan, job, reads, history>>
      /\ pc["daemon"] = "reconcile" /\ Go("daemon", "decide")
  BY DEF FillSync
<1>2. pc'["daemon"] = "decide"
  BY <1>1 DEF Go, TypeInv, TypeOK, Actors
<1> DEFINE known == {s \in Symbols : heldSnap[s] > 0 /\ snap["daemon"][s] # None}
           mended == {s \in known : Reconciled(s) # snap["daemon"][s]}
<1>3. PICK dirty \in SUBSET known :
        book' = [s \in Symbols |-> IF s \in mended \cup dirty THEN Reconciled(s) ELSE book[s]]
  BY DEF FillSync
<1>4. snap' = [snap EXCEPT !["daemon"] =
                [s \in Symbols |-> IF s \in known THEN Reconciled(s) ELSE snap["daemon"][s]]]
  BY DEF FillSync, TypeInv, TypeOK, Actors
<1>5. \A s \in Symbols :
        snap'["daemon"][s] = IF s \in known THEN Reconciled(s) ELSE snap["daemon"][s]
  BY <1>4 DEF TypeInv, TypeOK, Actors
<1>6. snap'["trader"] = snap["trader"]
  BY <1>4 DEF TypeInv, TypeOK, Actors
<1>7. \A s \in Symbols : \/ book'[s] = book[s]
                         \/ snap["daemon"][s] # None /\ book'[s] = Reconciled(s)
  BY <1>3
<1>8. ASSUME \A s \in Symbols : snap["daemon"][s] = book[s], NEW s \in Symbols
      PROVE  snap'["daemon"][s] = book'[s]
  <2>1. CASE s \in mended \cup dirty
    BY <1>3, <1>5, <2>1
  <2>2. CASE s \notin mended \cup dirty
    <3>1. s \in known => Reconciled(s) = snap["daemon"][s]
      BY <2>2
    <3>2. book'[s] = book[s]
      BY <1>3, <2>2
    <3> QED
      BY <1>5, <1>8, <3>1, <3>2
  <2> QED
    BY <2>1, <2>2
<1> QED
  BY <1>1, <1>2, <1>6, <1>7, <1>8

\* Reconciling changes an amount and nothing else.
LEMMA ReconciledKeeps ==
  ASSUME TypeInv, NEW s \in Symbols, snap["daemon"][s] # None
  PROVE  /\ Reconciled(s) # None
         /\ (Reconciled(s).partial <=> snap["daemon"][s].partial)
         /\ (Reconciled(s).rest <=> snap["daemon"][s].rest)
<1>1. snap["daemon"][s] \in Entry /\ Reconciled(s) # None
  BY ReconciledType DEF TypeInv, TypeOK, Actors
<1>2. Reconciled(s) \in {snap["daemon"][s],
                         [snap["daemon"][s] EXCEPT !.qty = heldSnap[s], !.total = heldSnap[s]]}
  BY DEF Reconciled
<1> QED
  BY <1>1, <1>2 DEF Entry

LEMMA NextCases ==
  ASSUME [Next]_vars
  PROVE  \/ UNCHANGED vars \/ BrokerStep
         \/ TraderLoads \/ TraderScans \/ TraderEnds
         \/ ReadOpenOrders \/ ReadBalance \/ SyncPositions \/ LoadPositions \/ FillSync
         \/ Decide
         \/ DaemonScans \/ LimitCarry \/ DaemonRests
         \/ \E a \in Actors : \/ \E i \in plan[a] : Skip(a, i)
                              \/ \E i \in plan[a] : Begin(a, i)
                              \/ SendAccepted(a) \/ SendRefused(a) \/ SendLost(a)
                              \/ Record(a) \/ Crash(a)
BY OrderStepCases DEF Next, TraderStep, DaemonStep

LEMMA ModeKept ==
  ASSUME [Next]_vars
  PROVE  mode' = mode
<1>1. CASE BrokerStep
  BY <1>1 DEF BrokerStep, FillBuy, FillSell, Cancel
<1>2. CASE UNCHANGED vars \/ TraderStep \/ DaemonStep
  BY <1>2 DEF vars, TraderStep, TraderLoads, TraderScans, TraderEnds, DaemonStep, ReadOpenOrders,
     ReadBalance, SyncPositions, LoadPositions, FillSync, Decide, DaemonScans, LimitCarry, DaemonRests
<1>3. ASSUME NEW a \in Actors, OrderStep(a) \/ Crash(a) PROVE UNCHANGED mode
  BY <1>3 DEF OrderStep, Skip, Begin, SendAccepted, SendRefused, SendLost, Record, Crash
<1> QED
  BY <1>1, <1>2, <1>3 DEF Next

\* An answer or a further attempt leaves symbol and kind of a job as they are.
LEMMA SentJob ==
  ASSUME TypeInv, NEW a \in Actors, SendAccepted(a) \/ SendRefused(a) \/ SendLost(a)
  PROVE  /\ Unanswered(a) /\ job[a] \in Job /\ job[a].sym \in Symbols /\ JobOk(a)
         /\ \A b \in Actors \ {a} : job'[b] = job[b]
         /\ job'[a] # None => job'[a].sym = job[a].sym /\ job'[a].kind = job[a].kind
         /\ SendAccepted(a) => job'[a] # None /\ job'[a].answered
         /\ (SendRefused(a) \/ SendLost(a)) /\ job'[a] # None => ~job'[a].answered
         /\ UNCHANGED <<mode, shares, book, pc, snap, plan, reads>>
<1>1. Unanswered(a) /\ UNCHANGED <<mode, shares, book, pc, snap, plan, reads>>
  BY DEF SendAccepted, SendRefused, SendLost, ledgers, broker
<1>2. job[a] \in Job /\ job[a].sym \in Symbols /\ JobOk(a)
  BY <1>1 DEF Unanswered, TypeInv, TypeOK, WorkOk, Job
<1>3. CASE SendAccepted(a)
  <2> DEFINE j == [job[a] EXCEPT !.answered = TRUE]
  <2>1. job' = [job EXCEPT ![a] = j]
    BY <1>3 DEF SendAccepted
  <2>2. j \in Job /\ j.sym = job[a].sym /\ j.kind = job[a].kind /\ j.answered
    BY <1>2 DEF Job
  <2> HIDE DEF j
  <2>3. job'[a] = j /\ \A b \in Actors \ {a} : job'[b] = job[b]
    BY <2>1 DEF TypeInv, TypeOK
  <2>4. MaxShares \in Nat /\ \A x \in Job : x # None
    BY Bounds, NoneAssumption, NumbersAssumption DEF Job, Kinds, TypeInv
  <2>5. ~(SendRefused(a) \/ SendLost(a)) \/ ~job'[a].answered \/ job'[a] = None
    <3>1. SUFFICES ASSUME SendRefused(a) \/ SendLost(a) PROVE ~job'[a].answered \/ job'[a] = None
      OBVIOUS
    <3>2. Retry(a)
      BY <3>1 DEF SendRefused, SendLost
    <3> QED
      BY <1>1, <3>2, RetryType
  <2> QED
    BY <1>1, <1>2, <2>2, <2>3, <2>4, <2>5
<1>4. CASE (SendRefused(a) \/ SendLost(a)) /\ ~SendAccepted(a)
  <2>1. Retry(a)
    BY <1>4 DEF SendRefused, SendLost
  <2> QED
    BY <1>1, <1>2, <1>4, <2>1, RetryType
<1> QED
  BY <1>3, <1>4

\* The parts of the invariant that see only the work, when it shrinks.
LEMMA WorkShrinks ==
  ASSUME Unique, \A a \in Actors : plan'[a] \subseteq plan[a],
         \A a \in Actors : job'[a] = None \/ (/\ job[a] # None /\ job'[a].sym = job[a].sym
                                              /\ job'[a].kind = job[a].kind)
  PROVE  Unique'
BY DEF Unique

LEMMA WorkPlanned ==
  ASSUME Unique, TypeOK, NEW a \in Actors, NEW new \in SUBSET Item, plan' = [plan EXCEPT ![a] = new],
         UNCHANGED job, job[a] = None,
         \A i, k \in new : i.sym = k.sym => i = k \/ i.kind = "dca" \/ k.kind = "dca"
  PROVE  Unique'
<1>1. plan'[a] = new /\ \A b \in Actors \ {a} : plan'[b] = plan[b]
  BY DEF TypeOK
<1> QED
  BY <1>1 DEF Unique

LEMMA WorkBegins ==
  ASSUME Unique, TypeInv, NEW a \in Actors, NEW i \in plan[a], Begin(a, i)
  PROVE  Unique'
<1>1. /\ plan' = [plan EXCEPT ![a] = plan[a] \ {i}]
      /\ job' = [job EXCEPT ![a] = [sym |-> i.sym, kind |-> i.kind, qty |-> QtyOf(a, i), tries |-> 0,
                                    answered |-> FALSE]]
      /\ First(a, i)
  BY DEF Begin
<1>2. /\ plan'[a] = plan[a] \ {i} /\ \A b \in Actors \ {a} : plan'[b] = plan[b] /\ job'[b] = job[b]
      /\ job'[a].sym = i.sym /\ job'[a].kind = i.kind
  BY <1>1 DEF TypeInv, TypeOK
<1>3. ASSUME NEW k \in plan[a] \ {i}, k.sym = i.sym
      PROVE  i.kind = "dca" /\ k.kind # "dca"
  <2>1. i.kind = "dca" \/ k.kind = "dca"
    BY <1>3 DEF Unique
  <2>2. i.kind = "dca"
    BY <1>1, <2>1 DEF First
  <2>3. i \in Item /\ k \in Item
    BY DEF TypeInv, TypeOK
  <2>4. k.kind # "dca"
    BY <1>3, <2>2, <2>3 DEF Item
  <2> QED
    BY <2>2, <2>4
<1> QED
  BY <1>2, <1>3 DEF Unique

LEMMA UniqueNext ==
  ASSUME TypeInv, Unique, [Next]_vars
  PROVE  Unique'
<1>1. CASE UNCHANGED <<plan, job>>
  BY <1>1, WorkShrinks
<1>2. CASE UNCHANGED vars \/ BrokerStep \/ TraderEnds \/ ReadOpenOrders \/ ReadBalance
           \/ SyncPositions \/ LoadPositions \/ FillSync
  <2>1. UNCHANGED <<plan, job>>
    <3>1. CASE BrokerStep
      BY <3>1 DEF BrokerStep, FillBuy, FillSell, Cancel, cycles
    <3>2. CASE UNCHANGED vars \/ TraderEnds \/ ReadOpenOrders \/ ReadBalance
               \/ SyncPositions \/ LoadPositions \/ FillSync
      BY <3>2 DEF vars, TraderEnds, ReadOpenOrders, ReadBalance, SyncPositions, LoadPositions,
                  FillSync, cycles
    <3> QED
      BY <1>2, <3>1, <3>2
  <2> QED
    BY <1>1, <2>1
<1>3. CASE TraderLoads
  BY <1>3, TraderLoadsShape, WorkPlanned DEF TypeInv, Actors
<1>4. CASE TraderScans
  <2>1. PICK chosen, new \in SUBSET Item :
          /\ \A i, k \in new : i.sym = k.sym => i = k
          /\ plan' = [plan EXCEPT !["trader"] = new] /\ job["trader"] = None /\ UNCHANGED job
    BY <1>4, TraderScansShape
  <2> QED
    BY <2>1, WorkPlanned DEF TypeInv, Actors
<1>5. CASE Decide
  BY <1>5, DecideShape, WorkPlanned DEF TypeInv, Actors
<1>6. CASE DaemonScans \/ LimitCarry \/ DaemonRests
  BY <1>6, LaterShape, WorkPlanned DEF TypeInv, Actors
<1>7. ASSUME NEW a \in Actors, NEW i \in plan[a], Skip(a, i)
      PROVE  Unique'
  <2>1. UNCHANGED job /\ \A b \in Actors : plan'[b] \subseteq plan[b]
    BY <1>7 DEF Skip, TypeInv, TypeOK
  <2> QED
    BY <2>1, WorkShrinks
<1>8. ASSUME NEW a \in Actors, SendAccepted(a) \/ SendRefused(a) \/ SendLost(a)
      PROVE  Unique'
  BY <1>8, SentJob, WorkShrinks DEF Unanswered
<1>9. ASSUME NEW a \in Actors, Record(a)
      PROVE  Unique'
  <2>1. /\ \A b \in Actors : job'[b] = IF b = a THEN None ELSE job[b]
        /\ \A b \in Actors : plan'[b] \subseteq plan[b]
    BY <1>9, RecordStep
  <2> QED
    BY <2>1, WorkShrinks
<1>10. ASSUME NEW a \in Actors, Crash(a)
       PROVE  Unique'
  <2>1. \A b \in Actors : \/ plan'[b] = {} /\ job'[b] = None
                          \/ plan'[b] = plan[b] /\ job'[b] = job[b]
    BY <1>10, CrashStep
  <2> QED
    BY <2>1, WorkShrinks
<1> QED
  BY <1>2, <1>3, <1>4, <1>5, <1>6, <1>7, <1>8, <1>9, <1>10, NextCases, WorkBegins

LEMMA FreshKept ==
  ASSUME Fresh, UNCHANGED <<mode, book, snap>>,
         pc'["daemon"] \in {"reconcile", "decide"} => pc["daemon"] \in {"reconcile", "decide"},
         \A a \in Actors : plan'[a] \subseteq plan[a],
         \A a \in Actors : job'[a] = None \/ (/\ job[a] # None /\ job'[a].sym = job[a].sym
                                              /\ job'[a].kind = job[a].kind)
  PROVE  Fresh'
BY DEF Fresh, FreshFor, PartialDone, Apart

LEMMA FreshPlanned ==
  ASSUME TypeInv, Fresh, NEW a \in Actors, NEW new \in SUBSET Item, plan' = [plan EXCEPT ![a] = new],
         UNCHANGED <<mode, book, job>>, job[a] = None, \A b \in Actors \ {a} : snap'[b] = snap[b],
         pc'["daemon"] \in {"reconcile", "decide"} => a # "daemon" /\ pc["daemon"] \in {"reconcile", "decide"},
         ~Apart => \A i \in new : FreshFor(a, i.sym, i.kind)'
  PROVE  Fresh'
<1>1. plan'[a] = new /\ \A b \in Actors \ {a} : plan'[b] = plan[b]
  BY DEF TypeInv, TypeOK
<1> QED
  BY <1>1 DEF Fresh, FreshFor, PartialDone, Apart, Actors

LEMMA FreshNext ==
  ASSUME TypeInv, Unique, Fresh, [Next]_vars
  PROVE  Fresh'
<1>1. CASE UNCHANGED vars \/ BrokerStep \/ TraderEnds \/ ReadOpenOrders \/ ReadBalance
  <2>1. /\ UNCHANGED <<mode, book, snap, plan, job>>
        /\ pc'["daemon"] \in {"reconcile", "decide"} => pc["daemon"] \in {"reconcile", "decide"}
    <3>1. CASE BrokerStep
      BY <3>1 DEF BrokerStep, FillBuy, FillSell, Cancel, cycles, ledgers
    <3>2. CASE UNCHANGED vars
      BY <3>2 DEF vars, cycles, ledgers
    <3>3. CASE TraderEnds
      BY <3>3 DEF TraderEnds, ledgers, TraderRests, Actors
    <3>4. CASE ReadOpenOrders \/ ReadBalance
      BY <3>4 DEF ReadOpenOrders, ReadBalance, ledgers, Go, TypeInv, TypeOK, Actors
    <3> QED
      BY <1>1, <3>1, <3>2, <3>3, <3>4
  <2> QED
    BY <2>1, FreshKept
<1>2. CASE SyncPositions \/ LoadPositions
  <2>1. /\ UNCHANGED <<mode, plan, job>> /\ pc["daemon"] \in {"sync", "load"}
        /\ pc'["daemon"] \notin {"reconcile", "decide"}
           \/ \A s \in Symbols : snap'["daemon"][s] = book'[s]
    <3>1. CASE SyncPositions
      BY <3>1 DEF SyncPositions, Go, TypeInv, TypeOK, Actors
    <3>2. CASE LoadPositions
      <4>1. UNCHANGED <<mode, plan, job, book>> /\ pc["daemon"] = "load"
        BY <3>2 DEF LoadPositions, ledgers
      <4>2. Keep("daemon", book, Symbols) \/ Go("daemon", "exits")
        BY <3>2 DEF LoadPositions
      <4>3. CASE Keep("daemon", book, Symbols)
        <5>1. \A s \in Symbols : snap'["daemon"][s] = book[s]
          BY <4>3, KeepType DEF TypeInv, TypeOK, Actors
        <5> QED
          BY <4>1, <5>1
      <4>4. CASE Go("daemon", "exits")
        BY <4>1, <4>4 DEF Go, TypeInv, TypeOK, Actors
      <4> QED
        BY <4>2, <4>3, <4>4
    <3> QED
      BY <1>2, <3>1, <3>2
  <2>2. ~Apart => \A a \in Actors : plan[a] = {} /\ job[a] = None
    BY <2>1, Quiet
  <2> QED
    BY <2>1, <2>2 DEF Fresh, Apart
<1>3. CASE FillSync
  <2>1. /\ UNCHANGED <<mode, plan, job>> /\ pc["daemon"] = "reconcile"
        /\ (\A s \in Symbols : snap["daemon"][s] = book[s]) =>
             \A s \in Symbols : snap'["daemon"][s] = book'[s]
    BY <1>3, FillSyncShape
  <2>2. ~Apart => \A a \in Actors : plan[a] = {} /\ job[a] = None
    BY <2>1, Quiet
  <2> QED
    BY <2>1, <2>2 DEF Fresh, Apart
<1>4. CASE TraderLoads
  <2>1. PICK new \in SUBSET Item :
          /\ plan' = [plan EXCEPT !["trader"] = new] /\ job["trader"] = None
          /\ UNCHANGED <<mode, ledgers, job>>
          /\ pc'["daemon"] = pc["daemon"] /\ snap'["daemon"] = snap["daemon"]
          /\ \A i \in new : /\ i.kind \in {"partial", "full"}
                            /\ snap'["trader"][i.sym] = book[i.sym] /\ HasEntry(i.sym)
                            /\ i.kind = "partial" => ~book[i.sym].partial
    BY <1>4, TraderLoadsShape
  <2>2. UNCHANGED book
    BY <2>1 DEF ledgers
  <2>3. \A i \in new : FreshFor("trader", i.sym, i.kind)'
    BY <2>1, <2>2 DEF FreshFor, PartialDone, HasEntry
  <2> QED
    BY <2>1, <2>2, <2>3, FreshPlanned DEF Actors
<1>5. CASE TraderScans
  <2>1. PICK chosen, new \in SUBSET Item :
          /\ \A i \in new : i.kind = "buy"
          /\ plan' = [plan EXCEPT !["trader"] = new] /\ job["trader"] = None
          /\ UNCHANGED <<mode, ledgers, job>>
          /\ pc'["daemon"] = pc["daemon"] \/ pc'["daemon"] = "carry"
          /\ snap'["daemon"] = snap["daemon"]
    BY <1>5, TraderScansShape
  <2>2. \A i \in new : FreshFor("trader", i.sym, i.kind)'
    BY <2>1 DEF FreshFor
  <2> QED
    BY <2>1, <2>2, FreshPlanned DEF Actors, ledgers
<1>6. CASE Decide
  <2>1. PICK new \in SUBSET Item :
          /\ plan' = [plan EXCEPT !["daemon"] = new] /\ job["daemon"] = None
          /\ UNCHANGED <<mode, ledgers, job>>
          /\ pc["daemon"] = "decide" /\ pc'["daemon"] = "exits" /\ snap'["trader"] = snap["trader"]
          /\ \A i \in new : /\ i.kind \in {"dca", "partial", "full"}
                            /\ snap'["daemon"][i.sym] = book[i.sym]
                            /\ i.kind = "partial" => ~PartialDone(snap["daemon"][i.sym])
    BY <1>6, DecideShape
  <2>2. UNCHANGED book
    BY <2>1 DEF ledgers
  <2>3. \A i \in new : i.sym \in Symbols
    BY DEF Item
  <2>4. ~Apart => \A s \in Symbols : snap["daemon"][s] = book[s]
    BY <2>1 DEF Fresh
  <2>5. ~Apart => \A i \in new : FreshFor("daemon", i.sym, i.kind)'
    BY <2>1, <2>2, <2>3, <2>4 DEF FreshFor, PartialDone
  <2> QED
    BY <2>1, <2>2, <2>5, FreshPlanned DEF Actors
<1>7. CASE DaemonScans \/ LimitCarry \/ DaemonRests
  <2>1. PICK new \in SUBSET Item :
          /\ plan' = [plan EXCEPT !["daemon"] = new] /\ job["daemon"] = None
          /\ UNCHANGED <<mode, ledgers, job>>
          /\ pc'["daemon"] \in {"entries", "carrying", "idle"} /\ snap'["trader"] = snap["trader"]
          /\ \A i \in new : i.kind \in {"buy", "carry"}
    BY <1>7, LaterShape
  <2>2. \A i \in new : FreshFor("daemon", i.sym, i.kind)'
    BY <2>1 DEF FreshFor
  <2> QED
    BY <2>1, <2>2, FreshPlanned DEF Actors, ledgers
<1>8. ASSUME NEW a \in Actors, NEW i \in plan[a], Skip(a, i)
      PROVE  Fresh'
  <2>1. UNCHANGED <<mode, book, snap, pc, job>> /\ \A b \in Actors : plan'[b] \subseteq plan[b]
    BY <1>8 DEF Skip, TypeInv, TypeOK, ledgers
  <2> QED
    BY <2>1, FreshKept
<1>9. ASSUME NEW a \in Actors, NEW i \in plan[a], Begin(a, i)
      PROVE  Fresh'
  <2>1. /\ UNCHANGED <<mode, book, snap, pc>> /\ \A b \in Actors : plan'[b] \subseteq plan[b]
        /\ \A b \in Actors \ {a} : job'[b] = job[b]
        /\ job'[a].sym = i.sym /\ job'[a].kind = i.kind
    BY <1>9 DEF Begin, TypeInv, TypeOK, ledgers
  <2> QED
    BY <2>1 DEF Fresh, FreshFor, PartialDone, Apart
<1>10. ASSUME NEW a \in Actors, SendAccepted(a) \/ SendRefused(a) \/ SendLost(a)
       PROVE  Fresh'
  BY <1>10, SentJob, FreshKept DEF Unanswered
<1>11. ASSUME NEW a \in Actors, Record(a)
       PROVE  Fresh'
  <2>1. /\ job[a] # None
        /\ \A s \in Symbols : book'[s] = IF s = job[a].sym THEN Recorded(a) ELSE book[s]
        /\ \A b \in Actors : job'[b] = IF b = a THEN None ELSE job[b]
        /\ \A b \in Actors : plan'[b] \subseteq plan[b]
        /\ UNCHANGED <<mode, pc, snap>>
    BY <1>11, RecordStep
  <2>2. ASSUME NEW i \in plan'[a]
        PROVE  i.sym # job[a].sym
    <3>1. job[a].kind = "dca" => plan' = [plan EXCEPT ![a] = {k \in plan[a] : k.sym # job[a].sym}]
      BY <1>11 DEF Record
    <3>2. job[a].kind = "dca" => i.sym # job[a].sym
      BY <3>1 DEF TypeInv, TypeOK
    <3> QED
      BY <2>1, <3>2 DEF Unique
  <2>3. ~Apart => \A b \in Actors \ {a} : plan[b] = {} /\ job[b] = None
    BY <2>1, OneActor DEF Done
  <2>4. ~Apart => pc["daemon"] \notin {"reconcile", "decide"}
    BY <2>1, Quiet
  <2>5. ASSUME ~Apart, NEW i \in plan'[a]
        PROVE  FreshFor(a, i.sym, i.kind)'
    <3>1. i \in plan[a] /\ i.sym \in Symbols
      BY <2>1 DEF TypeInv, TypeOK, Item
    <3>2. book'[i.sym] = book[i.sym]
      BY <2>1, <2>2, <3>1
    <3> QED
      BY <2>1, <2>5, <3>1, <3>2 DEF Fresh, FreshFor, PartialDone
  <2> QED
    BY <2>1, <2>3, <2>4, <2>5 DEF Fresh, Apart
<1>12. ASSUME NEW a \in Actors, Crash(a)
       PROVE  Fresh'
  <2>1. ~Apart => \A b \in Actors : pc'[b] = "idle" /\ plan'[b] = {} /\ job'[b] = None
    BY <1>12, CrashStep
  <2>2. UNCHANGED mode
    BY <1>12, CrashStep
  <2> QED
    BY <2>1, <2>2 DEF Fresh, Apart, Actors
<1> QED
  BY <1>1, <1>2, <1>3, <1>4, <1>5, <1>6, <1>7, <1>8, <1>9, <1>10, <1>11, <1>12, NextCases

LEMMA ReadsNext ==
  ASSUME TypeInv, ReadsOk, [Next]_vars
  PROVE  ReadsOk'
<1> SUFFICES ASSUME (~Apart /\ openKnown /\ pc["daemon"] \in {"balance", "sync"})',
                    NEW s \in Symbols, s \notin pending'
             PROVE  (~Working(s) /\ (pc["daemon"] = "sync" => heldSnap[s] = shares[s]))'
  BY DEF ReadsOk
<1>0. UNCHANGED mode /\ ~Apart
  BY ModeKept DEF Apart
<1>1. CASE ReadOpenOrders
  <2>1. UNCHANGED <<shares, buying, selling>>
    BY <1>1 DEF ReadOpenOrders, broker
  <2>2. pc'["daemon"] = "balance"
    BY <1>1 DEF ReadOpenOrders, Go, TypeInv, TypeOK, Actors
  <2>3. pending' = {t \in Symbols : Working(t)}
    <3>1. openKnown' # FALSE
      OBVIOUS
    <3> QED
      BY <1>1, <3>1 DEF ReadOpenOrders
  <2> QED
    BY <2>1, <2>2, <2>3 DEF Working
<1>2. CASE ReadBalance
  <2>1. UNCHANGED <<shares, buying, selling>> /\ pc["daemon"] = "balance"
    BY <1>2 DEF ReadBalance, broker
  <2>2. heldSnap' = shares /\ UNCHANGED <<openKnown, pending>>
    <3>1. ~ForgetReads
      BY ForgetReadsType DEF TypeInv
    <3> QED
      BY <1>2, <3>1 DEF ReadBalance
  <2> QED
    BY <1>0, <2>1, <2>2 DEF ReadsOk, Working
<1>3. CASE SyncPositions \/ LoadPositions \/ FillSync \/ Decide \/ DaemonScans \/ LimitCarry \/ DaemonRests
  <2>1. pc'["daemon"] \notin {"balance", "sync"}
    BY <1>3 DEF SyncPositions, LoadPositions, FillSync, Decide, DaemonScans, LimitCarry, DaemonRests,
       Go, TypeInv, TypeOK, Actors
  <2> QED
    BY <2>1
<1>4. CASE TraderLoads \/ TraderScans \/ TraderEnds
  <2>1. pc["daemon"] = "exits"
    <3>1. CASE TraderLoads
      BY <1>0, <3>1, ModesAssumption DEF TraderLoads, Zone, Apart, TypeInv, TypeOK
    <3>2. CASE TraderScans \/ TraderEnds
      BY <1>0, <3>2 DEF TraderScans, TraderEnds, TypeInv, PlaceOk
    <3> QED
      BY <1>4, <3>1, <3>2
  <2>2. pc'["daemon"] \in {"exits", "carry"}
    BY <1>4, <2>1 DEF TraderLoads, TraderScans, TraderEnds, Go, TraderRests, TypeInv, TypeOK, Actors
  <2> QED
    BY <2>2
<1>5. CASE BrokerStep
  <2>1. UNCHANGED <<pc, openKnown, pending, heldSnap>>
    BY <1>5 DEF BrokerStep, FillBuy, FillSell, Cancel, cycles, reads
  <2>2. /\ ~Working(s) /\ (pc["daemon"] = "sync" => heldSnap[s] = shares[s])
        /\ buying[s] = 0 /\ selling[s] = 0
    BY <1>0, <2>1 DEF ReadsOk, Working, TypeInv, TypeOK
  <2>3. PICK t \in Symbols : (\E q \in 1..MaxShares : FillBuy(t, q) \/ FillSell(t, q)) \/ Cancel(t)
    BY <1>5 DEF BrokerStep
  <2>4. buying'[s] = 0 /\ selling'[s] = 0 /\ shares'[s] = shares[s]
    <3>1. CASE Cancel(t)
      BY <2>2, <3>1 DEF Cancel, TypeInv, TypeOK
    <3>2. CASE \E q \in 1..MaxShares : FillBuy(t, q) \/ FillSell(t, q)
      <4>1. PICK q \in 1..MaxShares : FillBuy(t, q) \/ FillSell(t, q)
        BY <3>2
      <4>2. t # s
        BY <2>2, <4>1 DEF FillBuy, FillSell
      <4> QED
        BY <2>2, <4>1, <4>2 DEF FillBuy, FillSell, TypeInv, TypeOK
    <3> QED
      BY <2>3, <3>1, <3>2
  <2> QED
    BY <2>1, <2>2, <2>4 DEF Working
<1>6. CASE UNCHANGED vars
  <2>1. UNCHANGED <<pc, openKnown, pending, heldSnap, shares, buying, selling>>
    BY <1>6 DEF vars, cycles, reads, broker
  <2> QED
    BY <1>0, <2>1 DEF ReadsOk, Working
<1>7. ASSUME NEW a \in Actors,
             \/ \E i \in plan[a] : Skip(a, i) \/ Begin(a, i)
             \/ SendAccepted(a) \/ SendRefused(a) \/ SendLost(a) \/ Record(a)
      PROVE  FALSE
  <2>1. ~Done(a) /\ UNCHANGED pc
    BY <1>7 DEF Skip, Begin, SendAccepted, SendRefused, SendLost, Record, Done, Unanswered
  <2> QED
    BY <1>0, <2>1, Quiet DEF Done
<1>8. ASSUME NEW a \in Actors, Crash(a)
      PROVE  FALSE
  <2>1. pc'["daemon"] = "idle"
    BY <1>0, <1>8, CrashStep DEF Actors
  <2> QED
    BY <2>1
<1> QED
  BY <1>1, <1>2, <1>3, <1>4, <1>5, <1>6, <1>7, <1>8, NextCases

LEMMA OneInit ==
  ASSUME Init
  PROVE  OneInv
BY DEF Init, OneInv, Unique, Fresh, ReadsOk, Actors

LEMMA OneNext ==
  ASSUME TypeInv, OneInv, [Next]_vars
  PROVE  OneInv'
BY UniqueNext, FreshNext, ReadsNext DEF OneInv

(***************************************************************************)
(* How a step changes what a symbol will hold                              *)
(***************************************************************************)

LEMMA SymbolTypes ==
  ASSUME TypeOK, NEW s \in Symbols
  PROVE  /\ shares[s] \in Nat /\ buying[s] \in Nat /\ selling[s] \in Nat /\ strays[s] \in Nat
         /\ partials[s] \in Nat /\ faults \in Nat /\ Net(s) \in Int
<1>1. MaxShares \in Nat /\ MaxFaults[mode] \in Nat
  BY Bounds, NumbersAssumption DEF TypeOK
<1>2. shares[s] \in Nat /\ buying[s] \in Nat /\ selling[s] \in Nat /\ faults \in Nat
  BY <1>1 DEF TypeOK
<1> QED
  BY <1>2 DEF TypeOK, Net

\* The exchange: fills change nothing, a cancelled sell becomes a stray.
LEMMA BrokerNet ==
  ASSUME TypeInv, BrokerStep, NEW s \in Symbols
  PROVE  /\ UNCHANGED <<mode, bought, book, day, pc, snap, plan, job, partials>>
         /\ strays[s] <= strays'[s] /\ strays'[s] \in Nat /\ faults <= faults' /\ faults' \in Nat
         /\ strays'[s] = strays[s] => Net(s)' <= Net(s)
         /\ Net(s)' <= Net(s) + Lot * (strays'[s] - strays[s])
<1>1. PICK t \in Symbols : \/ \E q \in 1..MaxShares : FillBuy(t, q) \/ FillSell(t, q)
                           \/ Cancel(t)
  BY DEF BrokerStep
<1>2. /\ shares[s] \in Nat /\ buying[s] \in Nat /\ selling[s] \in Nat /\ strays[s] \in Nat
      /\ faults \in Nat /\ Lot \in Nat
  BY SymbolTypes, NumbersAssumption DEF TypeInv
<1>3. UNCHANGED <<mode, bought, book, day, pc, snap, plan, job, partials>>
  BY <1>1 DEF FillBuy, FillSell, Cancel, ledgers, cycles, history
<1>4. CASE \E q \in 1..MaxShares : FillBuy(t, q) \/ FillSell(t, q)
  <2>1. PICK q \in 1..MaxShares : FillBuy(t, q) \/ FillSell(t, q)
    BY <1>4
  <2>2. q \in Nat
    BY Bounds DEF TypeInv
  <2>3. UNCHANGED <<faults, strays>>
    BY <2>1 DEF FillBuy, FillSell, history
  <2>4. Net(s)' = Net(s)
    <3>1. CASE FillBuy(t, q)
      <4>1. /\ shares'[s] = IF s = t THEN shares[s] + q ELSE shares[s]
            /\ buying'[s] = IF s = t THEN buying[s] - q ELSE buying[s]
            /\ selling'[s] = selling[s]
        BY <3>1 DEF FillBuy, TypeInv, TypeOK
      <4> QED
        BY <1>2, <2>2, <4>1 DEF Net
    <3>2. CASE FillSell(t, q)
      <4>1. /\ shares'[s] = IF s = t THEN shares[s] - q ELSE shares[s]
            /\ selling'[s] = IF s = t THEN selling[s] - q ELSE selling[s]
            /\ buying'[s] = buying[s]
        BY <3>2 DEF FillSell, TypeInv, TypeOK
      <4> QED
        BY <1>2, <2>2, <4>1 DEF Net
    <3> QED
      BY <2>1, <3>1, <3>2
  <2>5. Net(s) \in Int /\ Lot * (strays[s] - strays[s]) = 0
    BY <1>2 DEF Net
  <2> QED
    BY <1>2, <1>3, <2>3, <2>4, <2>5
<1>5. CASE Cancel(t)
  <2>1. /\ buying' = [buying EXCEPT ![t] = 0] /\ selling' = [selling EXCEPT ![t] = 0]
        /\ strays' = [strays EXCEPT ![t] = strays[t] + LotsOf(selling[t])]
        /\ faults' = faults + 1 /\ UNCHANGED shares
    BY <1>5 DEF Cancel, Fail
  <2>2. LotsOf(selling[s]) \in Nat /\ selling[s] <= Lot * LotsOf(selling[s])
    BY <1>2, LotsCover
  <2>3. CASE s = t
    <3>1. /\ buying'[s] = 0 /\ selling'[s] = 0 /\ strays'[s] = strays[s] + LotsOf(selling[s])
          /\ shares'[s] = shares[s]
      BY <2>1, <2>3 DEF TypeInv, TypeOK
    <3>2. strays'[s] - strays[s] = LotsOf(selling[s])
      BY <1>2, <2>2, <3>1
    <3>3. Net(s)' <= Net(s) + selling[s]
      BY <1>2, <3>1 DEF Net
    <3>4. Net(s) \in Int /\ Net(s)' \in Int /\ Lot * LotsOf(selling[s]) \in Int
      BY <1>2, <2>2, <3>1 DEF Net
    <3>5. Net(s)' <= Net(s) + Lot * LotsOf(selling[s])
      BY <1>2, <2>2, <3>3, <3>4
    <3>6. strays'[s] = strays[s] => Net(s)' <= Net(s)
      <4>1. strays'[s] = strays[s] => LotsOf(selling[s]) = 0
        BY <1>2, <2>2, <3>1
      <4>2. Lot * 0 = 0
        BY <1>2
      <4> QED
        BY <3>4, <3>5, <4>1, <4>2
    <3>7. strays[s] <= strays'[s] /\ strays'[s] \in Nat /\ faults <= faults' /\ faults' \in Nat
      BY <1>2, <2>1, <2>2, <3>1
    <3> QED
      BY <1>3, <3>2, <3>5, <3>6, <3>7
  <2>4. CASE s # t
    <3>1. /\ buying'[s] = buying[s] /\ selling'[s] = selling[s] /\ strays'[s] = strays[s]
          /\ shares'[s] = shares[s] /\ faults <= faults' /\ faults' \in Nat
      BY <1>2, <2>1, <2>4 DEF TypeInv, TypeOK
    <3>2. Net(s)' = Net(s) /\ Net(s) \in Int /\ Lot * (strays[s] - strays[s]) = 0
      BY <1>2, <3>1 DEF Net
    <3> QED
      BY <1>2, <1>3, <3>1, <3>2
  <2> QED
    BY <2>3, <2>4
<1> QED
  BY <1>1, <1>4, <1>5

\* A request that reaches the broker.
LEMMA AcceptNet ==
  ASSUME TypeInv, NEW a \in Actors, Unanswered(a), Accept(job[a]), UNCHANGED shares, NEW s \in Symbols
  PROVE  /\ s # job[a].sym => Net(s)' = Net(s)
         /\ s = job[a].sym /\ job[a].kind \in Buys => Net(s)' = Net(s) + Lot
         /\ job[a].kind \notin Buys => Net(s)' <= Net(s)
<1>1. shares[s] \in Nat /\ buying[s] \in Nat /\ selling[s] \in Nat
  BY SymbolTypes DEF TypeInv
<1>2. job[a].qty \in Nat /\ job[a].sym \in Symbols /\ (job[a].kind \in Buys => job[a].qty = Lot)
  <2>1. job[a] \in Job /\ JobOk(a) /\ MaxShares \in Nat
    BY Bounds DEF Unanswered, TypeInv, TypeOK, WorkOk
  <2> QED
    BY <2>1 DEF Job, JobOk
<1>3. CASE job[a].kind \in Buys
  <2>1. buying' = [buying EXCEPT ![job[a].sym] = @ + Lot] /\ UNCHANGED selling
    BY <1>2, <1>3 DEF Accept
  <2> QED
    BY <1>1, <1>2, <1>3, <2>1, NumbersAssumption DEF Net, TypeInv, TypeOK
<1>4. CASE job[a].kind \notin Buys
  <2>1. selling' = [selling EXCEPT ![job[a].sym] = @ + job[a].qty] /\ UNCHANGED buying
    BY <1>4 DEF Accept
  <2> QED
    BY <1>1, <1>2, <1>4, <2>1 DEF Net, TypeInv, TypeOK
<1> QED
  BY <1>3, <1>4

\* A request without an answer.
LEMMA FailedNet ==
  ASSUME TypeInv, NEW a \in Actors, SendRefused(a) \/ SendLost(a), NEW s \in Symbols
  PROVE  /\ strays[s] <= strays'[s] /\ strays'[s] \in Nat /\ faults <= faults' /\ faults' \in Nat
         /\ strays'[s] = strays[s] => Net(s)' <= Net(s)
         /\ Net(s)' <= Net(s) + Lot * (strays'[s] - strays[s])
         /\ \A t \in Symbols : day[t] = "sold" => day'[t] = "sold"
         /\ \/ UNCHANGED partials
            \/ /\ Counted(job[a]) /\ Accept(job[a]) /\ faults' = faults + 1
<1>1. /\ Net(s) \in Int /\ strays[s] \in Nat /\ Lot \in Nat /\ faults \in Nat
      /\ Unanswered(a) /\ Audited(a) /\ UNCHANGED shares
  BY SymbolTypes, NumbersAssumption DEF TypeInv, SendRefused, SendLost, broker
<1>2. job[a].sym \in Symbols
  BY <1>1 DEF Unanswered, TypeInv, TypeOK, Job
<1>3. \A t \in Symbols : day[t] = "sold" => day'[t] = "sold"
  BY <1>1, AuditedType DEF TypeInv
<1>4. CASE UNCHANGED <<buying, selling, bought, strays, partials>>
  <2>1. Net(s)' = Net(s) /\ strays'[s] = strays[s] /\ Lot * (strays[s] - strays[s]) = 0
    BY <1>1, <1>4 DEF Net
  <2>2. faults' = faults \/ faults' = faults + 1
    BY DEF SendRefused, SendLost, Fail
  <2> QED
    BY <1>1, <1>3, <1>4, <2>1, <2>2
<1>5. CASE /\ Accept(job[a]) /\ Counted(job[a]) /\ faults' = faults + 1
           /\ strays' = [strays EXCEPT ![job[a].sym] = @ + (IF job[a].kind \in Buys THEN 1 ELSE 0)]
  <2>1. strays'[s] = IF s = job[a].sym /\ job[a].kind \in Buys THEN strays[s] + 1 ELSE strays[s]
    BY <1>1, <1>2, <1>5 DEF TypeInv, TypeOK
  <2>2. /\ s # job[a].sym => Net(s)' = Net(s)
        /\ s = job[a].sym /\ job[a].kind \in Buys => Net(s)' = Net(s) + Lot
        /\ job[a].kind \notin Buys => Net(s)' <= Net(s)
    BY <1>1, <1>5, AcceptNet
  <2>3. Lot * 0 = 0 /\ Lot * 1 = Lot
    BY <1>1
  <2>4. CASE s = job[a].sym /\ job[a].kind \in Buys
    <3>1. strays'[s] = strays[s] + 1 /\ strays'[s] - strays[s] = 1
      BY <1>1, <2>1, <2>4
    <3>2. Net(s)' <= Net(s) + Lot * (strays'[s] - strays[s])
      BY <1>1, <2>2, <2>3, <2>4, <3>1
    <3> QED
      BY <1>1, <1>3, <1>5, <3>1, <3>2
  <2>5. CASE ~(s = job[a].sym /\ job[a].kind \in Buys)
    <3>1. strays'[s] = strays[s] /\ strays'[s] - strays[s] = 0 /\ Net(s)' <= Net(s)
      BY <1>1, <2>1, <2>2, <2>5
    <3>2. Net(s)' <= Net(s) + Lot * (strays'[s] - strays[s])
      BY <1>1, <2>3, <3>1
    <3> QED
      BY <1>1, <1>3, <1>5, <3>1, <3>2
  <2> QED
    BY <2>4, <2>5
<1> QED
  BY <1>4, <1>5 DEF SendRefused, SendLost, broker, history, Fail

\* Steps that change neither the account nor the history.
LEMMA PlanningKeeps ==
  ASSUME UNCHANGED vars \/ TraderStep \/ ReadOpenOrders \/ ReadBalance \/ LoadPositions \/ FillSync
         \/ Decide \/ DaemonScans \/ LimitCarry \/ DaemonRests
         \/ \E a \in Actors : \E i \in plan[a] : Skip(a, i) \/ Begin(a, i)
  PROVE  UNCHANGED <<mode, shares, buying, selling, bought, day, strays, partials>>
<1>1. CASE UNCHANGED vars
  BY <1>1 DEF vars, broker, ledgers, history
<1>2. CASE TraderStep
  BY <1>2 DEF TraderStep, TraderLoads, TraderScans, TraderEnds, broker, ledgers, history
<1>3. CASE ReadOpenOrders \/ ReadBalance \/ LoadPositions \/ FillSync \/ Decide
  BY <1>3 DEF ReadOpenOrders, ReadBalance, LoadPositions, FillSync, Decide, broker, ledgers, history
<1>4. CASE DaemonScans \/ LimitCarry \/ DaemonRests
  BY <1>4 DEF DaemonScans, LimitCarry, DaemonRests, broker, ledgers, history
<1>5. CASE \E a \in Actors : \E i \in plan[a] : Skip(a, i) \/ Begin(a, i)
  BY <1>5 DEF Skip, Begin, broker, ledgers, history
<1> QED
  BY <1>1, <1>2, <1>3, <1>4, <1>5

\* The purge, in one process: nothing is held or on its way.
LEMMA PurgedIsGone ==
  ASSUME TypeInv, ReadsOk, SyncPositions, ~Apart, NEW s \in Symbols, book'[s] # book[s]
  PROVE  Net(s) = 0
<1>1. pc["daemon"] = "sync" /\ openKnown /\ heldSnap[s] = 0 /\ s \notin pending
  BY DEF SyncPositions, Purgeable
<1>2. ~Working(s) /\ heldSnap[s] = shares[s]
  BY <1>1 DEF ReadsOk
<1> QED
  BY <1>1, <1>2, SymbolTypes DEF Working, Net, TypeInv

\* How every step changes it: a request that is answered brings a lot, and
\* what comes otherwise is a stray.
LEMMA Flow ==
  ASSUME TypeInv, [Next]_vars, NEW s \in Symbols
  PROVE  /\ UNCHANGED mode /\ strays[s] <= strays'[s] /\ strays'[s] \in Nat
         /\ \/ /\ strays'[s] = strays[s] => Net(s)' <= Net(s)
               /\ Net(s)' <= Net(s) + Lot * (strays'[s] - strays[s])
            \/ \E a \in Actors : /\ SendAccepted(a) /\ job[a].kind \in Buys /\ job[a].sym = s
                                 /\ Net(s)' = Net(s) + Lot /\ strays'[s] = strays[s]
<1>1. Net(s) \in Int /\ strays[s] \in Nat /\ Lot \in Nat /\ Lot * 0 = 0 /\ Lot * 1 = Lot
  BY SymbolTypes, NumbersAssumption DEF TypeInv
<1>2. strays \in [Symbols -> Nat]
  BY DEF TypeInv, TypeOK
<1>3. ASSUME UNCHANGED <<mode, shares, buying, selling>>,
             strays'[s] \in {strays[s], strays[s] + 1}
      PROVE  /\ UNCHANGED mode /\ strays[s] <= strays'[s] /\ strays'[s] \in Nat
             /\ strays'[s] = strays[s] => Net(s)' <= Net(s)
             /\ Net(s)' <= Net(s) + Lot * (strays'[s] - strays[s])
  <2>1. Net(s)' = Net(s)
    BY <1>3 DEF Net
  <2>2. strays'[s] - strays[s] \in {0, 1}
    BY <1>1, <1>3
  <2>3. Lot * (strays'[s] - strays[s]) >= 0
    BY <1>1, <2>2
  <2>4. Lot * (strays'[s] - strays[s]) \in Int
    BY <1>1, <2>2
  <2> QED
    BY <1>1, <1>3, <2>1, <2>3, <2>4
<1>4. CASE \/ UNCHANGED vars \/ TraderStep \/ ReadOpenOrders \/ ReadBalance \/ LoadPositions \/ FillSync
           \/ Decide \/ DaemonScans \/ LimitCarry \/ DaemonRests
           \/ \E a \in Actors : \E i \in plan[a] : Skip(a, i) \/ Begin(a, i)
  BY <1>3, <1>4, PlanningKeeps
<1>5. CASE SyncPositions
  <2>1. UNCHANGED <<mode, shares, buying, selling>>
    BY <1>5 DEF SyncPositions, broker
  <2>2. strays'[s] \in {strays[s], strays[s] + 1}
    BY <1>5 DEF SyncPositions
  <2> QED
    BY <1>3, <2>1, <2>2
<1>6. CASE BrokerStep
  BY <1>6, BrokerNet
<1>7. ASSUME NEW a \in Actors, SendRefused(a) \/ SendLost(a)
      PROVE  /\ UNCHANGED mode /\ strays[s] <= strays'[s] /\ strays'[s] \in Nat
             /\ strays'[s] = strays[s] => Net(s)' <= Net(s)
             /\ Net(s)' <= Net(s) + Lot * (strays'[s] - strays[s])
  BY <1>7, FailedNet, SentJob
<1>8. ASSUME NEW a \in Actors, SendAccepted(a)
      PROVE  /\ UNCHANGED mode /\ strays'[s] = strays[s]
             /\ \/ Net(s)' <= Net(s)
                \/ job[a].kind \in Buys /\ job[a].sym = s /\ Net(s)' = Net(s) + Lot
  <2>1. Unanswered(a) /\ Accept(job[a]) /\ UNCHANGED <<mode, shares, strays>>
    BY <1>8 DEF SendAccepted
  <2> QED
    BY <1>1, <2>1, AcceptNet
<1>9. ASSUME NEW a \in Actors, Record(a)
      PROVE  /\ UNCHANGED mode /\ strays[s] <= strays'[s] /\ strays'[s] \in Nat
             /\ strays'[s] = strays[s] => Net(s)' <= Net(s)
             /\ Net(s)' <= Net(s) + Lot * (strays'[s] - strays[s])
  <2>1. UNCHANGED <<mode, shares, buying, selling>>
    BY <1>9 DEF Record, broker
  <2>2. strays'[s] \in {strays[s], strays[s] + 1}
    BY <1>1, <1>2, <1>9 DEF Record
  <2> QED
    BY <1>3, <2>1, <2>2
<1>10. ASSUME NEW a \in Actors, Crash(a)
       PROVE  /\ UNCHANGED mode /\ strays[s] <= strays'[s] /\ strays'[s] \in Nat
              /\ strays'[s] = strays[s] => Net(s)' <= Net(s)
              /\ Net(s)' <= Net(s) + Lot * (strays'[s] - strays[s])
  <2>1. UNCHANGED <<mode, shares, buying, selling>>
    BY <1>10 DEF Crash, broker
  <2>2. strays'[s] \in {strays[s], strays[s] + 1}
    BY <1>1, <1>10 DEF Crash
  <2> QED
    BY <1>3, <2>1, <2>2
<1>11. CASE \E a \in Actors : SendAccepted(a)
  <2>1. PICK a \in Actors : SendAccepted(a)
    BY <1>11
  <2>2. /\ UNCHANGED mode /\ strays'[s] = strays[s]
        /\ \/ Net(s)' <= Net(s)
           \/ job[a].kind \in Buys /\ job[a].sym = s /\ Net(s)' = Net(s) + Lot
    BY <1>8, <2>1
  <2>3. Net(s)' <= Net(s) => Net(s)' <= Net(s) + Lot * (strays'[s] - strays[s])
    <3>1. strays'[s] - strays[s] = 0
      BY <1>1, <2>2
    <3> QED
      BY <1>1, <3>1
  <2> QED
    BY <1>1, <2>1, <2>2, <2>3
<1> QED
  BY <1>4, <1>5, <1>6, <1>7, <1>9, <1>10, <1>11, NextCases DEF TraderStep

(***************************************************************************)
(* What brings shares has an entry                                         *)
(***************************************************************************)

\* A buy that is answered and not recorded yet.
Bringing(a, s) ==
  job[a] # None /\ job[a].sym = s /\ job[a].answered /\ job[a].kind \in Buys

ExposureOk ==
  ~Apart => \A s \in Symbols : Net(s) > 0 /\ strays[s] = 0 =>
    HasEntry(s) \/ \E a \in Actors : Bringing(a, s)

\* Only its own record and a crash take an answer from an actor.
LEMMA AnswerKept ==
  ASSUME TypeInv, [Next]_vars, NEW x \in Actors, job[x] # None, job[x].answered,
         ~Record(x), \A a \in Actors : ~Crash(a)
  PROVE  job'[x] = job[x]
<1>1. CASE UNCHANGED vars
  BY <1>1 DEF vars, cycles
<1>2. CASE BrokerStep
  BY <1>2 DEF BrokerStep, FillBuy, FillSell, Cancel, cycles
<1>3. CASE TraderLoads \/ TraderScans \/ TraderEnds
  BY <1>3 DEF TraderLoads, TraderScans, TraderEnds
<1>4. CASE ReadOpenOrders \/ ReadBalance \/ SyncPositions \/ LoadPositions \/ FillSync \/ Decide
  BY <1>4 DEF ReadOpenOrders, ReadBalance, SyncPositions, LoadPositions, FillSync, Decide
<1>5. CASE DaemonScans \/ LimitCarry \/ DaemonRests
  BY <1>5 DEF DaemonScans, LimitCarry, DaemonRests
<1>6. ASSUME NEW a \in Actors, NEW i \in plan[a], Skip(a, i) \/ Begin(a, i)
      PROVE  job'[x] = job[x]
  BY <1>6 DEF Skip, Begin, TypeInv, TypeOK
<1>7. ASSUME NEW a \in Actors, SendAccepted(a) \/ SendRefused(a) \/ SendLost(a)
      PROVE  job'[x] = job[x]
  <2>1. a # x
    BY <1>7, SentJob DEF Unanswered
  <2> QED
    BY <1>7, <2>1, SentJob
<1>8. ASSUME NEW a \in Actors, Record(a)
      PROVE  job'[x] = job[x]
  BY <1>8, RecordStep
<1> QED
  BY <1>1, <1>2, <1>3, <1>4, <1>5, <1>6, <1>7, <1>8, NextCases

\* In one process an entry changes when it is purged, brought up to date with
\* the balance, or when an answer is recorded; and only the purge and the
\* record of a complete sell remove it.
LEMMA EntryKept ==
  ASSUME TypeInv, Fresh, [Next]_vars, NEW s \in Symbols
  PROVE  \/ book'[s] = book[s]
         \/ SyncPositions /\ book'[s] = None /\ HasEntry(s)
         \/ /\ FillSync /\ book'[s] # None
            /\ ~Apart => /\ book[s] # None /\ (book'[s].rest <=> book[s].rest)
                         /\ (book'[s].partial <=> book[s].partial)
         \/ \E a \in Actors : Record(a) /\ job[a].sym = s /\ book'[s] = Recorded(a)
<1>1. CASE SyncPositions
  BY <1>1 DEF SyncPositions, Purgeable
<1>2. CASE FillSync
  <2>1. \/ book'[s] = book[s]
        \/ snap["daemon"][s] # None /\ book'[s] = Reconciled(s)
    BY <1>2, FillSyncShape
  <2>2. ~Apart => snap["daemon"][s] = book[s]
    BY <1>2, FillSyncShape DEF Fresh
  <2> QED
    BY <1>2, <2>1, <2>2, ReconciledKeeps
<1>3. ASSUME NEW a \in Actors, Record(a)
      PROVE  book'[s] = IF s = job[a].sym THEN Recorded(a) ELSE book[s]
  BY <1>3, RecordStep
<1>4. CASE \/ UNCHANGED vars \/ BrokerStep \/ TraderLoads \/ TraderScans \/ TraderEnds
           \/ ReadOpenOrders \/ ReadBalance \/ LoadPositions \/ Decide
  BY <1>4 DEF vars, ledgers, BrokerStep, FillBuy, FillSell, Cancel, TraderLoads, TraderScans, TraderEnds,
     ReadOpenOrders, ReadBalance, LoadPositions, Decide
<1>5. CASE DaemonScans \/ LimitCarry \/ DaemonRests
  BY <1>5 DEF DaemonScans, LimitCarry, DaemonRests, ledgers
<1>6. ASSUME NEW a \in Actors, \/ \E i \in plan[a] : Skip(a, i) \/ Begin(a, i)
                               \/ SendAccepted(a) \/ SendRefused(a) \/ SendLost(a) \/ Crash(a)
      PROVE  book'[s] = book[s]
  BY <1>6 DEF Skip, Begin, SendAccepted, SendRefused, SendLost, Crash, ledgers
<1> QED
  BY <1>1, <1>2, <1>3, <1>4, <1>5, <1>6, NextCases

\* The record of a complete sell counts what is still to come as a stray.
LEMMA SoldOut ==
  ASSUME TypeInv, NEW a \in Actors, Record(a), job[a].kind \in {"full", "carry"}
  PROVE  /\ Net(job[a].sym) > 0 => strays'[job[a].sym] = strays[job[a].sym] + 1
         /\ Zone => day'[job[a].sym] = "sold"
<1>1. job[a] # None /\ job[a].answered /\ job[a].sym \in Symbols
  BY RecordStep
<1>2. job[a].kind \notin Buys
  BY DEF Buys
<1> QED
  BY <1>1, <1>2 DEF Record, Audited, TypeInv, TypeOK

LEMMA RecordedKeeps ==
  ASSUME TypeInv, Fresh, ~Apart, NEW a \in Actors, Record(a), HasEntry(job[a].sym),
         job[a].kind \notin {"full", "carry"}
  PROVE  Recorded(a) # None
<1>1. job[a] # None /\ job[a].answered /\ job[a].kind \in Kinds
  BY RecordStep DEF Job
<1>2. job[a].kind = "partial" => snap[a][job[a].sym] = book[job[a].sym]
  BY <1>1 DEF Fresh, FreshFor
<1> QED
  BY <1>1, <1>2, RecordedEntry DEF Kinds, Buys, HasEntry

LEMMA ExposureNext ==
  ASSUME TypeInv, OneInv, ExposureOk, [Next]_vars
  PROVE  ExposureOk'
<1> SUFFICES ASSUME ~Apart', NEW s \in Symbols, Net(s)' > 0, strays'[s] = 0
             PROVE  HasEntry(s)' \/ \E a \in Actors : Bringing(a, s)'
  BY DEF ExposureOk
<1>1. ~Apart /\ strays[s] = 0 /\ strays[s] \in Nat /\ Net(s) \in Int /\ Lot \in Nat
  BY Flow, SymbolTypes, NumbersAssumption DEF Apart, TypeInv
<1>2. CASE \E a \in Actors : SendAccepted(a) /\ job[a].kind \in Buys /\ job[a].sym = s
  BY <1>2, SentJob DEF Bringing
<1>3. CASE Net(s)' <= Net(s)
  <2>1. Net(s) > 0
    <3>1. Net(s)' \in Int
      BY NextType DEF TypeInv, TypeOK, Net
    <3> QED
      BY <1>1, <1>3, <3>1
  <2>2. HasEntry(s) \/ \E a \in Actors : Bringing(a, s)
    BY <1>1, <2>1 DEF ExposureOk
  <2>3. CASE HasEntry(s)
    <3>1. CASE SyncPositions /\ book'[s] = None
      BY <1>1, <2>1, <2>3, <3>1, PurgedIsGone DEF OneInv, HasEntry
    <3>2. CASE \E a \in Actors : Record(a) /\ job[a].sym = s /\ book'[s] = Recorded(a)
      <4>1. PICK a \in Actors : Record(a) /\ job[a].sym = s /\ book'[s] = Recorded(a)
        BY <3>2
      <4>2. job[a].kind \notin {"full", "carry"}
        BY <1>1, <2>1, <4>1, SoldOut
      <4> QED
        BY <1>1, <2>3, <4>1, <4>2, RecordedKeeps DEF OneInv, HasEntry
    <3> QED
      BY <2>3, <3>1, <3>2, EntryKept DEF OneInv, HasEntry
  <2>4. ASSUME NEW a \in Actors, Bringing(a, s)
        PROVE  HasEntry(s)' \/ Bringing(a, s)'
    <3>1. CASE Record(a)
      <4>1. book'[s] = Recorded(a) /\ Recorded(a) # None
        BY <2>4, <3>1, RecordStep, RecordedEntry DEF Bringing
      <4> QED
        BY <4>1 DEF HasEntry
    <3>2. ASSUME NEW b \in Actors, Crash(b)
          PROVE  FALSE
      <4>1. strays'[s] = strays[s] + 1
        BY <1>1, <2>4, <3>2, CrashStep DEF Bringing
      <4> QED
        BY <1>1, <4>1
    <3>3. CASE ~Record(a) /\ \A b \in Actors : ~Crash(b)
      BY <2>4, <3>3, AnswerKept DEF Bringing
    <3> QED
      BY <3>1, <3>2, <3>3
  <2> QED
    BY <2>2, <2>3, <2>4
<1> QED
  BY <1>1, <1>2, <1>3, Flow

\* Inside the daemon, for any symbols, lots, fills, cancels and faults: what
\* the account holds beyond what is being sold has an entry or an answer about
\* to be recorded, unless a lot went astray to a known cause
\* (intraday_buy_daemon.py _sync_positions purges nothing that is pending).
THEOREM ExposureCorrect == Spec => []ExposureHasEntry
<1>1. Init => TypeInv /\ OneInv /\ ExposureOk
  <2> SUFFICES ASSUME Init PROVE TypeInv /\ OneInv /\ ExposureOk
    OBVIOUS
  <2>1. ASSUME NEW s \in Symbols PROVE Net(s) = 0
    BY DEF Init, Net
  <2> QED
    BY <2>1, InitType, OneInit DEF ExposureOk
<1>2. TypeInv /\ OneInv /\ ExposureOk /\ [Next]_vars => (TypeInv /\ OneInv /\ ExposureOk)'
  BY NextType, OneNext, ExposureNext
<1>3. ExposureOk => ExposureHasEntry
  BY DEF ExposureOk, ExposureHasEntry, Bringing
<1> QED
  BY <1>1, <1>2, <1>3, PTL DEF Spec

(***************************************************************************)
(* The slots                                                               *)
(***************************************************************************)

BuyPlanned(s) ==
  \E a \in Actors : \/ \E i \in plan[a] : i.sym = s /\ i.kind = "buy"
                    \/ job[a] # None /\ job[a].sym = s /\ job[a].kind = "buy"

\* The symbols that have an entry or are about to.
Taken == {s \in Symbols : HasEntry(s) \/ BuyPlanned(s)}

SlotsOk == mode = "inside" => Cardinality(Taken) <= MaxPositions

\* Inside the daemon only the trader's scan takes a slot.
LEMMA TakenKept ==
  ASSUME TypeInv, Fresh, [Next]_vars, ~TraderScans, mode = "inside", NEW s \in Symbols,
         HasEntry(s)' \/ BuyPlanned(s)'
  PROVE  HasEntry(s) \/ BuyPlanned(s)
<1>1. ~Zone /\ ~Apart
  BY DEF Zone, Apart
<1>2. CASE HasEntry(s)'
  <2>1. ASSUME NEW a \in Actors, Record(a), job[a].sym = s, book'[s] = Recorded(a), ~HasEntry(s)
        PROVE  BuyPlanned(s)
    <3>1. job[a] # None /\ job[a].answered /\ job[a].kind \in Kinds /\ JobOk(a)
      BY <2>1, RecordStep DEF Job
    <3>2. job[a].kind # "dca"
      BY <1>1, <3>1 DEF JobOk, KindsAt
    <3>3. job[a].kind = "partial" => snap[a][s] = None
      BY <1>1, <2>1, <3>1 DEF Fresh, FreshFor, HasEntry
    <3>4. job[a].kind = "buy"
      BY <1>2, <2>1, <3>1, <3>2, <3>3 DEF Recorded, HasEntry, Kinds
    <3> QED
      BY <2>1, <3>1, <3>4 DEF BuyPlanned
  <2> QED
    BY <1>1, <1>2, <2>1, EntryKept DEF HasEntry
<1>3. CASE BuyPlanned(s)'
  <2>1. ASSUME NEW a \in Actors, NEW new, plan' = [plan EXCEPT ![a] = new], UNCHANGED job,
               \A i \in new : i.kind = "buy" => i \in plan[a]
        PROVE  BuyPlanned(s)
    BY <1>3, <2>1 DEF BuyPlanned, TypeInv, TypeOK
  <2>2. ASSUME \A a \in Actors : plan'[a] \subseteq plan[a],
               \A a \in Actors : job'[a] = None \/ (/\ job[a] # None /\ job'[a].sym = job[a].sym
                                                    /\ job'[a].kind = job[a].kind)
        PROVE  BuyPlanned(s)
    BY <1>3, <2>2 DEF BuyPlanned
  <2>3. CASE TraderLoads \/ Decide
    <3>1. CASE TraderLoads
      BY <2>1, <3>1, TraderLoadsShape DEF Actors
    <3>2. CASE Decide
      BY <2>1, <3>2, DecideShape DEF Actors
    <3> QED
      BY <2>3, <3>1, <3>2
  <2>4. CASE DaemonScans \/ LimitCarry \/ DaemonRests
    BY <1>1, <2>1, <2>4, LaterShape DEF Actors
  <2>5. CASE UNCHANGED vars \/ BrokerStep \/ TraderEnds
    BY <2>2, <2>5 DEF vars, cycles, BrokerStep, FillBuy, FillSell, Cancel, TraderEnds
  <2>6. CASE ReadOpenOrders \/ ReadBalance \/ SyncPositions \/ LoadPositions \/ FillSync
    BY <2>2, <2>6 DEF ReadOpenOrders, ReadBalance, SyncPositions, LoadPositions, FillSync
  <2>7. ASSUME NEW a \in Actors, NEW i \in plan[a], Skip(a, i)
        PROVE  BuyPlanned(s)
    <3>1. plan' = [plan EXCEPT ![a] = plan[a] \ {i}] /\ UNCHANGED job
      BY <2>7 DEF Skip
    <3>2. \A b \in Actors : plan'[b] \subseteq plan[b]
      BY <3>1 DEF TypeInv, TypeOK
    <3> QED
      BY <1>3, <3>1, <3>2 DEF BuyPlanned
  <2>8. ASSUME NEW a \in Actors, NEW i \in plan[a], Begin(a, i)
        PROVE  BuyPlanned(s)
    <3>1. /\ \A b \in Actors : plan'[b] \subseteq plan[b]
          /\ \A b \in Actors \ {a} : job'[b] = job[b]
          /\ job'[a].sym = i.sym /\ job'[a].kind = i.kind
      BY <2>8 DEF Begin, TypeInv, TypeOK
    <3> QED
      BY <1>3, <3>1 DEF BuyPlanned
  <2>9. ASSUME NEW a \in Actors, SendAccepted(a) \/ SendRefused(a) \/ SendLost(a)
        PROVE  BuyPlanned(s)
    <3>1. job[a] # None
      BY <2>9, SentJob DEF Unanswered
    <3> QED
      BY <2>2, <2>9, <3>1, SentJob
  <2>10. ASSUME NEW a \in Actors, Record(a)
         PROVE  BuyPlanned(s)
    <3>1. \A b \in Actors : job'[b] = None \/ job'[b] = job[b]
      BY <2>10, RecordStep
    <3> QED
      BY <2>2, <2>10, <3>1, RecordStep
  <2>11. ASSUME NEW a \in Actors, Crash(a)
         PROVE  BuyPlanned(s)
    BY <1>1, <1>3, <2>11, CrashStep DEF BuyPlanned, Actors
  <2> QED
    BY <2>3, <2>4, <2>5, <2>6, <2>7, <2>8, <2>9, <2>10, <2>11, NextCases
<1> QED
  BY <1>2, <1>3

LEMMA TakenByScan ==
  ASSUME TypeInv, SlotsOk, TraderScans, mode = "inside"
  PROVE  Cardinality(Taken') <= MaxPositions
<1>1. ~Zone
  BY DEF Zone
<1>2. PICK chosen \in SUBSET (Symbols \ Entries), new \in SUBSET Item :
        /\ \A i \in new : i.kind = "buy" /\ i.sym \in chosen
        /\ chosen # {} => Cardinality(chosen) <= FreeSlots
        /\ plan' = [plan EXCEPT !["trader"] = new] /\ job["trader"] = None
        /\ UNCHANGED <<book, job>>
  BY TraderScansShape DEF ledgers
<1>3. /\ \A i \in plan["daemon"] : i.kind # "buy"
      /\ job["daemon"] # None => job["daemon"].kind # "buy"
  BY <1>1, Buyer DEF Actors, Buys
<1>4. /\ plan'["trader"] = new /\ plan'["daemon"] = plan["daemon"]
      /\ job'["trader"] = None /\ job'["daemon"] = job["daemon"]
  BY <1>2 DEF Actors, TypeInv, TypeOK
<1>5. ASSUME NEW s \in Symbols, BuyPlanned(s)' PROVE s \in chosen
  BY <1>2, <1>3, <1>4, <1>5 DEF BuyPlanned, Actors
<1>6. \A s \in Symbols : HasEntry(s)' <=> HasEntry(s)
  BY <1>2 DEF HasEntry
<1>7. Taken' \subseteq Entries \cup chosen
  BY <1>5, <1>6 DEF Taken, Entries
<1>8. IsFiniteSet(Entries) /\ IsFiniteSet(chosen) /\ IsFiniteSet(Entries \cup chosen) /\ IsFiniteSet(Taken)
  BY <1>2, FS_Subset, FS_Union, SymbolsAssumption DEF Entries, Taken
<1>9. Cardinality(Taken') <= Cardinality(Entries \cup chosen)
  BY <1>7, <1>8, FS_Subset
<1>10. /\ Cardinality(Entries) \in Nat /\ Cardinality(chosen) \in Nat /\ Cardinality(Taken) \in Nat
       /\ Cardinality(Entries \cup chosen) \in Nat /\ Cardinality(Taken') \in Nat /\ MaxPositions \in Nat
  BY <1>7, <1>8, FS_CardinalityType, FS_Subset, NumbersAssumption
<1>11. CASE chosen = {}
  <2>1. Entries \cup chosen \subseteq Taken
    BY <1>11 DEF Entries, Taken
  <2>2. Cardinality(Entries \cup chosen) <= Cardinality(Taken)
    BY <1>8, <2>1, FS_Subset
  <2>3. Cardinality(Taken) <= MaxPositions
    BY DEF SlotsOk
  <2> QED
    BY <1>9, <1>10, <2>2, <2>3
<1>12. CASE chosen # {}
  <2>1. Entries \cap chosen = {}
    BY <1>2
  <2>2. Cardinality(Entries \cup chosen) = Cardinality(Entries) + Cardinality(chosen)
    <3>1. Cardinality(Entries \cup chosen)
            = Cardinality(Entries) + Cardinality(chosen) - Cardinality(Entries \cap chosen)
      BY <1>8, FS_Union
    <3>2. Cardinality(Entries \cap chosen) = 0
      BY <2>1, FS_EmptySet
    <3> HIDE DEF Entries
    <3> QED
      BY <1>10, <3>1, <3>2
  <2>3. Cardinality(chosen) <= MaxPositions - Cardinality(Entries)
    BY <1>2, <1>12 DEF FreeSlots
  <2> QED
    BY <1>9, <1>10, <2>2, <2>3
<1> QED
  BY <1>11, <1>12

LEMMA SlotsNext ==
  ASSUME TypeInv, OneInv, SlotsOk, [Next]_vars
  PROVE  SlotsOk'
<1> SUFFICES ASSUME mode' = "inside" PROVE Cardinality(Taken') <= MaxPositions
  BY DEF SlotsOk, Taken
<1>1. mode = "inside"
  BY ModeKept
<1>2. CASE TraderScans
  BY <1>1, <1>2, TakenByScan
<1>3. CASE ~TraderScans
  <2>1. Taken' \subseteq Taken
    BY <1>1, <1>3, TakenKept DEF OneInv, Taken
  <2>2. IsFiniteSet(Taken)
    BY FS_Subset, SymbolsAssumption DEF Taken
  <2>3. /\ Cardinality(Taken') <= Cardinality(Taken) /\ MaxPositions \in Nat
        /\ Cardinality(Taken') \in Nat /\ Cardinality(Taken) \in Nat
    BY <2>1, <2>2, FS_Subset, FS_CardinalityType, NumbersAssumption
  <2> QED
    BY <1>1, <2>3 DEF SlotsOk
<1> QED
  BY <1>2, <1>3

\* Inside the daemon, for any symbols, universes and max_positions: the
\* trader's entries never exceed the slots, whatever is filled, sold, purged
\* or lost meanwhile (supertrend_auto_trader.py:432 reads the ledger again
\* before it chooses).
THEOREM SlotsCorrect == Spec => []SlotsRespected
<1>1. Init => TypeInv /\ OneInv /\ SlotsOk
  <2> SUFFICES ASSUME Init PROVE SlotsOk
    BY InitType, OneInit
  <2>1. Taken = {}
    BY DEF Init, Taken, HasEntry, BuyPlanned, Actors
  <2> QED
    BY <2>1, FS_EmptySet, NumbersAssumption DEF SlotsOk
<1>2. TypeInv /\ OneInv /\ SlotsOk /\ [Next]_vars => (TypeInv /\ OneInv /\ SlotsOk)'
  BY NextType, OneNext, SlotsNext
<1>3. SlotsOk => SlotsRespected
  <2> SUFFICES ASSUME SlotsOk, mode = "inside" PROVE Cardinality(Entries) <= MaxPositions
    BY DEF SlotsRespected
  <2>1. Entries \subseteq Taken /\ IsFiniteSet(Taken)
    BY FS_Subset, SymbolsAssumption DEF Entries, Taken
  <2>2. /\ Cardinality(Entries) <= Cardinality(Taken) /\ MaxPositions \in Nat
        /\ Cardinality(Entries) \in Nat /\ Cardinality(Taken) \in Nat
    BY <2>1, FS_Subset, FS_CardinalityType, NumbersAssumption
  <2> QED
    BY <2>2 DEF SlotsOk
<1> QED
  BY <1>1, <1>2, <1>3, PTL DEF Spec

(***************************************************************************)
(* One partial sell                                                        *)
(***************************************************************************)

\* A position that can still be partially sold.
Whole(s) ==
  /\ HasEntry(s) /\ ~book[s].partial
  /\ \A a \in Actors : ~(job[a] # None /\ job[a].sym = s /\ job[a].kind = "partial" /\ job[a].answered)

PartialOk ==
  ~Apart => \A s \in Symbols : strays[s] = 0 =>
    /\ partials[s] <= faults + 1
    /\ Whole(s) => partials[s] <= faults

\* A partial sell that the broker accepts is the sell of a whole position.
LEMMA AcceptedFromWhole ==
  ASSUME TypeInv, Fresh, ExposureOk, ~Apart, NEW a \in Actors, Unanswered(a), Accept(job[a]),
         job[a].kind = "partial", strays[job[a].sym] = 0
  PROVE  Whole(job[a].sym)
<1> DEFINE s == job[a].sym
<1>1. /\ job[a] # None /\ ~job[a].answered /\ job[a] \in Job /\ JobOk(a) /\ s \in Symbols
      /\ job[a].qty \in Nat /\ job[a].qty >= 1
  BY Bounds DEF Unanswered, TypeInv, TypeOK, WorkOk, JobOk, Job
<1>2. Net(s) > 0
  <2>1. job[a].qty <= shares[s] - selling[s]
    BY DEF Accept, Buys
  <2> QED
    BY <1>1, <2>1, SymbolTypes DEF Net, TypeInv
<1>3. \A b \in Actors \ {a} : job[b] = None
  BY <1>1, OneActor DEF Done
<1>4. \A b \in Actors : ~Bringing(b, s)
  BY <1>1, <1>3 DEF Bringing
<1>5. HasEntry(s)
  BY <1>1, <1>2, <1>4 DEF ExposureOk
<1>6. ~PartialDone(book[s])
  BY <1>1 DEF Fresh, FreshFor
<1> QED
  BY <1>1, <1>3, <1>5, <1>6 DEF Whole, PartialDone, HasEntry

\* A step makes a position whole again only by a buy or a fault.
LEMMA WholeBefore ==
  ASSUME TypeInv, Fresh, [Next]_vars, ~Apart, NEW s \in Symbols, Whole(s)',
         \A a \in Actors : ~Crash(a), \A a \in Actors : ~(Record(a) /\ job[a].sym = s /\ job[a].kind = "buy")
  PROVE  Whole(s)
<1>1. book'[s] # None /\ ~book'[s].partial
  BY DEF Whole, HasEntry
<1>2. ASSUME NEW a \in Actors, job[a] # None, job[a].sym = s, job[a].kind = "partial", job[a].answered
      PROVE  FALSE
  <2>1. Record(a)
    BY <1>2, AnswerKept DEF Whole
  <2>2. book'[s] = Recorded(a) /\ FreshFor(a, s, "partial")
    BY <1>2, <2>1, RecordStep DEF Fresh
  <2>3. snap[a][s] = None => Recorded(a) = book[s] /\ book[s] = None
    BY <1>2, <2>2 DEF Recorded, FreshFor
  <2>4. snap[a][s] # None => Recorded(a).partial
    BY <1>2, RecordedEntry
  <2> QED
    BY <1>1, <2>2, <2>3, <2>4
<1>3. HasEntry(s) /\ ~book[s].partial
  <2>1. ASSUME NEW a \in Actors, Record(a), job[a].sym = s, book'[s] = Recorded(a)
        PROVE  HasEntry(s) /\ ~book[s].partial
    <3>1. job[a] # None /\ job[a].answered /\ JobOk(a) /\ job[a].kind \in Kinds
      BY <2>1, RecordStep DEF Job
    <3>2. job[a].kind \notin {"full", "carry"}
      BY <1>1, <2>1 DEF Recorded
    <3>3. job[a].kind = "dca"
      BY <1>2, <2>1, <3>1, <3>2 DEF Kinds
    <3>4. snap[a][s] # None /\ snap[a][s] = book[s]
      BY <2>1, <3>1, <3>3 DEF JobOk, UsesEntry, Fresh, FreshFor
    <3> QED
      BY <1>1, <2>1, <3>1, <3>3, <3>4, RecordedEntry DEF HasEntry
  <2> QED
    BY <1>1, <2>1, EntryKept DEF HasEntry
<1> QED
  BY <1>2, <1>3 DEF Whole

\* Only an accepted partial sell counts, and only a buy begins anew.
LEMMA PartialsKept ==
  ASSUME TypeInv, [Next]_vars, ~Apart, NEW s \in Symbols
  PROVE  /\ faults <= faults' /\ faults' \in Nat
         /\ \/ partials'[s] = partials[s]
            \/ \E a \in Actors : /\ Unanswered(a) /\ Accept(job[a])
                                 /\ job[a].kind = "partial" /\ job[a].sym = s
                                 /\ partials'[s] = partials[s] + 1
                                 /\ \/ SendAccepted(a)
                                    \/ faults' = faults + 1
            \/ \E a \in Actors : Record(a) /\ partials'[s] = 0
         /\ \A a \in Actors : Crash(a) => faults' = faults + 1
         /\ \A a \in Actors : Record(a) /\ job[a].sym = s /\ job[a].kind = "buy" => partials'[s] = 0
<1>1. faults \in Nat /\ partials \in [Symbols -> Nat]
  BY SymbolTypes DEF TypeInv, TypeOK
<1>2. faults' \in {faults, faults + 1}
  <2>1. CASE UNCHANGED vars \/ BrokerStep
    BY <2>1 DEF vars, BrokerStep, FillBuy, FillSell, Cancel, Fail
  <2>2. CASE TraderLoads \/ TraderScans \/ TraderEnds
    BY <2>2 DEF TraderLoads, TraderScans, TraderEnds
  <2>3. CASE ReadOpenOrders \/ ReadBalance \/ SyncPositions \/ LoadPositions \/ FillSync \/ Decide
    BY <2>3 DEF ReadOpenOrders, ReadBalance, SyncPositions, LoadPositions, FillSync, Decide, Fail
  <2>4. CASE DaemonScans \/ LimitCarry \/ DaemonRests
    BY <2>4 DEF DaemonScans, LimitCarry, DaemonRests
  <2>5. ASSUME NEW a \in Actors, OrderStep(a) \/ Crash(a)
        PROVE  faults' \in {faults, faults + 1}
    BY <2>5 DEF OrderStep, Skip, Begin, SendAccepted, SendRefused, SendLost, Record, Crash, Fail
  <2> QED
    BY <2>1, <2>2, <2>3, <2>4, <2>5 DEF Next, TraderStep, DaemonStep
<1>3. \A a \in Actors : Crash(a) => faults' = faults + 1
  BY DEF Crash, Fail
<1>4. ASSUME NEW a \in Actors, Record(a)
      PROVE  partials'[s] = IF job[a].sym = s /\ job[a].kind = "buy" THEN 0 ELSE partials[s]
  BY <1>1, <1>4 DEF Record
<1>5. ASSUME NEW a \in Actors, SendAccepted(a) \/ (SendLost(a) /\ Counted(job[a]) /\ Accept(job[a]))
      PROVE  \/ partials'[s] = partials[s]
             \/ /\ Unanswered(a) /\ Accept(job[a]) /\ job[a].kind = "partial" /\ job[a].sym = s
                /\ partials'[s] = partials[s] + 1
                /\ SendAccepted(a) \/ faults' = faults + 1
  <2>1. Unanswered(a) /\ job[a] \in Job /\ Counted(job[a]) /\ Accept(job[a])
    BY <1>5, SentJob DEF SendAccepted
  <2>2. SendLost(a) => faults' = faults + 1
    BY DEF SendLost, Fail
  <2> QED
    BY <1>5, <2>1, <2>2, CountedType DEF TypeInv
<1>6. ASSUME NEW a \in Actors, SendRefused(a) \/ SendLost(a),
             ~(SendLost(a) /\ Counted(job[a]) /\ Accept(job[a]))
      PROVE  partials'[s] = partials[s]
  BY <1>6 DEF SendRefused, SendLost, history
<1>7. ASSUME UNCHANGED vars \/ BrokerStep \/ TraderStep \/ DaemonStep
      PROVE  partials'[s] = partials[s]
  <2>1. CASE UNCHANGED vars \/ BrokerStep
    BY <2>1 DEF vars, BrokerStep, FillBuy, FillSell, Cancel, history
  <2>2. CASE TraderStep
    BY <2>2, PlanningKeeps
  <2>3. CASE SyncPositions
    BY <2>3 DEF SyncPositions
  <2>4. CASE DaemonStep /\ ~SyncPositions
    BY <2>4, PlanningKeeps DEF DaemonStep
  <2> QED
    BY <1>7, <2>1, <2>2, <2>3, <2>4
<1>8. ASSUME NEW a \in Actors, Crash(a) \/ \E i \in plan[a] : Skip(a, i) \/ Begin(a, i)
      PROVE  partials'[s] = partials[s]
  BY <1>8, PlanningKeeps DEF Crash
<1> QED
  BY <1>1, <1>2, <1>3, <1>4, <1>5, <1>6, <1>7, <1>8, NextCases DEF TraderStep, DaemonStep

LEMMA PartialNext ==
  ASSUME TypeInv, OneInv, ExposureOk, PartialOk, [Next]_vars
  PROVE  PartialOk'
<1> SUFFICES ASSUME ~Apart', NEW s \in Symbols, strays'[s] = 0
             PROVE  partials'[s] <= faults' + 1 /\ (Whole(s)' => partials'[s] <= faults')
  BY DEF PartialOk
<1>1. /\ ~Apart /\ strays[s] = 0 /\ partials[s] \in Nat /\ faults \in Nat
      /\ faults' \in Nat /\ faults <= faults'
  <2>1. ~Apart
    BY ModeKept DEF Apart
  <2> QED
    BY <2>1, Flow, SymbolTypes, PartialsKept DEF TypeInv
<1>2. partials[s] <= faults + 1 /\ (Whole(s) => partials[s] <= faults)
  BY <1>1 DEF PartialOk
<1>3. CASE partials'[s] = partials[s]
  <2>1. Whole(s)' => Whole(s) \/ faults' = faults + 1 \/ partials'[s] = 0
    BY <1>1, WholeBefore, PartialsKept DEF OneInv
  <2> QED
    BY <1>1, <1>2, <1>3, <2>1
<1>4. ASSUME NEW a \in Actors, Unanswered(a), Accept(job[a]), job[a].kind = "partial", job[a].sym = s,
             partials'[s] = partials[s] + 1, SendAccepted(a) \/ faults' = faults + 1
      PROVE  partials'[s] <= faults' + 1 /\ (Whole(s)' => partials'[s] <= faults')
  <2>1. partials[s] <= faults
    BY <1>1, <1>2, <1>4, AcceptedFromWhole DEF OneInv
  <2>2. SendAccepted(a) => ~Whole(s)'
    BY <1>4, SentJob DEF Whole
  <2> QED
    BY <1>1, <1>4, <2>1, <2>2
<1>5. CASE partials'[s] = 0
  <2>1. \A n \in Nat : 0 <= n /\ 0 <= n + 1
    OBVIOUS
  <2>2. 0 <= faults' /\ 0 <= faults' + 1
    BY <1>1, <2>1
  <2> QED
    BY <1>5, <2>2
<1> QED
  BY <1>1, <1>3, <1>4, <1>5, PartialsKept

\* Inside the daemon, for any symbols, lots and faults: the trader's gap
\* take-profit (supertrend_auto_trader.py _maybe_gap_partial) and the daemon's
\* PARTIAL_TP together sell a part of a position once, and once more for each
\* fault.
THEOREM PartialCorrect == Spec => []PartialOnce
<1>1. Init => TypeInv /\ OneInv /\ ExposureOk /\ PartialOk
  <2> SUFFICES ASSUME Init PROVE ExposureOk /\ PartialOk
    BY InitType, OneInit
  <2>1. ASSUME NEW s \in Symbols PROVE Net(s) = 0
    BY DEF Init, Net
  <2> QED
    BY <2>1 DEF Init, ExposureOk, PartialOk
<1>2. TypeInv /\ OneInv /\ ExposureOk /\ PartialOk /\ [Next]_vars
        => (TypeInv /\ OneInv /\ ExposureOk /\ PartialOk)'
  BY NextType, OneNext, ExposureNext, PartialNext
<1>3. TypeInv /\ PartialOk => PartialOnce
  <2> SUFFICES ASSUME TypeInv, PartialOk, ~Apart, NEW s \in Symbols, strays[s] = 0
               PROVE  partials[s] <= 1 + faults
    BY DEF PartialOnce
  <2> QED
    BY SymbolTypes DEF PartialOk, TypeInv
<1> QED
  BY <1>1, <1>2, <1>3, PTL DEF Spec

(***************************************************************************)
(* Lots of one symbol                                                      *)
(***************************************************************************)

\* The account holds, or will, at most k lots and those that went astray.
Room(s, k) == Net(s) <= Lot * (k + strays[s])

\* The lots that are there before an order is sent.
Before(kind) == IF kind = "buy" THEN 0 ELSE 1

\* Both tranches are bought.
Second(s) ==
  Zone /\ \/ HasEntry(s) /\ ~book[s].rest
          \/ \E a \in Actors : Bringing(a, s) /\ job[a].kind = "dca"

\* Something is bought, or was today.
Begun(s) ==
  \/ HasEntry(s)
  \/ Zone /\ day[s] = "sold"
  \/ \E a \in Actors : Bringing(a, s)

Lots(s) == IF Second(s) THEN 2 ELSE IF Begun(s) THEN 1 ELSE 0

\* An order that still has to be sent finds room for its lot.
OrdersOk ==
  \A a \in Actors :
    /\ \A i \in plan[a] : i.kind \in Buys => Room(i.sym, Before(i.kind))
    /\ job[a] # None /\ job[a].kind \in Buys =>
         Room(job[a].sym, Before(job[a].kind) + (IF job[a].answered THEN 1 ELSE 0))

LotsOk == OrdersOk /\ \A s \in Symbols : Room(s, Lots(s))

LEMMA MoreRoom ==
  ASSUME NEW n \in Int, NEW x \in Nat, NEW k \in Nat, NEW m \in Nat, k <= m, n <= Lot * (k + x)
  PROVE  n <= Lot * (m + x)
<1>1. PICK d \in Nat : m = k + d
  <2>1. m - k \in Nat /\ m = k + (m - k)
    OBVIOUS
  <2> QED
    BY <2>1
<1>2. Lot \in Nat /\ k + x \in Nat /\ m + x = (k + x) + d
  BY <1>1, NumbersAssumption
<1>3. Lot * ((k + x) + d) = Lot * (k + x) + Lot * d /\ Lot * (k + x) \in Nat /\ Lot * d \in Nat
  BY <1>1, <1>2
<1> QED
  BY <1>1, <1>2, <1>3

\* Room survives a step that brings no lot, and shrinks by one otherwise.
LEMMA RoomKept ==
  ASSUME TypeInv, [Next]_vars, NEW s \in Symbols, NEW k \in Nat, Room(s, k)
  PROVE  /\ Room(s, k + 1)'
         /\ \/ Room(s, k)'
            \/ \E a \in Actors : SendAccepted(a) /\ job[a].kind \in Buys /\ job[a].sym = s
<1>1. /\ Net(s) \in Int /\ strays[s] \in Nat /\ Lot \in Nat /\ strays[s] <= strays'[s] /\ strays'[s] \in Nat
  BY SymbolTypes, Flow, NumbersAssumption DEF TypeInv
<1>2. Net(s)' \in Int
  BY NextType DEF TypeInv, TypeOK, Net
<1> DEFINE d == strays'[s] - strays[s]
           y == k + strays[s]
<1>3. d \in Nat /\ y \in Nat /\ k + strays'[s] = y + d /\ (k + 1) + strays'[s] = (y + d) + 1
  BY <1>1
<1>4. Net(s) <= Lot * y
  BY DEF Room
<1>5. /\ Lot * (y + d) = Lot * y + Lot * d /\ Lot * y \in Nat /\ Lot * d \in Nat /\ Lot * 0 = 0
      /\ Lot * ((y + d) + 1) = Lot * (y + d) + Lot
  BY <1>1, <1>3
<1>6. Room(s, k)' <=> Net(s)' <= Lot * (y + d)
  BY <1>3 DEF Room
<1>7. Room(s, k + 1)' <=> Net(s)' <= Lot * ((y + d) + 1)
  BY <1>3 DEF Room
<1>8. CASE Net(s)' <= Net(s) + Lot * d
  <2> HIDE DEF d, y
  <2>1. Net(s)' <= Lot * (y + d)
    BY <1>1, <1>2, <1>4, <1>5, <1>8
  <2>2. Net(s)' <= Lot * ((y + d) + 1)
    BY <1>1, <1>2, <1>5, <2>1
  <2> QED
    BY <1>6, <1>7, <2>1, <2>2
<1>9. ASSUME Net(s)' = Net(s) + Lot, strays'[s] = strays[s]
      PROVE  Room(s, k + 1)'
  <2>1. d = 0
    BY <1>1, <1>9
  <2> HIDE DEF d, y
  <2>2. Lot * ((y + d) + 1) = Lot * y + Lot
    BY <1>5, <2>1, <1>1
  <2>3. Net(s)' <= Lot * ((y + d) + 1)
    BY <1>1, <1>2, <1>4, <1>5, <1>9, <2>2
  <2> QED
    BY <1>7, <2>3
<1> QED
  BY <1>8, <1>9, Flow

\* A stray takes the place of a lot.
LEMMA RoomStray ==
  ASSUME TypeInv, NEW s \in Symbols, NEW k \in Nat, NEW m \in Nat, k <= m + 1, Room(s, k),
         Net(s)' = Net(s), strays'[s] = strays[s] + 1
  PROVE  Room(s, m)'
<1>1. Net(s) \in Int /\ strays[s] \in Nat
  BY SymbolTypes DEF TypeInv
<1>2. Net(s) <= Lot * ((m + 1) + strays[s])
  BY <1>1, MoreRoom DEF Room
<1>3. (m + 1) + strays[s] = m + strays'[s]
  BY <1>1
<1> QED
  BY <1>2, <1>3 DEF Room

\* Who buys works on one order of a symbol, and does not buy twice in a phase.
LEMMA OneBuy ==
  ASSUME TypeInv, Unique, NEW a \in Actors, NEW b \in Actors,
         job[b] # None, job[b].kind \in Buys
  PROVE  /\ job[a] # None /\ job[a].kind \in Buys => a = b
         /\ \A i \in plan[a] : i.kind \in Buys => i.sym # job[b].sym
<1>1. b = IF Zone THEN "daemon" ELSE "trader"
  BY Buyer
<1>2. job[a] # None /\ job[a].kind \in Buys => a = IF Zone THEN "daemon" ELSE "trader"
  BY Buyer
<1>3. ASSUME NEW i \in plan[a], i.kind \in Buys, i.sym = job[b].sym
      PROVE  FALSE
  <2>1. a = IF Zone THEN "daemon" ELSE "trader"
    BY <1>3, Buyer
  <2>2. a = b
    BY <1>1, <2>1
  <2>3. job[a].kind = "dca" /\ i.kind = "buy"
    BY <1>3, <2>2 DEF Unique, Buys
  <2>4. "dca" \in KindsAt(a, pc[a]) /\ "buy" \in KindsAt(a, pc[a])
    BY <2>2, <2>3, <1>3 DEF TypeInv, WorkOk, ItemOk, JobOk
  <2> QED
    BY <2>4 DEF KindsAt
<1> QED
  BY <1>1, <1>2, <1>3

\* A new buy is planned where nothing is bought, a second tranche where one
\* is.
LEMMA PlannedBuy ==
  ASSUME TypeInv, [Next]_vars, NEW a \in Actors, NEW i \in plan'[a], i \notin plan[a], i.kind \in Buys
  PROVE  Lots(i.sym) = Before(i.kind) /\ i.sym \in Symbols
<1>1. i.sym \in Symbols
  BY NextType DEF TypeInv, TypeOK, Item
<1>2. ASSUME NEW b \in Actors, NEW new, plan' = [plan EXCEPT ![b] = new]
      PROVE  a = b /\ i \in new
  BY <1>2 DEF TypeInv, TypeOK
<1>3. ASSUME job[IF Zone THEN "daemon" ELSE "trader"] = None
      PROVE  \A b \in Actors : ~Bringing(b, i.sym)
  BY <1>3, Buyer DEF Bringing
<1>4. CASE TraderLoads
  BY <1>2, <1>4, TraderLoadsShape DEF Actors, Buys
<1>5. CASE TraderScans
  <2>1. i.kind = "buy" /\ ~HasEntry(i.sym) /\ ~Zone /\ job["trader"] = None
    BY <1>1, <1>2, <1>5, TraderScansShape DEF Actors, Entries
  <2> QED
    BY <1>1, <1>3, <2>1 DEF Lots, Second, Begun, Before
<1>6. CASE Decide
  <2>1. i.kind = "dca" /\ book[i.sym] # None /\ book[i.sym].rest /\ job["daemon"] = None
    BY <1>2, <1>6, DecideShape DEF Actors, Buys
  <2>2. Zone
    BY <1>1, <2>1 DEF TypeInv, AmountsOk, EntryOk
  <2> QED
    BY <1>1, <1>3, <2>1, <2>2 DEF Lots, Second, Begun, Before, HasEntry
<1>7. CASE DaemonScans \/ LimitCarry \/ DaemonRests
  <2>1. i.kind = "buy" /\ Zone /\ ~HasEntry(i.sym) /\ day[i.sym] = "free" /\ job["daemon"] = None
    BY <1>2, <1>7, LaterShape DEF Actors, Buys
  <2> QED
    BY <1>1, <1>3, <2>1 DEF Lots, Second, Begun, Before
<1>8. CASE UNCHANGED vars \/ BrokerStep \/ TraderEnds
  BY <1>8 DEF vars, cycles, BrokerStep, FillBuy, FillSell, Cancel, TraderEnds
<1>9. CASE ReadOpenOrders \/ ReadBalance \/ SyncPositions \/ LoadPositions \/ FillSync
  BY <1>9 DEF ReadOpenOrders, ReadBalance, SyncPositions, LoadPositions, FillSync
<1>10. ASSUME NEW b \in Actors, \E k \in plan[b] : Skip(b, k) \/ Begin(b, k)
       PROVE  FALSE
  BY <1>10 DEF Skip, Begin, TypeInv, TypeOK
<1>11. ASSUME NEW b \in Actors, SendAccepted(b) \/ SendRefused(b) \/ SendLost(b)
       PROVE  FALSE
  BY <1>11, SentJob
<1>12. ASSUME NEW b \in Actors, Record(b)
       PROVE  FALSE
  BY <1>12, RecordStep
<1>13. ASSUME NEW b \in Actors, Crash(b)
       PROVE  FALSE
  BY <1>13, CrashStep
<1> QED
  BY <1>4, <1>5, <1>6, <1>7, <1>8, <1>9, <1>10, <1>11, <1>12, <1>13, NextCases

\* An order comes to an actor's hand from its plan and stays what it is.
LEMMA JobCases ==
  ASSUME TypeInv, [Next]_vars, NEW a \in Actors, job'[a] # None, job'[a] # job[a]
  PROVE  \/ \E i \in plan[a] : /\ Begin(a, i) /\ job'[a].sym = i.sym /\ job'[a].kind = i.kind
                               /\ ~job'[a].answered
         \/ SendAccepted(a) \/ SendRefused(a) \/ SendLost(a)
<1>1. CASE UNCHANGED vars \/ BrokerStep \/ TraderLoads \/ TraderScans \/ TraderEnds
  BY <1>1 DEF vars, cycles, BrokerStep, FillBuy, FillSell, Cancel, TraderLoads, TraderScans, TraderEnds
<1>2. CASE ReadOpenOrders \/ ReadBalance \/ SyncPositions \/ LoadPositions \/ FillSync \/ Decide
  BY <1>2 DEF ReadOpenOrders, ReadBalance, SyncPositions, LoadPositions, FillSync, Decide
<1>3. CASE DaemonScans \/ LimitCarry \/ DaemonRests
  BY <1>3 DEF DaemonScans, LimitCarry, DaemonRests
<1>4. ASSUME NEW b \in Actors, NEW i \in plan[b], Skip(b, i)
      PROVE  FALSE
  BY <1>4 DEF Skip
<1>5. ASSUME NEW b \in Actors, NEW i \in plan[b], Begin(b, i)
      PROVE  /\ a = b /\ job'[a].sym = i.sym /\ job'[a].kind = i.kind
             /\ ~job'[a].answered
  BY <1>5 DEF Begin, TypeInv, TypeOK
<1>6. ASSUME NEW b \in Actors, SendAccepted(b) \/ SendRefused(b) \/ SendLost(b)
      PROVE  a = b
  BY <1>6, SentJob
<1>7. ASSUME NEW b \in Actors, Record(b)
      PROVE  FALSE
  BY <1>7, RecordStep
<1>8. ASSUME NEW b \in Actors, Crash(b)
      PROVE  FALSE
  BY <1>8, CrashStep
<1> QED
  BY <1>1, <1>2, <1>3, <1>4, <1>5, <1>6, <1>7, <1>8, NextCases

LEMMA OrdersNext ==
  ASSUME TypeInv, Unique, LotsOk, [Next]_vars
  PROVE  OrdersOk'
<1>1. ASSUME NEW a \in Actors, NEW i \in plan'[a], i.kind \in Buys
      PROVE  Room(i.sym, Before(i.kind))'
  <2>1. i.sym \in Symbols /\ Before(i.kind) \in Nat
    BY <1>1, NextType DEF TypeInv, TypeOK, Item, Before
  <2>2. Room(i.sym, Before(i.kind))
    <3>1. CASE i \in plan[a]
      BY <1>1, <3>1 DEF LotsOk, OrdersOk
    <3>2. CASE i \notin plan[a]
      BY <1>1, <2>1, <3>2, PlannedBuy DEF LotsOk
    <3> QED
      BY <3>1, <3>2
  <2>3. ASSUME NEW b \in Actors, SendAccepted(b), job[b].kind \in Buys, job[b].sym = i.sym
        PROVE  FALSE
    <3>1. job[b] # None /\ i \in plan[a]
      BY <2>3, SentJob DEF Unanswered
    <3> QED
      BY <1>1, <2>3, <3>1, OneBuy
  <2> QED
    BY <2>1, <2>2, <2>3, RoomKept
<1>2. ASSUME NEW a \in Actors, job'[a] # None, job'[a].kind \in Buys, NEW s \in Symbols, s = job'[a].sym,
             NEW k \in Nat, k = Before(job'[a].kind), NEW r \in {0, 1}, r = IF job'[a].answered THEN 1 ELSE 0
      PROVE  Room(s, k + r)'
  <2>1. k + 0 = k /\ k + r \in Nat
    BY <1>2
  <2>2. CASE job'[a] = job[a]
    <3>1. ASSUME NEW b \in Actors, SendAccepted(b), job[b].kind \in Buys, job[b].sym = s
          PROVE  FALSE
      <4>1. job[b] # None /\ ~job[b].answered /\ job'[b].answered
        BY <3>1, SentJob DEF Unanswered
      <4>2. a = b
        BY <1>2, <2>2, <3>1, <4>1, OneBuy
      <4> QED
        BY <2>2, <4>1, <4>2
    <3>2. Room(s, k + r)
      BY <1>2, <2>2 DEF LotsOk, OrdersOk
    <3> QED
      BY <2>1, <3>1, <3>2, RoomKept
  <2>3. CASE \E i \in plan[a] : /\ Begin(a, i) /\ s = i.sym /\ job'[a].kind = i.kind
                                /\ ~job'[a].answered
    <3>1. Room(s, k) /\ UNCHANGED <<shares, buying, selling, strays>> /\ r = 0
      BY <1>2, <2>3, PlanningKeeps DEF LotsOk, OrdersOk
    <3> QED
      BY <2>1, <3>1 DEF Room, Net
  <2>4. CASE SendAccepted(a)
    <3>1. /\ job[a] # None /\ ~job[a].answered /\ r = 1 /\ s = job[a].sym
          /\ job'[a].kind = job[a].kind
      BY <1>2, <2>4, SentJob DEF Unanswered
    <3>2. Room(s, k + 0)
      BY <1>2, <3>1 DEF LotsOk, OrdersOk
    <3>3. Room(s, k + 1)'
      BY <2>1, <3>2, RoomKept
    <3> QED
      BY <3>1, <3>3
  <2>5. CASE (SendRefused(a) \/ SendLost(a)) /\ job'[a] # job[a]
    <3>1. /\ job[a] # None /\ ~job[a].answered /\ ~job'[a].answered /\ r = 0 /\ s = job[a].sym
          /\ job'[a].kind = job[a].kind
      BY <1>2, <2>5, SentJob DEF Unanswered
    <3>2. Room(s, k + 0)
      BY <1>2, <3>1 DEF LotsOk, OrdersOk
    <3>3. \A b \in Actors : ~SendAccepted(b)
      BY <2>5, <3>1, SentJob
    <3> QED
      BY <2>1, <3>1, <3>2, <3>3, RoomKept
  <2> QED
    BY <1>2, <2>2, <2>3, <2>4, <2>5, JobCases
<1>3. ASSUME NEW a \in Actors, job'[a] # None, job'[a].kind \in Buys
      PROVE  /\ job'[a].sym \in Symbols /\ Before(job'[a].kind) \in Nat
             /\ (IF job'[a].answered THEN 1 ELSE 0) \in {0, 1}
  BY <1>3, NextType DEF TypeInv, TypeOK, Job, Before
<1> QED
  BY <1>1, <1>2, <1>3 DEF OrdersOk, Room, Net

\* A sale of the day is forgotten by no step but a new buy.
LEMMA DaySold ==
  ASSUME TypeInv, [Next]_vars, NEW s \in Symbols, day[s] = "sold",
         \A a \in Actors : ~(Record(a) /\ job[a].sym = s /\ job[a].kind = "buy")
  PROVE  day'[s] = "sold"
<1>1. CASE SyncPositions \/ BrokerStep
  BY <1>1 DEF SyncPositions, BrokerStep, FillBuy, FillSell, Cancel, ledgers
<1>2. ASSUME NEW a \in Actors, SendAccepted(a)
      PROVE  day'[s] = "sold"
  BY <1>2 DEF SendAccepted, ledgers
<1>3. ASSUME NEW a \in Actors, SendRefused(a) \/ SendLost(a)
      PROVE  day'[s] = "sold"
  BY <1>3, FailedNet
<1>4. ASSUME NEW a \in Actors, Record(a)
      PROVE  day'[s] = "sold"
  <2>1. CASE Zone /\ job[a].kind = "buy"
    <3>1. day' = [day EXCEPT ![job[a].sym] = "bought"] /\ job[a].sym # s
      BY <1>4, <2>1 DEF Record
    <3> QED
      BY <3>1 DEF TypeInv, TypeOK
  <2>2. CASE ~(Zone /\ job[a].kind = "buy")
    <3>1. Audited(a)
      BY <1>4, <2>2 DEF Record
    <3> QED
      BY <3>1, AuditedType DEF TypeInv
  <2> QED
    BY <2>1, <2>2
<1>5. ASSUME NEW a \in Actors, Crash(a)
      PROVE  day'[s] = "sold"
  BY <1>5, CrashStep
<1> QED
  BY <1>1, <1>2, <1>3, <1>4, <1>5, PlanningKeeps, NextCases DEF TraderStep

LEMMA LotsStay ==
  ASSUME UNCHANGED mode, NEW s \in Symbols, book'[s] = book[s], Zone /\ day[s] = "sold" => day'[s] = "sold",
         \A a \in Actors : Bringing(a, s) => job'[a] = job[a]
  PROVE  Lots(s)' >= Lots(s)
<1>1. Second(s) => Second(s)'
  BY DEF Second, Zone, HasEntry, Bringing
<1>2. Begun(s) => Begun(s)'
  BY DEF Begun, Zone, HasEntry, Bringing
<1> QED
  BY <1>1, <1>2 DEF Lots

LEMMA LotsBounds ==
  ASSUME UNCHANGED mode, NEW s \in Symbols
  PROVE  /\ Lots(s) \in {0, 1, 2} /\ Lots(s)' \in {0, 1, 2}
         /\ ~Zone => Lots(s) <= 1
         /\ Begun(s)' => Lots(s)' >= 1
         /\ Second(s)' => Lots(s)' = 2
BY DEF Lots, Second, Zone

\* An answer that is recorded.
LEMMA LotsRecorded ==
  ASSUME TypeInv, Fresh, [Next]_vars, NEW a \in Actors, Record(a), NEW s \in Symbols, s = job[a].sym
  PROVE  \/ Lots(s)' >= Lots(s)
         \/ Net(s)' <= Net(s) /\ Net(s) <= 0
         \/ Net(s)' = Net(s) /\ strays'[s] = strays[s] + 1 /\ Lots(s)' >= Lots(s) - 1
         \/ job[a].kind = "buy" /\ Lots(s)' >= 1
<1>1. /\ job[a] # None /\ job[a].answered /\ job[a].kind \in Kinds /\ JobOk(a)
      /\ book'[s] = Recorded(a) /\ UNCHANGED <<mode, shares, buying, selling>>
      /\ \A b \in Actors : job'[b] = IF b = a THEN None ELSE job[b]
  BY RecordStep DEF Job, broker
<1>2. Net(s)' = Net(s) /\ Net(s) \in Int
  BY <1>1, SymbolTypes DEF Net, TypeInv
<1>3. /\ Lots(s) \in {0, 1, 2} /\ Lots(s)' \in {0, 1, 2} /\ (~Zone => Lots(s) <= 1)
      /\ (Begun(s)' => Lots(s)' >= 1) /\ (Second(s)' => Lots(s)' = 2) /\ (Zone' <=> Zone)
  BY <1>1, LotsBounds DEF Zone
<1>4. book'[s] # None => Lots(s)' >= 1
  BY <1>3 DEF Begun, HasEntry
<1>5. CASE job[a].kind = "buy"
  BY <1>1, <1>4, <1>5, RecordedEntry DEF Buys
<1>6. CASE job[a].kind = "dca"
  <2>1. Zone
    BY <1>1, <1>6 DEF JobOk, KindsAt
  <2>2. book'[s] # None /\ ~book'[s].rest
    BY <1>1, <1>6, RecordedEntry DEF Buys
  <2>3. Second(s)'
    BY <1>3, <2>1, <2>2 DEF Second, HasEntry
  <2> QED
    BY <1>3, <2>3
<1>7. CASE job[a].kind = "partial" /\ snap[a][s] = None
  <2>1. book'[s] = book[s]
    BY <1>1, <1>7 DEF Recorded
  <2>2. \A b \in Actors : Bringing(b, s) => job'[b] = job[b]
    BY <1>1, <1>7 DEF Bringing, Buys
  <2>3. day[s] = "sold" => day'[s] = "sold"
    <3>1. \A b \in Actors : Record(b) => b = a
      BY <1>1, RecordStep
    <3> QED
      BY <1>7, <3>1, DaySold
  <2> QED
    BY <1>1, <2>1, <2>2, <2>3, LotsStay
<1>8. CASE job[a].kind = "partial" /\ snap[a][s] # None
  <2>1. Recorded(a) # None /\ (Recorded(a).rest <=> snap[a][s].rest)
    BY <1>1, <1>8, RecordedEntry
  <2>2. CASE ~Zone
    BY <1>1, <1>3, <1>4, <2>1, <2>2
  <2>3. CASE Zone
    <3>1. snap[a][s] = book[s]
      BY <1>1, <1>8, <2>3 DEF Fresh, FreshFor, Apart, Zone
    <3>2. Second(s) => Second(s)'
      BY <1>1, <1>3, <1>8, <2>1, <3>1 DEF Second, HasEntry, Bringing, Buys
    <3> QED
      BY <1>1, <1>3, <1>4, <2>1, <3>2 DEF Lots
  <2> QED
    BY <2>2, <2>3
<1>9. CASE job[a].kind \in {"full", "carry"}
  <2>1. Zone => Begun(s)'
    BY <1>3, <1>9, SoldOut DEF Begun
  <2>2. Lots(s)' >= Lots(s) - 1
    BY <1>3, <2>1
  <2>3. Net(s) > 0 => strays'[s] = strays[s] + 1
    BY <1>9, SoldOut
  <2> QED
    BY <1>2, <2>2, <2>3
<1> QED
  BY <1>1, <1>5, <1>6, <1>7, <1>8, <1>9 DEF Kinds

\* How the lots that count change: they grow, or nothing is held, or one goes
\* astray.
LEMMA LotsKept ==
  ASSUME TypeInv, Fresh, ReadsOk, [Next]_vars, NEW s \in Symbols
  PROVE  \/ Lots(s)' >= Lots(s)
         \/ Net(s)' <= Net(s) /\ Net(s) <= 0
         \/ Net(s)' = Net(s) /\ strays'[s] = strays[s] + 1 /\ Lots(s)' >= Lots(s) - 1
         \/ \E a \in Actors : Record(a) /\ job[a].sym = s /\ job[a].kind = "buy" /\ Lots(s)' >= 1
<1>1. UNCHANGED mode
  BY ModeKept
<1>2. /\ Lots(s) \in {0, 1, 2} /\ Lots(s)' \in {0, 1, 2} /\ (~Zone => Lots(s) <= 1)
      /\ (Begun(s)' => Lots(s)' >= 1) /\ (Second(s)' => Lots(s)' = 2) /\ (Zone' <=> Zone)
  BY <1>1, LotsBounds DEF Zone
<1>3. Net(s) \in Int
  BY SymbolTypes DEF TypeInv
<1>4. CASE \E a \in Actors : Record(a) /\ job[a].sym = s
  BY <1>4, LotsRecorded
<1>5. ASSUME NEW a \in Actors, Record(a), job[a].sym # s
      PROVE  Lots(s)' >= Lots(s)
  <2>1. book'[s] = book[s] /\ \A b \in Actors : job'[b] = IF b = a THEN None ELSE job[b]
    BY <1>5, RecordStep
  <2>2. \A b \in Actors : Record(b) => b = a
    BY <1>5, <2>1, RecordStep
  <2>3. day[s] = "sold" => day'[s] = "sold"
    BY <1>5, <2>2, DaySold
  <2> QED
    BY <1>1, <1>5, <2>1, <2>3, LotsStay DEF Bringing
<1>6. ASSUME NEW a \in Actors, Crash(a)
      PROVE  \/ Lots(s)' >= Lots(s)
             \/ Net(s)' = Net(s) /\ strays'[s] = strays[s] + 1 /\ Lots(s)' >= Lots(s) - 1
  <2>0. PICK dead \in SUBSET Actors :
          /\ dead = IF Apart THEN {a} ELSE Actors
          /\ \A b \in Actors \ dead : job'[b] = job[b]
    <3>1. CASE Apart
      <4>1. \A b \in Actors \ {a} : job'[b] = job[b]
        BY <1>6, <3>1, CrashStep
      <4> QED
        BY <3>1, <4>1
    <3>2. CASE ~Apart
      BY <3>2
    <3> QED
      BY <3>1, <3>2
  <2>1. \A b \in dead : Bringing(b, s) => strays'[s] = strays[s] + 1
    BY <1>6, <2>0, CrashStep DEF Bringing
  <2>2. /\ book'[s] = book[s] /\ UNCHANGED <<shares, buying, selling>>
        /\ day[s] = "sold" => day'[s] = "sold"
    BY <1>6, CrashStep DEF broker
  <2>3. CASE \A b \in dead : ~Bringing(b, s)
    BY <1>1, <2>0, <2>2, <2>3, LotsStay
  <2>4. CASE \E b \in dead : Bringing(b, s)
    <3>1. Net(s)' = Net(s) /\ strays'[s] = strays[s] + 1
      BY <2>1, <2>2, <2>4 DEF Net
    <3>2. Second(s) => Begun(s)'
      <4>1. ASSUME NEW x \in Actors, Zone, Bringing(x, s), job[x].kind = "dca"
            PROVE  HasEntry(s)
        BY <4>1 DEF TypeInv, WorkOk, JobOk, UsesEntry, Fresh, FreshFor, Bringing, HasEntry, Apart, Zone
      <4> QED
        BY <2>2, <4>1 DEF Second, Begun, HasEntry
    <3>3. Second(s) <=> Lots(s) = 2
      BY DEF Lots
    <3> QED
      BY <1>2, <3>1, <3>2, <3>3
  <2> QED
    BY <2>3, <2>4
<1>7. CASE SyncPositions /\ book'[s] # book[s]
  <2>1. Net(s)' = Net(s)
    BY <1>7 DEF SyncPositions, Net, broker
  <2>2. CASE Net(s) <= 0
    BY <1>3, <2>1, <2>2
  <2>3. CASE Net(s) > 0
    <3>1. Apart
      BY <1>7, <2>3, PurgedIsGone
    <3>2. strays'[s] = strays[s] + 1
      BY <1>7, <2>3, <3>1 DEF SyncPositions
    <3>3. ~Zone
      BY <3>1 DEF Apart, Zone
    <3> QED
      BY <1>2, <2>1, <3>2, <3>3
  <2> QED
    BY <1>3, <2>2, <2>3
<1>8. ASSUME \A a \in Actors : ~Record(a) /\ ~Crash(a), ~(SyncPositions /\ book'[s] # book[s])
      PROVE  Lots(s)' >= Lots(s)
  <2>1. \A a \in Actors : Bringing(a, s) => job'[a] = job[a]
    BY <1>8, AnswerKept DEF Bringing
  <2>2. day[s] = "sold" => day'[s] = "sold"
    BY <1>8, DaySold
  <2>3. CASE book'[s] = book[s]
    BY <1>1, <2>1, <2>2, <2>3, LotsStay
  <2>4. CASE book'[s] # book[s]
    <3>1. FillSync /\ book'[s] # None /\ (~Apart => book[s] # None /\ (book'[s].rest <=> book[s].rest))
      BY <1>8, <2>4, EntryKept
    <3>2. Begun(s)' /\ (Zone => ~Apart)
      BY <3>1 DEF Begun, HasEntry, Zone, Apart
    <3>3. Second(s) => Second(s)'
      BY <1>2, <2>1, <3>1, <3>2 DEF Second, HasEntry, Bringing
    <3> QED
      BY <1>2, <3>2, <3>3 DEF Lots
  <2> QED
    BY <2>3, <2>4
<1> QED
  BY <1>4, <1>5, <1>6, <1>7, <1>8

LEMMA LotsNext ==
  ASSUME TypeInv, OneInv, LotsOk, [Next]_vars
  PROVE  LotsOk'
<1>1. OrdersOk'
  BY OrdersNext DEF OneInv
<1> SUFFICES ASSUME NEW s \in Symbols PROVE Room(s, Lots(s))'
  BY <1>1 DEF LotsOk, Room, Net
<1>2. /\ UNCHANGED mode /\ Net(s) \in Int /\ Net(s)' \in Int /\ strays[s] \in Nat /\ strays'[s] \in Nat
      /\ strays[s] <= strays'[s]
  BY ModeKept, Flow, SymbolTypes, NextType DEF TypeInv, TypeOK, Net
<1>3. Lots(s) \in {0, 1, 2} /\ Lots(s)' \in {0, 1, 2}
  BY <1>2, LotsBounds
<1>4. ASSUME NEW k \in {0, 1, 2}, Lots(s)' >= k, Room(s, k)'
      PROVE  Room(s, Lots(s))'
  <2>1. PICK m \in {0, 1, 2} : m = Lots(s)'
    BY <1>3
  <2>2. Net(s)' <= Lot * (m + strays'[s])
    <3>1. Net(s)' <= Lot * (k + strays'[s]) /\ k <= m /\ k \in Nat /\ m \in Nat
      BY <1>4, <2>1 DEF Room
    <3> QED
      BY <1>2, <3>1, MoreRoom
  <2> QED
    BY <2>1, <2>2 DEF Room
<1>5. PICK v \in {0, 1, 2} : v = Lots(s) /\ Room(s, v)
  BY <1>3 DEF LotsOk
<1>6. CASE \E a \in Actors : SendAccepted(a) /\ job[a].kind \in Buys /\ job[a].sym = s
  <2>1. PICK a \in Actors : SendAccepted(a) /\ job[a].kind \in Buys /\ job[a].sym = s
    BY <1>6
  <2>2. /\ job[a] # None /\ ~job[a].answered /\ JobOk(a) /\ Bringing(a, s)' /\ job'[a].kind = job[a].kind
    BY <2>1, SentJob DEF Unanswered, Bringing
  <2>3. PICK k \in {0, 1} : k = Before(job[a].kind) /\ k + 0 = k /\ k + 1 \in {0, 1, 2}
    BY DEF Before
  <2>4. Room(s, k)
    BY <2>1, <2>2, <2>3 DEF LotsOk, OrdersOk
  <2>5. Room(s, k + 1)'
    BY <2>3, <2>4, RoomKept
  <2>6. Lots(s)' >= k + 1
    <3>1. job[a].kind = "dca" => Second(s)'
      BY <1>2, <2>2 DEF JobOk, KindsAt, Second, Zone
    <3>2. Begun(s)'
      BY <2>2 DEF Begun
    <3>3. (Begun(s)' => Lots(s)' >= 1) /\ (Second(s)' => Lots(s)' = 2)
      BY <1>2, LotsBounds
    <3> QED
      BY <1>3, <2>1, <2>3, <3>1, <3>2, <3>3 DEF Before, Buys
  <2> QED
    BY <1>4, <2>3, <2>5, <2>6
<1>7. CASE \A a \in Actors : ~(SendAccepted(a) /\ job[a].kind \in Buys /\ job[a].sym = s)
  <2>1. \A k \in {0, 1, 2} : Room(s, k) => Room(s, k)'
    BY <1>7, RoomKept
  <2>2. CASE Lots(s)' >= Lots(s)
    BY <1>4, <1>5, <2>1, <2>2
  <2>3. CASE Net(s)' <= Net(s) /\ Net(s) <= 0
    <3>1. \A n \in Nat : Lot * n \in Nat
      BY NumbersAssumption
    <3>2. PICK m \in {0, 1, 2} : m = Lots(s)'
      BY <1>3
    <3>3. Lot * (m + strays'[s]) \in Nat
      BY <1>2, <3>1, <3>2
    <3>4. Net(s)' <= Lot * (m + strays'[s])
      BY <1>2, <2>3, <3>3
    <3> QED
      BY <3>2, <3>4 DEF Room
  <2>4. CASE Net(s)' = Net(s) /\ strays'[s] = strays[s] + 1 /\ Lots(s)' >= Lots(s) - 1
    <3>1. PICK m \in {0, 1, 2} : m = Lots(s)'
      BY <1>3
    <3>2. v <= m + 1
      BY <1>5, <2>4, <3>1
    <3>3. Room(s, m)'
      BY <1>5, <2>4, <3>2, RoomStray
    <3> QED
      BY <3>1, <3>3 DEF Room
  <2>5. ASSUME NEW a \in Actors, Record(a), job[a].sym = s, job[a].kind = "buy", Lots(s)' >= 1
        PROVE  Room(s, Lots(s))'
    <3>1. job[a] # None /\ job[a].answered
      BY <2>5, RecordStep
    <3>2. Before(job[a].kind) + (IF job[a].answered THEN 1 ELSE 0) = 1 /\ job[a].kind \in Buys
      BY <2>5, <3>1 DEF Before, Buys
    <3>3. Room(s, 1)
      BY <2>5, <3>1, <3>2 DEF LotsOk, OrdersOk
    <3> QED
      BY <1>4, <2>1, <2>5, <3>3
  <2> QED
    BY <2>2, <2>3, <2>4, <2>5, LotsKept DEF OneInv
<1> QED
  BY <1>6, <1>7

\* Everywhere, for any symbols, lots, fills, retries and faults: a symbol is
\* bought once, the zone strategies of the daemon twice, and once more for
\* each lot that went astray (supertrend_auto_trader.py:472 leaves out what
\* the ledger holds, _scan_and_buy what it or the day's rows know).
THEOREM LotsCorrect == Spec => []LotsBounded
<1>1. Init => TypeInv /\ OneInv /\ LotsOk
  <2> SUFFICES ASSUME Init PROVE LotsOk
    BY InitType, OneInit
  <2>1. OrdersOk
    BY DEF Init, OrdersOk
  <2>2. ASSUME NEW s \in Symbols PROVE Room(s, Lots(s))
    <3>1. Net(s) = 0 /\ strays[s] = 0 /\ Lots(s) \in {0, 1, 2}
      BY DEF Init, Net, Lots
    <3>2. \A n \in {0, 1, 2} : 0 <= Lot * (n + 0)
      BY NumbersAssumption
    <3> QED
      BY <3>1, <3>2 DEF Room
  <2> QED
    BY <2>1, <2>2 DEF LotsOk
<1>2. TypeInv /\ OneInv /\ LotsOk /\ [Next]_vars => (TypeInv /\ OneInv /\ LotsOk)'
  BY NextType, OneNext, LotsNext
<1>3. TypeInv /\ LotsOk => LotsBounded
  <2> SUFFICES ASSUME TypeInv, LotsOk, NEW s \in Symbols
               PROVE  Net(s) <= Lot * ((IF Zone THEN 2 ELSE 1) + strays[s])
    BY DEF LotsBounded
  <2>1. Net(s) \in Int /\ strays[s] \in Nat
    BY SymbolTypes DEF TypeInv
  <2>2. PICK v \in {0, 1, 2} : v = Lots(s) /\ v <= (IF Zone THEN 2 ELSE 1)
    BY DEF Lots, Second
  <2>3. Net(s) <= Lot * (v + strays[s])
    BY <2>2 DEF LotsOk, Room
  <2>4. CASE Zone
    BY <2>1, <2>2, <2>3, <2>4, MoreRoom
  <2>5. CASE ~Zone
    BY <2>1, <2>2, <2>3, <2>5, MoreRoom
  <2> QED
    BY <2>4, <2>5
<1> QED
  BY <1>1, <1>2, <1>3, PTL DEF Spec

(***************************************************************************)
(* Tranches of a day                                                       *)
(***************************************************************************)

\* Where the zone strategies buy, the daemon is alone: its order of a symbol
\* that is accepted and not recorded yet, or that is still to be accepted.
Answered(s, kinds) ==
  LET j == job["daemon"] IN j # None /\ j.sym = s /\ j.answered /\ j.kind \in kinds

Coming(s, kind) ==
  \/ [sym |-> s, kind |-> kind] \in plan["daemon"]
  \/ LET j == job["daemon"] IN j # None /\ j.sym = s /\ ~j.answered /\ j.kind = kind

\* Without a fault the first tranche may still be bought today: also where
\* the entry, if there is one, is a ghost that the purge removes.
CanBegin(s) ==
  /\ day[s] = "free" /\ ~Answered(s, {"buy"})
  /\ HasEntry(s) => Net(s) <= 0 /\ ~Answered(s, Kinds \ Buys)

\* And the second one.
CanFollow(s) ==
  \/ CanBegin(s)
  \/ Answered(s, {"buy"})
  \/ HasEntry(s) /\ book[s].rest /\ ~Answered(s, {"dca"})

Begins == {s \in Universe[mode] : CanBegin(s)}
Follows == {s \in Universe[mode] : CanFollow(s)}

\* What is on its way to be bought may still be bought, and is offered.
ComingOk ==
  \A s \in Symbols :
    /\ HasEntry(s) \/ Coming(s, "buy") \/ Answered(s, {"buy"}) => s \in Universe[mode]
    /\ Coming(s, "buy") => day[s] = "free" /\ ~HasEntry(s)
    /\ Coming(s, "dca") => HasEntry(s) /\ book[s].rest

\* What is bought and what may still be bought without a fault is what the
\* faults so far have allowed.
TranchesOk ==
  Zone => /\ ComingOk
          /\ bought + Cardinality(Begins) + Cardinality(Follows)
               <= (2 * (1 + faults)) * Cardinality(Universe[mode])

LEMMA ZoneAlone ==
  ASSUME TypeInv, Zone
  PROVE  ~Apart /\ plan["trader"] = {} /\ job["trader"] = None
<1>1. ~Apart /\ pc["trader"] = "idle"
  BY DEF Apart, Zone, TypeInv, PlaceOk
<1> QED
  BY <1>1, NoWork DEF KindsAt, Actors

\* An order that is on its way is the only one of its symbol.
LEMMA ComingOnly ==
  ASSUME TypeInv, Unique, NEW s \in Symbols, NEW kind \in Buys, Coming(s, kind),
         job["daemon"] # None, job["daemon"].sym = s
  PROVE  job["daemon"].kind = kind /\ ~job["daemon"].answered
<1> SUFFICES ASSUME [sym |-> s, kind |-> kind] \in plan["daemon"] PROVE FALSE
  BY DEF Coming
<1>1. PICK i \in plan["daemon"] : i.sym = s /\ i.kind = kind
  OBVIOUS
<1>2. job["daemon"].kind = "dca" /\ kind = "buy"
  BY <1>1 DEF Unique, Actors, Buys
<1>3. "dca" \in KindsAt("daemon", pc["daemon"]) /\ "buy" \in KindsAt("daemon", pc["daemon"])
  BY <1>1, <1>2 DEF TypeInv, WorkOk, ItemOk, JobOk, Actors
<1> QED
  BY <1>3 DEF KindsAt

\* Where an order that is on its way comes from.
LEMMA ComingFrom ==
  ASSUME TypeInv, [Next]_vars, Zone, NEW s \in Symbols, NEW kind \in Buys, Coming(s, kind)'
  PROVE  \/ Coming(s, kind)
         \/ /\ UNCHANGED ledgers
            /\ kind = "buy" => day[s] = "free" /\ ~HasEntry(s) /\ s \in Universe[mode]
            /\ kind = "dca" => HasEntry(s) /\ book[s].rest
<1>1. CASE job'["daemon"] # None /\ job'["daemon"].sym = s /\ ~job'["daemon"].answered
           /\ job'["daemon"].kind = kind
  <2>1. CASE job'["daemon"] = job["daemon"]
    BY <1>1, <2>1 DEF Coming
  <2>2. ASSUME NEW i \in plan["daemon"], i.sym = s, i.kind = kind
        PROVE  Coming(s, kind)
    <3>1. i = [sym |-> s, kind |-> kind]
      BY <2>2 DEF TypeInv, TypeOK, Item, Actors
    <3> QED
      BY <3>1 DEF Coming
  <2>3. CASE SendAccepted("daemon") \/ SendRefused("daemon") \/ SendLost("daemon")
    BY <1>1, <2>3, SentJob DEF Coming, Unanswered, Actors
  <2> QED
    BY <1>1, <2>1, <2>2, <2>3, JobCases DEF Actors
<1>2. ASSUME NEW i, i = [sym |-> s, kind |-> kind], i \in plan'["daemon"], i \notin plan["daemon"]
      PROVE  /\ UNCHANGED ledgers
             /\ kind = "buy" => day[s] = "free" /\ ~HasEntry(s) /\ s \in Universe[mode]
             /\ kind = "dca" => HasEntry(s) /\ book[s].rest
  <2>1. i.sym = s /\ i.kind = kind /\ i \in plan'["daemon"] \ plan["daemon"]
    BY <1>2
  <2>2. ASSUME NEW new, plan' = [plan EXCEPT !["daemon"] = new]
        PROVE  i \in new
    BY <2>1, <2>2 DEF TypeInv, TypeOK, Actors
  <2>3. CASE Decide
    BY <2>1, <2>2, <2>3, DecideShape DEF HasEntry, Buys
  <2>4. CASE DaemonScans \/ LimitCarry \/ DaemonRests
    BY <2>1, <2>2, <2>4, LaterShape DEF Buys
  <2>5. CASE UNCHANGED vars \/ BrokerStep \/ TraderLoads \/ TraderScans \/ TraderEnds
    BY <2>1, <2>5 DEF vars, cycles, BrokerStep, FillBuy, FillSell, Cancel, TraderLoads, TraderScans,
       TraderEnds, TypeInv, TypeOK, Actors
  <2>6. CASE ReadOpenOrders \/ ReadBalance \/ SyncPositions \/ LoadPositions \/ FillSync
    BY <2>1, <2>6 DEF ReadOpenOrders, ReadBalance, SyncPositions, LoadPositions, FillSync
  <2>7. ASSUME NEW b \in Actors, \E k \in plan[b] : Skip(b, k) \/ Begin(b, k)
        PROVE  FALSE
    BY <2>1, <2>7 DEF Skip, Begin, TypeInv, TypeOK, Actors
  <2>8. ASSUME NEW b \in Actors, SendAccepted(b) \/ SendRefused(b) \/ SendLost(b)
        PROVE  FALSE
    BY <2>1, <2>8, SentJob
  <2>9. ASSUME NEW b \in Actors, Record(b)
        PROVE  FALSE
    BY <2>1, <2>9, RecordStep DEF Actors
  <2>10. ASSUME NEW b \in Actors, Crash(b)
         PROVE  FALSE
    <3>1. plan'["daemon"] = {}
      BY <2>10, ZoneAlone, CrashStep DEF Actors
    <3> QED
      BY <2>1, <3>1
  <2> QED
    BY <2>3, <2>4, <2>5, <2>6, <2>7, <2>8, <2>9, <2>10, NextCases
<1> QED
  BY <1>1, <1>2 DEF Coming

\* What a step does to the day of a symbol.
LEMMA DayChanges ==
  ASSUME TypeInv, [Next]_vars, NEW s \in Symbols, day'[s] # day[s], \A a \in Actors : ~Crash(a)
  PROVE  \E a \in Actors :
           /\ job[a] # None /\ job[a].sym = s
           /\ \/ /\ day'[s] = "sold" /\ Zone /\ job[a].kind \notin Buys
                 /\ SendRefused(a) \/ SendLost(a) \/ Record(a)
              \/ day'[s] = "bought" /\ Record(a) /\ job[a].kind = "buy"
<1>1. ASSUME NEW a \in Actors, job[a] # None, Audited(a)
      PROVE  job[a].sym = s /\ day'[s] = "sold" /\ Zone /\ job[a].kind \notin Buys
  BY <1>1 DEF Audited, TypeInv, TypeOK
<1>2. ASSUME NEW a \in Actors, Record(a)
      PROVE  /\ job[a] # None /\ job[a].sym = s
             /\ \/ day'[s] = "sold" /\ Zone /\ job[a].kind \notin Buys
                \/ day'[s] = "bought" /\ job[a].kind = "buy"
  <2>1. job[a] # None
    BY <1>2, RecordStep
  <2>2. CASE Zone /\ job[a].kind = "buy"
    <3>1. day' = [day EXCEPT ![job[a].sym] = "bought"]
      BY <1>2, <2>2 DEF Record
    <3> QED
      BY <2>1, <2>2, <3>1 DEF TypeInv, TypeOK
  <2>3. CASE ~(Zone /\ job[a].kind = "buy")
    <3>1. Audited(a)
      BY <1>2, <2>3 DEF Record
    <3> QED
      BY <1>1, <2>1, <3>1
  <2> QED
    BY <2>2, <2>3
<1>3. ASSUME NEW a \in Actors, SendRefused(a) \/ SendLost(a)
      PROVE  job[a] # None /\ job[a].sym = s /\ day'[s] = "sold" /\ Zone /\ job[a].kind \notin Buys
  BY <1>1, <1>3 DEF SendRefused, SendLost, Unanswered
<1>4. CASE SyncPositions \/ BrokerStep
  BY <1>4 DEF SyncPositions, BrokerStep, FillBuy, FillSell, Cancel, ledgers
<1>5. ASSUME NEW a \in Actors, SendAccepted(a)
      PROVE  FALSE
  BY <1>5 DEF SendAccepted, ledgers
<1> QED
  BY <1>2, <1>3, <1>4, <1>5, PlanningKeeps, NextCases DEF TraderStep

\* Nothing happens to a symbol whose buy is on its way.
LEMMA ComingKept ==
  ASSUME TypeInv, OneInv, [Next]_vars, Zone, NEW s \in Symbols, NEW kind \in Buys,
         Coming(s, kind), Coming(s, kind)'
  PROVE  day'[s] = day[s] /\ book'[s] = book[s]
<1>1. ~Apart
  BY ZoneAlone
<1>2. ASSUME NEW a \in Actors, job[a] # None, job[a].sym = s
      PROVE  job[a].kind = kind /\ ~job[a].answered
  BY <1>2, ZoneAlone, ComingOnly DEF OneInv, Actors
<1>3. ASSUME NEW a \in Actors, Crash(a)
      PROVE  FALSE
  <2>1. plan'["daemon"] = {} /\ job'["daemon"] = None
    BY <1>1, <1>3, CrashStep DEF Actors
  <2> QED
    BY <2>1 DEF Coming
<1>4. ASSUME NEW a \in Actors, Record(a)
      PROVE  job[a].sym # s
  BY <1>2, <1>4, RecordStep
<1>5. day'[s] = day[s]
  BY <1>2, <1>3, <1>4, DayChanges
<1>6. ASSUME SyncPositions \/ FillSync
      PROVE  FALSE
  <2>1. pc["daemon"] \notin {"exits", "entries", "carrying"}
    BY <1>6 DEF SyncPositions, FillSync
  <2> QED
    BY <1>1, <2>1, Quiet DEF Coming, Actors
<1> QED
  BY <1>4, <1>5, <1>6, EntryKept DEF OneInv

LEMMA ComingNext ==
  ASSUME TypeInv, OneInv, ComingOk, [Next]_vars, Zone
  PROVE  ComingOk'
<1>1. UNCHANGED mode /\ ~Apart
  BY ModeKept, ZoneAlone
<1> SUFFICES ASSUME NEW s \in Symbols
             PROVE  /\ HasEntry(s)' \/ Coming(s, "buy")' \/ Answered(s, {"buy"})' => s \in Universe[mode]
                    /\ Coming(s, "buy")' => day'[s] = "free" /\ ~HasEntry(s)'
                    /\ Coming(s, "dca")' => HasEntry(s)' /\ book'[s].rest
  BY <1>1 DEF ComingOk
<1>2. ASSUME NEW kind \in Buys, Coming(s, kind)'
      PROVE  /\ kind = "buy" => day'[s] = "free" /\ ~HasEntry(s)' /\ s \in Universe[mode]
             /\ kind = "dca" => HasEntry(s)' /\ book'[s].rest
  <2>1. CASE Coming(s, kind)
    BY <1>2, <2>1, ComingKept DEF ComingOk, HasEntry
  <2>2. CASE /\ UNCHANGED ledgers
             /\ kind = "buy" => day[s] = "free" /\ ~HasEntry(s) /\ s \in Universe[mode]
             /\ kind = "dca" => HasEntry(s) /\ book[s].rest
    BY <2>2 DEF ledgers, HasEntry
  <2> QED
    BY <1>2, <2>1, <2>2, ComingFrom
<1>3. ASSUME Answered(s, {"buy"})'
      PROVE  s \in Universe[mode]
  <2>1. CASE job'["daemon"] = job["daemon"]
    BY <1>3, <2>1 DEF Answered, ComingOk
  <2>2. CASE SendAccepted("daemon") \/ SendRefused("daemon") \/ SendLost("daemon")
    <3>1. Coming(s, "buy")
      BY <1>3, <2>2, SentJob DEF Answered, Coming, Unanswered, Actors
    <3> QED
      BY <3>1 DEF ComingOk
  <2> QED
    BY <1>3, <2>1, <2>2, JobCases DEF Answered, Actors
<1>4. ASSUME HasEntry(s)'
      PROVE  s \in Universe[mode]
  <2>1. CASE HasEntry(s)
    BY <2>1 DEF ComingOk
  <2>2. ASSUME NEW a \in Actors, Record(a), job[a].sym = s, book'[s] = Recorded(a), ~HasEntry(s)
        PROVE  s \in Universe[mode]
    <3>1. /\ a = "daemon" /\ job[a] # None /\ job[a].answered /\ job[a].kind \in Kinds /\ JobOk(a)
      BY <2>2, RecordStep, ZoneAlone DEF Job, Actors
    <3>2. job[a].kind \in {"dca", "partial"} => snap[a][s] = None
      BY <1>1, <2>2, <3>1 DEF OneInv, Fresh, FreshFor, HasEntry
    <3>3. job[a].kind # "dca"
      BY <2>2, <3>1, <3>2 DEF JobOk, UsesEntry
    <3>4. job[a].kind # "partial"
      BY <1>4, <2>2, <3>2 DEF Recorded, HasEntry
    <3>5. job[a].kind \notin {"full", "carry"}
      BY <1>4, <2>2 DEF Recorded, HasEntry
    <3>6. Answered(s, {"buy"})
      BY <2>2, <3>1, <3>3, <3>4, <3>5 DEF Kinds, Answered
    <3> QED
      BY <3>6 DEF ComingOk
  <2> QED
    BY <1>1, <1>4, <2>1, <2>2, EntryKept DEF OneInv, HasEntry
<1> QED
  BY <1>2, <1>3, <1>4 DEF Buys

\* An answer that waits to be recorded comes from a request that is accepted.
LEMMA AnsweredFrom ==
  ASSUME TypeInv, [Next]_vars, NEW s, NEW kinds, \A a \in Actors : ~Record(a) /\ ~Crash(a) /\ ~SendAccepted(a)
  PROVE  Answered(s, kinds)' <=> Answered(s, kinds)
<1>1. ASSUME job["daemon"] # None, job["daemon"].answered
      PROVE  job'["daemon"] = job["daemon"]
  BY <1>1, AnswerKept DEF Actors
<1>2. ASSUME job'["daemon"] # None, job'["daemon"].answered
      PROVE  job'["daemon"] = job["daemon"]
  <2>1. SUFFICES ASSUME job'["daemon"] # job["daemon"] PROVE FALSE
    OBVIOUS
  <2>2. SendRefused("daemon") \/ SendLost("daemon")
    BY <1>2, <2>1, JobCases DEF Actors
  <2> QED
    BY <1>2, <2>2, SentJob DEF Actors
<1> QED
  BY <1>1, <1>2 DEF Answered

\* Steps without a fault that neither record nor purge nor are accepted.
LEMMA QuietStep ==
  ASSUME TypeInv, OneInv, [Next]_vars, Zone, faults' = faults, NEW s \in Symbols, ~SyncPositions,
         \A a \in Actors : ~Record(a) /\ ~SendAccepted(a)
  PROVE  /\ bought' = bought
         /\ CanBegin(s)' => CanBegin(s)
         /\ CanFollow(s)' => CanFollow(s)
<1>1. /\ ~Apart /\ faults \in Nat /\ Net(s) \in Int
  BY ZoneAlone, SymbolTypes DEF TypeInv
<1>2. \A a \in Actors : ~Crash(a)
  BY <1>1 DEF Crash, Fail
<1>3. \A kinds : Answered(s, kinds)' <=> Answered(s, kinds)
  BY <1>2, AnsweredFrom
<1>4. (HasEntry(s)' <=> HasEntry(s)) /\ (HasEntry(s) => (book'[s].rest <=> book[s].rest))
  BY <1>1, EntryKept DEF OneInv, HasEntry
<1>5. bought' = bought /\ Net(s)' = Net(s)
  <2>1. CASE BrokerStep
    <3>1. PICK t \in Symbols : \E q \in 1..MaxShares : FillBuy(t, q) \/ FillSell(t, q)
      BY <1>1, <2>1 DEF BrokerStep, Cancel, Fail
    <3>2. PICK q \in 1..MaxShares : FillBuy(t, q) \/ FillSell(t, q)
      BY <3>1
    <3>3. MaxShares \in Nat
      BY Bounds DEF TypeInv
    <3>4. /\ shares[s] \in Nat /\ buying[s] \in Nat /\ selling[s] \in Nat /\ q \in Nat
      BY <3>3, SymbolTypes DEF TypeInv
    <3> QED
      BY <3>2, <3>4 DEF FillBuy, FillSell, Net, TypeInv, TypeOK
  <2>2. ASSUME NEW a \in Actors, SendRefused(a) \/ SendLost(a)
        PROVE  UNCHANGED <<bought, shares, buying, selling>>
    BY <1>1, <2>2 DEF SendRefused, SendLost, Fail, broker
  <2>3. CASE UNCHANGED <<bought, shares, buying, selling>>
    BY <2>3 DEF Net
  <2> QED
    BY <1>2, <2>1, <2>2, <2>3, PlanningKeeps, NextCases DEF TraderStep
<1>6. day'[s] = "free" => day[s] = "free"
  BY <1>2, DayChanges
<1>7. CanBegin(s)' => CanBegin(s)
  BY <1>3, <1>4, <1>5, <1>6 DEF CanBegin
<1>8. CanFollow(s)' => CanFollow(s)
  BY <1>3, <1>4, <1>7 DEF CanFollow
<1> QED
  BY <1>5, <1>7, <1>8

\* The purge leaves a symbol that is bought no chance it did not have.
LEMMA PurgeStep ==
  ASSUME TypeInv, OneInv, [Next]_vars, Zone, SyncPositions, NEW s \in Symbols
  PROVE  /\ bought' = bought /\ faults' = faults
         /\ CanBegin(s)' => CanBegin(s)
         /\ CanFollow(s)' => CanFollow(s)
<1>1. ~Apart
  BY ZoneAlone
<1>2. job["daemon"] = None /\ UNCHANGED <<job, day, bought, shares, buying, selling, faults>>
  <2>1. pc["daemon"] = "sync"
    BY DEF SyncPositions
  <2> QED
    BY <1>1, <2>1, Quiet DEF SyncPositions, broker, Actors
<1>3. book'[s] # book[s] => Net(s) = 0 /\ book'[s] = None
  BY <1>1, PurgedIsGone DEF OneInv, SyncPositions
<1>4. Net(s)' = Net(s) /\ \A kinds : ~Answered(s, kinds) /\ ~Answered(s, kinds)'
  BY <1>2 DEF Net, Answered
<1>5. CanBegin(s)' => CanBegin(s)
  BY <1>2, <1>3, <1>4 DEF CanBegin, HasEntry
<1> QED
  BY <1>2, <1>3, <1>4, <1>5 DEF CanFollow, HasEntry

\* A recorded answer uses up what it stood for.
LEMMA RecordedStep ==
  ASSUME TypeInv, OneInv, [Next]_vars, Zone, NEW a \in Actors, Record(a), NEW s \in Symbols
  PROVE  /\ bought' = bought /\ faults' = faults
         /\ CanBegin(s)' => CanBegin(s)
         /\ CanFollow(s)' => CanFollow(s)
<1>1. /\ a = "daemon" /\ ~Apart /\ job[a] # None /\ job[a].answered /\ job[a].kind \in Kinds /\ JobOk(a)
      /\ UNCHANGED <<bought, faults, shares, buying, selling, mode>> /\ job'[a] = None
      /\ book'[s] = IF s = job[a].sym THEN Recorded(a) ELSE book[s]
  BY RecordStep, ZoneAlone DEF Job, Actors, broker
<1>2. Net(s)' = Net(s) /\ \A kinds : ~Answered(s, kinds)'
  BY <1>1 DEF Net, Answered
<1>3. \A b \in Actors : ~Crash(b)
  <2>1. faults \in Nat
    BY SymbolTypes DEF TypeInv
  <2> QED
    BY <1>1, <2>1 DEF Crash, Fail
<1>4. CASE s # job[a].sym
  <2>1. \A kinds : ~Answered(s, kinds)
    BY <1>1, <1>4 DEF Answered
  <2>2. day'[s] = day[s] /\ book'[s] = book[s]
    <3>1. \A b \in Actors : job[b] # None => job[b].sym # s
      BY <1>1, <1>4, ZoneAlone DEF Actors
    <3> QED
      BY <1>1, <1>3, <1>4, <3>1, DayChanges
  <2> QED
    BY <1>1, <1>2, <2>1, <2>2 DEF CanBegin, CanFollow, HasEntry
<1>5. CASE s = job[a].sym /\ job[a].kind = "buy"
  <2>1. Answered(s, {"buy"})
    BY <1>1, <1>5 DEF Answered
  <2>2. day' = [day EXCEPT ![s] = "bought"]
    BY <1>5 DEF Record
  <2>3. day'[s] # "free"
    BY <2>2 DEF TypeInv, TypeOK
  <2> QED
    BY <1>1, <2>1, <2>3 DEF CanBegin, CanFollow
<1>6. CASE s = job[a].sym /\ job[a].kind = "dca"
  <2>1. HasEntry(s)
    BY <1>1, <1>6 DEF OneInv, Fresh, FreshFor, JobOk, UsesEntry, HasEntry
  <2>2. HasEntry(s)' /\ ~book'[s].rest
    BY <1>1, <1>6, RecordedEntry DEF HasEntry, Buys
  <2>3. day'[s] = "free" => day[s] = "free"
    <3>1. \A b \in Actors : job[b] # None => job[b].kind \in Buys /\ job[b].kind # "buy"
      BY <1>1, <1>6, ZoneAlone DEF Actors, Buys
    <3> QED
      BY <1>3, <3>1, DayChanges
  <2>4. \A kinds : "dca" \notin kinds => ~Answered(s, kinds)
    BY <1>1, <1>6 DEF Answered
  <2>5. ~Answered(s, {"buy"}) /\ ~Answered(s, Kinds \ Buys)
    BY <2>4 DEF Buys
  <2>6. CanBegin(s)' => CanBegin(s)
    BY <1>2, <2>1, <2>2, <2>3, <2>5 DEF CanBegin
  <2> QED
    BY <1>1, <1>2, <2>2, <2>6 DEF CanFollow
<1>7. CASE s = job[a].sym /\ job[a].kind \notin Buys
  <2>1. day'[s] = "sold"
    <3>1. Audited(a)
      BY <1>7 DEF Record, Buys
    <3> QED
      BY <1>1, <1>7, <3>1 DEF Audited, TypeInv, TypeOK
  <2>2. ~CanBegin(s)'
    BY <2>1 DEF CanBegin
  <2>3. HasEntry(s)' => HasEntry(s) /\ (book'[s].rest <=> book[s].rest)
    <3>1. CASE job[a].kind = "partial" /\ snap[a][s] = None
      BY <1>1, <1>7, <3>1 DEF Recorded, HasEntry
    <3>2. CASE job[a].kind = "partial" /\ snap[a][s] # None
      <4>1. snap[a][s] = book[s]
        BY <1>1, <1>7, <3>2 DEF OneInv, Fresh, FreshFor
      <4> QED
        BY <1>1, <1>7, <3>2, <4>1, RecordedEntry DEF HasEntry
    <3>3. CASE job[a].kind \in {"full", "carry"}
      BY <1>1, <1>7, <3>3 DEF Recorded, HasEntry
    <3> QED
      BY <1>1, <1>7, <3>1, <3>2, <3>3 DEF Kinds, Buys
  <2>4. ~Answered(s, {"dca"}) /\ ~Answered(s, {"buy"})
    BY <1>1, <1>7 DEF Answered, Buys
  <2>5. CanFollow(s)' => CanFollow(s)
    BY <1>2, <2>2, <2>3, <2>4 DEF CanFollow
  <2> QED
    BY <1>1, <2>2, <2>5
<1> QED
  BY <1>4, <1>5, <1>6, <1>7 DEF Buys

\* A buy that is accepted uses up a chance.
LEMMA AcceptedStep ==
  ASSUME TypeInv, OneInv, ComingOk, [Next]_vars, Zone, NEW a \in Actors, SendAccepted(a), NEW s \in Symbols
  PROVE  /\ faults' = faults
         /\ CanBegin(s)' => CanBegin(s)
         /\ CanFollow(s)' => CanFollow(s)
         /\ job[a].kind \notin Buys => bought' = bought
         /\ job[a].kind \in Buys => /\ bought' = bought + 1 /\ job[a].sym \in Universe[mode]
                                    /\ s = job[a].sym => CanFollow(s)
                                    /\ s = job[a].sym /\ job[a].kind = "buy" => ~CanBegin(s)' /\ CanBegin(s)
                                    /\ s = job[a].sym /\ job[a].kind = "dca" => ~CanFollow(s)'
<1>1. /\ a = "daemon" /\ job[a] # None /\ ~job[a].answered /\ job[a] \in Job /\ job[a].kind \in Kinds
      /\ job'[a] # None /\ job'[a].answered /\ job'[a].sym = job[a].sym /\ job'[a].kind = job[a].kind
      /\ Accept(job[a]) /\ UNCHANGED <<mode, faults, shares, book, day>>
  BY SentJob, ZoneAlone DEF SendAccepted, ledgers, Unanswered, Actors, Job
<1>2. /\ s # job[a].sym => Net(s)' = Net(s)
      /\ s = job[a].sym /\ job[a].kind \in Buys => Net(s)' = Net(s) + Lot
  BY <1>1, AcceptNet DEF Unanswered
<1>3. \A kinds : /\ ~Answered(s, kinds)
                 /\ Answered(s, kinds)' <=> s = job[a].sym /\ job[a].kind \in kinds
  BY <1>1 DEF Answered
<1>8. job[a].sym \in Universe[mode] \/ job[a].kind \notin Buys
  <2>1. SUFFICES ASSUME NEW t \in Symbols, t = job[a].sym, job[a].kind \in Buys PROVE t \in Universe[mode]
    BY <1>1 DEF Job
  <2>2. Coming(t, job[a].kind)
    BY <1>1, <2>1 DEF Coming
  <2> QED
    BY <2>1, <2>2 DEF ComingOk, Buys
<1>4. CASE s # job[a].sym
  <2>1. (CanBegin(s)' <=> CanBegin(s)) /\ (CanFollow(s)' <=> CanFollow(s))
    BY <1>1, <1>2, <1>3, <1>4 DEF CanBegin, CanFollow, HasEntry
  <2>2. /\ job[a].kind \in Buys => bought' = bought + 1
        /\ job[a].kind \notin Buys => bought' = bought
    BY <1>1 DEF Accept
  <2> QED
    BY <1>1, <1>4, <1>8, <2>1, <2>2
<1>5. CASE s = job[a].sym /\ job[a].kind \notin Buys
  <2>1. ~HasEntry(s)' \/ ~CanBegin(s)'
    BY <1>1, <1>3, <1>5 DEF CanBegin
  <2>2. CanBegin(s)' => CanBegin(s)
    BY <1>1, <1>3, <2>1 DEF CanBegin, HasEntry
  <2>3. CanFollow(s)' => CanFollow(s)
    BY <1>1, <1>3, <1>5, <2>2 DEF CanFollow, HasEntry, Buys
  <2> QED
    BY <1>1, <1>5, <2>2, <2>3 DEF Accept
<1>6. CASE s = job[a].sym /\ job[a].kind = "buy"
  <2>1. Coming(s, "buy")
    BY <1>1, <1>6 DEF Coming
  <2>2. CanBegin(s)
    BY <1>3, <2>1 DEF ComingOk, CanBegin
  <2>3. ~CanBegin(s)'
    BY <1>3, <1>6 DEF CanBegin
  <2> QED
    BY <1>1, <1>6, <2>1, <2>2, <2>3 DEF ComingOk, CanFollow, Accept, Buys
<1>7. CASE s = job[a].sym /\ job[a].kind = "dca"
  <2>1. Coming(s, "dca")
    BY <1>1, <1>7 DEF Coming
  <2>2. HasEntry(s) /\ book[s].rest /\ s \in Universe[mode]
    BY <2>1 DEF ComingOk
  <2>3. CanFollow(s)
    BY <1>3, <2>2 DEF CanFollow
  <2>4. Net(s)' > 0
    <3>1. Net(s) >= 0
      BY SymbolTypes DEF TypeInv, AmountsOk, Net
    <3> QED
      BY <1>2, <1>7, <3>1, SymbolTypes, NumbersAssumption DEF TypeInv, Buys
  <2>5. ~CanBegin(s)'
    <3>1. Net(s)' \in Int
      BY NextType DEF TypeInv, TypeOK, Net
    <3> QED
      BY <1>1, <2>2, <2>4, <3>1 DEF CanBegin, HasEntry
  <2>6. ~CanFollow(s)'
    BY <1>3, <1>7, <2>5 DEF CanFollow
  <2> QED
    BY <1>1, <1>7, <2>2, <2>3, <2>5, <2>6 DEF Accept, Buys
<1>9. /\ job[a].kind \in Buys => bought' = bought + 1
      /\ job[a].kind \notin Buys => bought' = bought
  BY <1>1 DEF Accept
<1> QED
  BY <1>4, <1>5, <1>6, <1>7, <1>8, <1>9, <1>1 DEF Buys

\* Without a fault a symbol gains no chance.
LEMMA NoChanceGained ==
  ASSUME TypeInv, OneInv, ComingOk, [Next]_vars, Zone, faults' = faults
  PROVE  /\ Begins' \subseteq Begins /\ Follows' \subseteq Follows
         /\ \/ bought' = bought
            \/ bought' = bought + 1 /\ \E s \in Universe[mode] :
                 s \in Begins \ Begins' \/ s \in Follows \ Follows'
<1>1. Universe[mode] \subseteq Symbols /\ mode' = mode
  BY UniverseAssumption, ModeKept DEF TypeInv, TypeOK
<1>2. \A s \in Symbols : (CanBegin(s)' => CanBegin(s)) /\ (CanFollow(s)' => CanFollow(s))
  BY QuietStep, PurgeStep, RecordedStep, AcceptedStep
<1>3. ASSUME NEW a \in Actors, SendAccepted(a), job[a].kind \in Buys
      PROVE  bought' = bought + 1 /\ \E s \in Universe[mode] :
               s \in Begins \ Begins' \/ s \in Follows \ Follows'
  <2>1. job[a].sym \in Symbols
    BY <1>3, SentJob
  <2>2. PICK s \in Universe[mode] : s = job[a].sym
    BY <1>3, <2>1, AcceptedStep
  <2>3. /\ bought' = bought + 1 /\ CanFollow(s)
        /\ job[a].kind = "buy" => ~CanBegin(s)' /\ CanBegin(s)
        /\ job[a].kind = "dca" => ~CanFollow(s)'
    BY <1>1, <1>3, <2>2, AcceptedStep
  <2>4. s \in Begins \ Begins' \/ s \in Follows \ Follows'
    BY <1>3, <2>3 DEF Begins, Follows, Buys
  <2> QED
    BY <2>3, <2>4
<1>4. ASSUME \A a \in Actors : ~(SendAccepted(a) /\ job[a].kind \in Buys)
      PROVE  bought' = bought
  <2>1. CASE BrokerStep \/ SyncPositions
    BY <2>1 DEF BrokerStep, FillBuy, FillSell, Cancel, SyncPositions, broker
  <2>2. ASSUME NEW a \in Actors, Record(a) \/ Crash(a) \/ SendRefused(a)
        PROVE  bought' = bought
    BY <2>2 DEF Record, Crash, SendRefused, broker
  <2>3. ASSUME NEW a \in Actors, SendLost(a)
        PROVE  FALSE
    BY <2>3, SymbolTypes DEF SendLost, Fail, TypeInv, TypeOK
  <2>4. ASSUME NEW a \in Actors, SendAccepted(a)
        PROVE  bought' = bought
    BY <1>4, <2>4 DEF SendAccepted, Accept
  <2> QED
    BY <2>1, <2>2, <2>3, <2>4, PlanningKeeps, NextCases DEF TraderStep
<1> QED
  BY <1>1, <1>2, <1>3, <1>4 DEF Begins, Follows

\* With a fault a request may have been accepted: what it brings could still
\* be bought.
LEMMA FaultBuysOne ==
  ASSUME TypeInv, OneInv, ComingOk, [Next]_vars, Zone, faults' # faults
  PROVE  /\ faults' = faults + 1
         /\ bought' = bought \/ (bought' = bought + 1 /\ Follows # {})
<1>1. ASSUME NEW a \in Actors, SendLost(a)
      PROVE  bought' = bought \/ (bought' = bought + 1 /\ Follows # {})
  <2>1. SUFFICES ASSUME Accept(job[a]), job[a].kind \in Buys PROVE bought' = bought + 1 /\ Follows # {}
    BY <1>1 DEF SendLost, Accept
  <2>2. /\ a = "daemon" /\ job[a] # None /\ ~job[a].answered /\ job[a].sym \in Symbols
    BY <1>1, SentJob, ZoneAlone DEF Unanswered, Actors
  <2>3. PICK s \in Symbols : s = job[a].sym
    BY <2>2
  <2>4. Coming(s, job[a].kind) /\ \A kinds : ~Answered(s, kinds)
    BY <2>2, <2>3 DEF Coming, Answered
  <2>5. s \in Universe[mode] /\ CanFollow(s)
    BY <2>1, <2>4 DEF ComingOk, Buys, CanFollow, CanBegin
  <2> QED
    BY <2>1, <2>5 DEF Accept, Follows
<1>2. CASE BrokerStep \/ ReadOpenOrders \/ ReadBalance
  <2>1. CASE BrokerStep
    BY <2>1 DEF BrokerStep, FillBuy, FillSell, Cancel, Fail
  <2>2. CASE ReadOpenOrders \/ ReadBalance
    BY <2>2 DEF ReadOpenOrders, ReadBalance, Fail, broker
  <2> QED
    BY <1>2, <2>1, <2>2
<1>3. ASSUME NEW a \in Actors, Crash(a)
      PROVE  faults' = faults + 1 /\ bought' = bought
  BY <1>3 DEF Crash, Fail, broker
<1>4. ASSUME NEW a \in Actors, SendLost(a)
      PROVE  faults' = faults + 1
  BY <1>4 DEF SendLost, Fail
<1>5. CASE UNCHANGED vars \/ TraderLoads \/ TraderScans \/ TraderEnds
  BY <1>5 DEF vars, TraderLoads, TraderScans, TraderEnds
<1>6. CASE SyncPositions \/ LoadPositions \/ FillSync \/ Decide \/ DaemonScans \/ LimitCarry \/ DaemonRests
  BY <1>6 DEF SyncPositions, LoadPositions, FillSync, Decide, DaemonScans, LimitCarry, DaemonRests
<1>7. ASSUME NEW a \in Actors, \/ \E i \in plan[a] : Skip(a, i) \/ Begin(a, i)
                               \/ SendAccepted(a) \/ SendRefused(a) \/ Record(a)
      PROVE  FALSE
  BY <1>7 DEF Skip, Begin, SendAccepted, SendRefused, Record
<1> QED
  BY <1>1, <1>2, <1>3, <1>4, <1>5, <1>6, <1>7, NextCases

\* The chances of finitely many symbols, counted.
LEMMA ChancesCount ==
  ASSUME TypeInv
  PROVE  /\ IsFiniteSet(Universe[mode]) /\ IsFiniteSet(Begins) /\ IsFiniteSet(Follows)
         /\ Cardinality(Universe[mode]) \in Nat /\ Cardinality(Begins) \in Nat /\ Cardinality(Follows) \in Nat
         /\ Cardinality(Begins) <= Cardinality(Universe[mode])
         /\ Cardinality(Follows) <= Cardinality(Universe[mode])
<1>1. IsFiniteSet(Universe[mode])
  BY SymbolsAssumption, UniverseAssumption, FS_Subset DEF TypeInv, TypeOK
<1>2. Begins \in SUBSET Universe[mode] /\ Follows \in SUBSET Universe[mode]
  BY DEF Begins, Follows
<1> QED
  BY <1>1, <1>2, FS_Subset, FS_CardinalityType

LEMMA ProperSubset ==
  ASSUME NEW S, IsFiniteSet(S), NEW T \in SUBSET S
  PROVE  /\ Cardinality(T) <= Cardinality(S) /\ Cardinality(T) \in Nat /\ Cardinality(S) \in Nat
         /\ T # S => Cardinality(T) + 1 <= Cardinality(S)
<1>1. IsFiniteSet(T) /\ Cardinality(T) <= Cardinality(S) /\ (Cardinality(S) = Cardinality(T) => S = T)
  BY FS_Subset
<1>2. Cardinality(T) \in Nat /\ Cardinality(S) \in Nat
  BY <1>1, FS_CardinalityType
<1> QED
  BY <1>1, <1>2

LEMMA TranchesNext ==
  ASSUME TypeInv, OneInv, TranchesOk, [Next]_vars
  PROVE  TranchesOk'
<1> SUFFICES ASSUME Zone PROVE TranchesOk'
  BY ModeKept DEF TranchesOk, Zone
<1>1. ComingOk /\ ComingOk' /\ mode' = mode
  BY ComingNext, ModeKept DEF TranchesOk
<1> DEFINE u == Cardinality(Universe[mode])
           b == Cardinality(Begins)
           f == Cardinality(Follows)
<1>2. u \in Nat /\ b \in Nat /\ f \in Nat /\ bought \in Nat /\ faults \in Nat
  BY ChancesCount, NumbersAssumption, SymbolTypes DEF TypeInv, TypeOK
<1>3. bought + b + f <= (2 * (1 + faults)) * u
  BY DEF TranchesOk
<1>4. PICK b1 \in Nat, f1 \in Nat : /\ b1 = Cardinality(Begins)' /\ f1 = Cardinality(Follows)'
                                    /\ b1 <= u /\ f1 <= u
  <2>1. Begins' \in SUBSET Universe[mode] /\ Follows' \in SUBSET Universe[mode]
    BY <1>1 DEF Begins, Follows
  <2>2. \A S \in SUBSET Universe[mode] : Cardinality(S) \in Nat /\ Cardinality(S) <= u
    BY ChancesCount, FS_Subset, FS_CardinalityType
  <2> QED
    BY <2>1, <2>2
<1>5. SUFFICES bought' + b1 + f1 <= (2 * (1 + faults')) * u
  BY <1>1, <1>4 DEF TranchesOk
<1>6. CASE faults' = faults
  <2>1. /\ Begins' \in SUBSET Begins /\ Follows' \in SUBSET Follows
        /\ \/ bought' = bought
           \/ bought' = bought + 1 /\ (Begins' # Begins \/ Follows' # Follows)
    BY <1>1, <1>6, NoChanceGained
  <2>2. /\ b1 <= b /\ (Begins' # Begins => b1 + 1 <= b)
        /\ f1 <= f /\ (Follows' # Follows => f1 + 1 <= f)
    BY <1>4, <2>1, ChancesCount, ProperSubset
  <2> HIDE DEF u, b, f
  <2>3. bought' + b1 + f1 <= bought + b + f
    BY <1>2, <2>1, <2>2
  <2>4. (2 * (1 + faults)) * u \in Nat
    BY <1>2
  <2> QED
    BY <1>2, <1>3, <1>6, <2>1, <2>3, <2>4
<1>7. CASE faults' # faults
  <2>1. faults' = faults + 1 /\ (bought' = bought \/ (bought' = bought + 1 /\ Follows # {}))
    BY <1>1, <1>7, FaultBuysOne
  <2>2. Follows # {} => f >= 1
    BY <1>2, ChancesCount, FS_EmptySet
  <2> HIDE DEF u, b, f
  <2>3. \A n \in Nat, k \in Nat : (2 * (1 + (n + 1))) * k = (2 * (1 + n)) * k + 2 * k /\ (2 * (1 + n)) * k \in Nat
    OBVIOUS
  <2>4. (2 * (1 + faults')) * u = (2 * (1 + faults)) * u + 2 * u /\ (2 * (1 + faults)) * u \in Nat
    BY <1>2, <2>1, <2>3
  <2> QED
    BY <1>2, <1>3, <1>4, <2>1, <2>2, <2>4
<1> QED
  BY <1>6, <1>7

\* For any universe, lots, fills, cancels and faults: a zone strategy buys the
\* two tranches of a symbol once a day, and once more for each fault.  What is
\* still to be bought is counted with what is bought: _scan_and_buy leaves out
\* what the ledger or the day's rows know, a second tranche is marked bought
\* when it is recorded (_execute_dca), and every sale leaves its row.
THEOREM BoughtOnceADayCorrect == Spec => []BoughtOnceADay
<1>1. Init => TypeInv /\ OneInv /\ TranchesOk
  <2> SUFFICES ASSUME Init PROVE TranchesOk
    BY InitType, OneInit
  <2>1. ComingOk
    BY DEF Init, ComingOk, HasEntry, Coming, Answered, Actors
  <2>2. bought = 0 /\ faults = 0
    BY DEF Init
  <2>3. TypeInv
    BY InitType
  <2> DEFINE u == Cardinality(Universe[mode])
             b == Cardinality(Begins)
             f == Cardinality(Follows)
  <2>4. u \in Nat /\ b \in Nat /\ f \in Nat /\ b <= u /\ f <= u
    BY <2>3, ChancesCount
  <2> HIDE DEF u, b, f
  <2>5. 0 + b + f <= (2 * (1 + 0)) * u
    BY <2>4
  <2> QED
    BY <2>1, <2>2, <2>5 DEF TranchesOk, u, b, f
<1>2. TypeInv /\ OneInv /\ TranchesOk /\ [Next]_vars => (TypeInv /\ OneInv /\ TranchesOk)'
  BY NextType, OneNext, TranchesNext
<1>3. TypeInv /\ TranchesOk => BoughtOnceADay
  <2> SUFFICES ASSUME TypeInv, TranchesOk, Zone
               PROVE  bought <= 2 * (1 + faults) * Cardinality(Universe[mode])
    BY DEF BoughtOnceADay
  <2> DEFINE u == Cardinality(Universe[mode])
             b == Cardinality(Begins)
             f == Cardinality(Follows)
  <2>1. u \in Nat /\ b \in Nat /\ f \in Nat /\ bought \in Nat /\ faults \in Nat
    BY ChancesCount, NumbersAssumption, SymbolTypes DEF TypeInv, TypeOK
  <2>2. bought + b + f <= (2 * (1 + faults)) * u
    BY DEF TranchesOk
  <2> HIDE DEF u, b, f
  <2>3. (2 * (1 + faults)) * u \in Nat
    BY <2>1
  <2>4. bought <= (2 * (1 + faults)) * u
    BY <2>1, <2>2, <2>3
  <2> QED
    BY <2>4 DEF u
<1> QED
  BY <1>1, <1>2, <1>3, PTL DEF Spec

(***************************************************************************)
(* The life of an entry                                                    *)
(***************************************************************************)

\* In one process, what is to be bought has no entry.
BuysNew ==
  ~Apart => \A a \in Actors :
    /\ \A i \in plan[a] : i.kind = "buy" => ~HasEntry(i.sym)
    /\ job[a] # None /\ job[a].kind = "buy" => ~HasEntry(job[a].sym)

Recording(s, kinds) ==
  \E a \in Actors : Record(a) /\ job[a].sym = s /\ job[a].kind \in kinds

\* In one process an entry has one life, although every write of the ledger is
\* of a copy loaded earlier (FILL-SYNC and peak upserts, daemon:944 and :958,
\* the partial upsert of supertrend_auto_trader.py:1051): it comes with the
\* record of a buy, never by the write-back of an entry that was removed
\* meanwhile; its partial_tp_done is not taken back, its bought tranche not
\* marked open again; and it goes with the record of a complete sell, or when
\* nothing is held or on its way.
EntriesLiveOnce ==
  [][~Apart => \A s \in Symbols :
       /\ ~HasEntry(s) /\ HasEntry(s)' => Recording(s, {"buy"})
       /\ HasEntry(s) /\ HasEntry(s)' => /\ book[s].partial => book'[s].partial
                                         /\ book'[s].rest => book[s].rest
       /\ HasEntry(s) /\ ~HasEntry(s)' => Net(s) = 0 \/ Recording(s, {"full", "carry"})]_vars

\* A buy is planned from the ledger as it is.
LEMMA BuysPlanned ==
  ASSUME TypeInv, [Next]_vars, NEW a \in Actors, NEW i \in plan'[a], i \notin plan[a], i.kind = "buy"
  PROVE  UNCHANGED ledgers /\ ~HasEntry(i.sym)
<1>1. ASSUME NEW b \in Actors, NEW new, plan' = [plan EXCEPT ![b] = new]
      PROVE  i \in new
  BY <1>1 DEF TypeInv, TypeOK
<1>2. CASE TraderLoads
  BY <1>1, <1>2, TraderLoadsShape DEF Actors
<1>3. CASE TraderScans
  BY <1>1, <1>3, TraderScansShape DEF Actors, Entries
<1>4. CASE Decide
  BY <1>1, <1>4, DecideShape DEF Actors
<1>5. CASE DaemonScans \/ LimitCarry \/ DaemonRests
  BY <1>1, <1>5, LaterShape DEF Actors
<1>6. CASE \/ UNCHANGED vars \/ BrokerStep \/ TraderEnds \/ ReadOpenOrders \/ ReadBalance
           \/ SyncPositions \/ LoadPositions \/ FillSync
  BY <1>6 DEF vars, cycles, BrokerStep, FillBuy, FillSell, Cancel, TraderEnds, ReadOpenOrders, ReadBalance,
     SyncPositions, LoadPositions, FillSync
<1>7. ASSUME NEW b \in Actors, \E k \in plan[b] : Skip(b, k) \/ Begin(b, k)
      PROVE  FALSE
  BY <1>7 DEF Skip, Begin, TypeInv, TypeOK
<1>8. ASSUME NEW b \in Actors, SendAccepted(b) \/ SendRefused(b) \/ SendLost(b)
      PROVE  FALSE
  BY <1>8, SentJob
<1>9. ASSUME NEW b \in Actors, Record(b)
      PROVE  FALSE
  BY <1>9, RecordStep
<1>10. ASSUME NEW b \in Actors, Crash(b)
       PROVE  FALSE
  BY <1>10, CrashStep
<1> QED
  BY <1>2, <1>3, <1>4, <1>5, <1>6, <1>7, <1>8, <1>9, <1>10, NextCases

\* In one process: where an entry comes from.
LEMMA EntryComes ==
  ASSUME TypeInv, OneInv, [Next]_vars, ~Apart, NEW s \in Symbols, ~HasEntry(s), HasEntry(s)'
  PROVE  Recording(s, {"buy"})
<1>1. PICK a \in Actors : Record(a) /\ job[a].sym = s /\ book'[s] = Recorded(a)
  BY EntryKept DEF OneInv, HasEntry
<1>2. job[a] # None /\ job[a].answered /\ job[a].kind \in Kinds /\ JobOk(a)
  BY <1>1, RecordStep DEF Job
<1>3. job[a].kind \in {"dca", "partial"} => snap[a][s] = None
  BY <1>1, <1>2 DEF OneInv, Fresh, FreshFor, HasEntry
<1>4. job[a].kind # "dca"
  BY <1>1, <1>2, <1>3 DEF JobOk, UsesEntry
<1>5. job[a].kind \notin {"partial", "full", "carry"}
  BY <1>1, <1>3 DEF Recorded, HasEntry
<1>6. job[a].kind = "buy"
  BY <1>2, <1>4, <1>5 DEF Kinds
<1> QED
  BY <1>1, <1>6 DEF Recording

\* In one process: how it changes.
LEMMA EntryStays ==
  ASSUME TypeInv, OneInv, BuysNew, [Next]_vars, ~Apart, NEW s \in Symbols, HasEntry(s), HasEntry(s)'
  PROVE  /\ book[s].partial => book'[s].partial
         /\ book'[s].rest => book[s].rest
<1>1. ASSUME NEW a \in Actors, Record(a), job[a].sym = s, book'[s] = Recorded(a)
      PROVE  /\ book[s].partial => book'[s].partial
             /\ book'[s].rest => book[s].rest
  <2>1. job[a] # None /\ job[a].kind \in Kinds
    BY <1>1, RecordStep DEF Job
  <2>2. job[a].kind # "buy"
    BY <1>1, <2>1 DEF BuysNew
  <2>3. job[a].kind \notin {"full", "carry"}
    BY <1>1 DEF Recorded, HasEntry
  <2>4. job[a].kind \in {"dca", "partial"}
    BY <2>1, <2>2, <2>3 DEF Kinds
  <2>5. snap[a][s] = book[s] /\ book[s] \in Entry /\ book[s] # None
    BY <1>1, <2>1, <2>4 DEF OneInv, Fresh, FreshFor, HasEntry, TypeInv, TypeOK
  <2>6. CASE job[a].kind = "dca"
    <3>1. book'[s] = [book[s] EXCEPT !.qty = book[s].qty + job[a].qty, !.rest = FALSE]
      BY <1>1, <2>5, <2>6 DEF Recorded, AfterDca
    <3> QED
      BY <2>5, <3>1 DEF Entry
  <2>7. CASE job[a].kind = "partial"
    <3>1. book'[s] = [book[s] EXCEPT !.partial = TRUE,
                                     !.total = IF a = "trader" THEN book[s].total - job[a].qty
                                                          ELSE book[s].total]
      BY <1>1, <2>5, <2>7 DEF Recorded, AfterPartial
    <3> QED
      BY <2>5, <3>1 DEF Entry
  <2> QED
    BY <2>4, <2>6, <2>7
<1>2. \/ book'[s] = book[s]
      \/ (book'[s].rest <=> book[s].rest) /\ (book'[s].partial <=> book[s].partial)
      \/ \E a \in Actors : Record(a) /\ job[a].sym = s /\ book'[s] = Recorded(a)
  BY EntryKept DEF OneInv, HasEntry
<1> QED
  BY <1>1, <1>2

\* In one process: where it goes.
LEMMA EntryGoes ==
  ASSUME TypeInv, OneInv, [Next]_vars, ~Apart, NEW s \in Symbols, HasEntry(s), ~HasEntry(s)'
  PROVE  Net(s) = 0 \/ Recording(s, {"full", "carry"})
<1>1. CASE SyncPositions
  BY <1>1, PurgedIsGone DEF OneInv, HasEntry
<1>2. ASSUME NEW a \in Actors, Record(a), job[a].sym = s, book'[s] = Recorded(a)
      PROVE  Recording(s, {"full", "carry"})
  <2>1. job[a] # None /\ job[a].answered /\ job[a].kind \in Kinds
    BY <1>2, RecordStep DEF Job
  <2>2. job[a].kind \notin {"buy", "dca"}
    BY <1>2, <2>1, RecordedEntry DEF Buys, HasEntry
  <2>3. job[a].kind # "partial"
    <3>1. job[a].kind = "partial" => snap[a][s] # None
      BY <1>2, <2>1 DEF OneInv, Fresh, FreshFor, HasEntry
    <3> QED
      BY <1>2, <2>1, <3>1, RecordedEntry DEF HasEntry
  <2>4. job[a].kind \in {"full", "carry"}
    BY <2>1, <2>2, <2>3 DEF Kinds
  <2> QED
    BY <1>2, <2>4 DEF Recording
<1> QED
  BY <1>1, <1>2, EntryKept DEF OneInv, HasEntry

LEMMA BuysNewNext ==
  ASSUME TypeInv, OneInv, BuysNew, [Next]_vars
  PROVE  BuysNew'
<1> SUFFICES ASSUME ~Apart, NEW a \in Actors
             PROVE  /\ \A i \in plan'[a] : i.kind = "buy" => ~HasEntry(i.sym)'
                    /\ job'[a] # None /\ job'[a].kind = "buy" => book'[job'[a].sym] = None
  BY ModeKept DEF BuysNew, Apart, HasEntry
<1>1. ASSUME NEW s \in Symbols, ~HasEntry(s), HasEntry(s)'
      PROVE  \E b \in Actors : Record(b) /\ job[b].sym = s /\ job[b].kind = "buy"
  BY <1>1, EntryComes DEF Recording
<1>2. ASSUME NEW b \in Actors, Record(b), job[b].kind = "buy"
      PROVE  /\ \A i \in plan'[a] : i.sym # job[b].sym
             /\ job'[a] = None
  <2>1. /\ job[b] # None /\ \A c \in Actors : job'[c] = IF c = b THEN None ELSE job[c]
        /\ \A c \in Actors : plan'[c] \subseteq plan[c]
    BY <1>2, RecordStep
  <2>2. CASE a = b
    BY <1>2, <2>1, <2>2 DEF OneInv, Unique
  <2>3. CASE a # b
    <3>1. plan[a] = {} /\ job[a] = None
      BY <2>1, <2>3, OneActor DEF Done
    <3> QED
      BY <2>1, <2>3, <3>1
  <2> QED
    BY <2>2, <2>3
<1>3. ASSUME NEW i \in plan'[a], i.kind = "buy"
      PROVE  ~HasEntry(i.sym)'
  <2>1. i.sym \in Symbols
    BY <1>3, NextType DEF TypeInv, TypeOK, Item
  <2>2. CASE i \in plan[a]
    <3>1. ~HasEntry(i.sym)
      BY <1>3, <2>2 DEF BuysNew
    <3> QED
      BY <1>1, <1>2, <1>3, <2>1, <3>1
  <2>3. CASE i \notin plan[a]
    BY <1>3, <2>3, BuysPlanned DEF HasEntry, ledgers
  <2> QED
    BY <2>2, <2>3
<1>4. ASSUME job'[a] # None, job'[a].kind = "buy"
      PROVE  book'[job'[a].sym] = None
  <2>1. PICK s : s = job'[a].sym
    OBVIOUS
  <2>2. s \in Symbols
    BY <1>4, <2>1, NextType DEF TypeInv, TypeOK, Job
  <2>3. ~HasEntry(s)
    <3>1. CASE job'[a] = job[a]
      BY <1>4, <2>1, <3>1 DEF BuysNew
    <3>2. CASE \E i \in plan[a] : job'[a].sym = i.sym /\ job'[a].kind = i.kind
      BY <1>4, <2>1, <3>2 DEF BuysNew
    <3>3. CASE SendAccepted(a) \/ SendRefused(a) \/ SendLost(a)
      BY <1>4, <2>1, <3>3, SentJob DEF Unanswered, BuysNew
    <3> QED
      BY <1>4, <3>1, <3>2, <3>3, JobCases
  <2>4. ~HasEntry(s)'
    BY <1>1, <1>2, <1>4, <2>2, <2>3
  <2> QED
    BY <2>1, <2>4 DEF HasEntry
<1> QED
  BY <1>3, <1>4

\* For any symbols, lots, fills and faults: where the trader runs inside the
\* daemon, or the zone strategies buy alone, stale copies neither bring back a
\* removed entry nor undo partial_tp_done or the second tranche, and only the
\* record of a complete sell (daemon _execute_sell, the trader's exits) or the
\* purge of what is sold out (_sync_positions) removes an entry.
THEOREM EntriesLiveOnceCorrect == Spec => EntriesLiveOnce
<1>1. Init => TypeInv /\ OneInv /\ BuysNew
  BY InitType, OneInit DEF Init, BuysNew
<1>2. TypeInv /\ OneInv /\ BuysNew /\ [Next]_vars => (TypeInv /\ OneInv /\ BuysNew)'
  BY NextType, OneNext, BuysNewNext
<1>3. TypeInv /\ OneInv /\ BuysNew /\ [Next]_vars =>
        [~Apart => \A s \in Symbols :
           /\ ~HasEntry(s) /\ HasEntry(s)' => Recording(s, {"buy"})
           /\ HasEntry(s) /\ HasEntry(s)' => /\ book[s].partial => book'[s].partial
                                             /\ book'[s].rest => book[s].rest
           /\ HasEntry(s) /\ ~HasEntry(s)' => Net(s) = 0 \/ Recording(s, {"full", "carry"})]_vars
  BY EntryComes, EntryStays, EntryGoes
<1> QED
  BY <1>1, <1>2, <1>3, PTL DEF Spec, EntriesLiveOnce
=============================================================================
