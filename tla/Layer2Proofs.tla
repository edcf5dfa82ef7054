---------------------------- MODULE Layer2Proofs ----------------------------
(***************************************************************************)
(* What layer-2 discovery observes, proved for every link: any neighbour   *)
(* tables, any packets in any order, any window and any polling slice.     *)
(***************************************************************************)
EXTENDS Layer2, DataFacts

Observation == [ip : Addresses, mac : Macs]

(* No address is observed twice. *)
Distinct(list) == \A i, j \in DOMAIN list : list[i].ip = list[j].ip => i = j

(* The observations of a list are all in a later one, at their places, and *)
(* what was known of them is kept.                                         *)
Grown(old, new) ==
  /\ Len(new) >= Len(old)
  /\ \A i \in DOMAIN old : /\ new[i].ip = old[i].ip
                           /\ old[i].mac # Empty => new[i].mac = old[i].mac

(* The address of o is in the list, resolved if o is. *)
Seen(list, o) ==
  \E i \in DOMAIN list : list[i].ip = o.ip /\ (o.mac # Empty => list[i].mac # Empty)

Resolved(list) == \A i \in DOMAIN list : list[i].mac # Empty

Interesting(list) == \A i \in DOMAIN list : ~ is_uninteresting_address(list[i].ip)

-----------------------------------------------------------------------------
(* Growing is transitive, and what is seen stays seen. *)
LEMMA GrownTrans ==
  ASSUME NEW a \in Seq(Observation), NEW b \in Seq(Observation), NEW c \in Seq(Observation),
         Grown(a, b), Grown(b, c)
  PROVE  Grown(a, c) /\ \A o : Seen(b, o) => Seen(c, o)
<1>1. DOMAIN a \subseteq DOMAIN b /\ DOMAIN b \subseteq DOMAIN c
  BY DEF Grown
<1>2. Grown(a, c)
  BY <1>1 DEF Grown
<1>3. ASSUME NEW o, Seen(b, o) PROVE Seen(c, o)
  <2>1. PICK i \in DOMAIN b : b[i].ip = o.ip /\ (o.mac # Empty => b[i].mac # Empty)
    BY <1>3 DEF Seen
  <2> QED BY <1>1, <2>1 DEF Seen, Grown
<1> QED BY <1>2, <1>3

(* What becomes of a list without duplicates when o is added: it stays     *)
(* one, grows, and holds o if its address is of interest; nothing else     *)
(* comes in.                                                               *)
Added(list, o, r) ==
  /\ r \in Seq(Observation) /\ Distinct(r) /\ Interesting(r)
  /\ Grown(list, r)
  /\ ~ is_uninteresting_address(o.ip) => Seen(r, o)
  /\ \A i \in DOMAIN r : \/ r[i].ip = o.ip
                         \/ \E j \in DOMAIN list : list[j].ip = r[i].ip
  /\ Resolved(list) /\ o.mac # Empty => Resolved(r)

(* add_observation() does that. *)
LEMMA AddFacts ==
  ASSUME NEW list \in Seq(Observation), Distinct(list), Interesting(list), NEW o \in Observation,
         NEW r, r = add_observation(list, o)
  PROVE  Added(list, o, r)
<1> USE DEF Added
<1> DEFINE known == {i \in DOMAIN list : list[i].ip = o.ip}
<1>0. list \in Seq(Observation) /\ DOMAIN list = 1 .. Len(list) /\ Grown(list, list)
  BY DEF Grown
<1>1. CASE is_uninteresting_address(o.ip)
  <2>1. r = list
    BY <1>1, Zenon DEF add_observation
  <2> QED BY <1>0, <1>1, <2>1
<1>2. CASE ~ is_uninteresting_address(o.ip) /\ known = {}
  <2>1. r = Append(list, o)
    BY <1>2, Zenon DEF add_observation
  <2>2. /\ r \in Seq(Observation) /\ Len(r) = Len(list) + 1 /\ DOMAIN r = 1 .. Len(list) + 1
        /\ r[Len(list) + 1] = o
        /\ \A i \in 1 .. Len(list) : r[i] = list[i]
    BY <2>1
  <2>3. \A i \in 1 .. Len(list) : list[i].ip # o.ip
    BY <1>2
  <2>4. \A i \in DOMAIN r : i = Len(list) + 1 \/ i \in 1 .. Len(list)
    BY <2>2
  <2> HIDE DEF known
  <2>5. Distinct(r)
    BY <1>0, <2>2, <2>3, <2>4 DEF Distinct
  <2>6. Interesting(r) /\ Grown(list, r) /\ (Resolved(list) /\ o.mac # Empty => Resolved(r))
    BY <1>0, <1>2, <2>2, <2>4 DEF Interesting, Grown, Resolved
  <2>7. Len(list) + 1 \in DOMAIN r
    BY <2>2
  <2>8. Seen(r, o)
    BY <2>2, <2>7, Zenon DEF Seen
  <2> QED BY <1>0, <2>2, <2>4, <2>5, <2>6, <2>8
<1>3. CASE ~ is_uninteresting_address(o.ip) /\ known # {}
  <2>1. PICK m : m = Min(known)
    OBVIOUS
  <2>2. known \subseteq Nat
    OBVIOUS
  <2>3. m \in known
    <3> HIDE DEF known
    <3> QED BY <1>3, <2>1, <2>2, MinFacts
  <2>4. m \in 1 .. Len(list) /\ list[m].ip = o.ip
    BY <2>3
  <2>5. r = IF list[m].mac = Empty THEN [list EXCEPT ![m].mac = o.mac] ELSE list
    BY <1>3, <2>1, Zenon DEF add_observation
  <2> HIDE DEF known
  <2>6. CASE list[m].mac = Empty
    <3>1. r = [list EXCEPT ![m].mac = o.mac]
      BY <2>5, <2>6
    <3>2. list[m] \in Observation
      BY <2>4
    <3>3. [list[m] EXCEPT !.mac = o.mac] = o
      BY <2>4, <3>2 DEF Observation
    <3>4. r = [list EXCEPT ![m] = o]
      BY <3>1, <3>3
    <3>5. /\ r \in Seq(Observation) /\ Len(r) = Len(list) /\ DOMAIN r = 1 .. Len(list)
          /\ r[m] = o
          /\ \A i \in 1 .. Len(list) : r[i].ip = list[i].ip /\ (i # m => r[i] = list[i])
      BY <2>4, <3>4
    <3>6. Distinct(r) /\ Interesting(r) /\ Grown(list, r)
          /\ (Resolved(list) /\ o.mac # Empty => Resolved(r))
      BY <1>0, <2>4, <2>6, <3>5 DEF Distinct, Interesting, Grown, Resolved
    <3>7. Seen(r, o)
      BY <2>4, <3>5 DEF Seen
    <3> QED BY <1>0, <3>5, <3>6, <3>7
  <2>7. CASE list[m].mac # Empty
    <3>1. r = list
      BY <2>5, <2>7
    <3>2. Seen(r, o)
      BY <1>0, <2>4, <2>7, <3>1, Zenon DEF Seen
    <3> QED BY <1>0, <3>1, <3>2
  <2> QED BY <2>6, <2>7
<1> QED BY <1>1, <1>2, <1>3

-----------------------------------------------------------------------------
(* What a pass over position k makes of the list so far. *)
Pass(list, seen, kept, k) ==
  IF k \in kept THEN add_observation(list, [ip |-> seen[k].ip, mac |-> seen[k].mac])
                ELSE list

(* The loop of AddAll() as a function of the number of passes. *)
Passes(f, list, seen, kept, n) ==
  f = [k \in 0 .. n |-> IF k = 0 THEN list
                        ELSE IF k \in kept
                          THEN add_observation(f[k - 1], [ip |-> seen[k].ip, mac |-> seen[k].mac])
                        ELSE f[k - 1]]

(* The recursion of AddAll() has a solution, for any number of passes. *)
LEMMA PassesExist ==
  ASSUME NEW list, NEW seen, NEW kept, NEW n \in Nat
  PROVE  \E f : Passes(f, list, seen, kept, n)
<1> DEFINE T == {m \in Nat : ~ \E f : Passes(f, list, seen, kept, m)}
<1>1. T \subseteq Nat
  OBVIOUS
<1>2. SUFFICES ASSUME T # {} PROVE FALSE
  OBVIOUS
<1>3. PICK m \in T : \A y \in T : m <= y
  <2> HIDE DEF T
  <2> QED BY <1>1, <1>2, LeastNat
<1>4. m \in Nat /\ ~ \E f : Passes(f, list, seen, kept, m)
  BY <1>3
<1>5. CASE m = 0
  <2>1. PICK f : f = [k \in 0 .. 0 |-> list]
    OBVIOUS
  <2>2. Passes(f, list, seen, kept, 0)
    BY <2>1 DEF Passes
  <2> QED BY <1>4, <1>5, <2>2
<1>6. CASE m # 0
  <2>1. m - 1 \in Nat /\ m - 1 \notin T
    BY <1>3, <1>4, <1>6
  <2>2. PICK g : Passes(g, list, seen, kept, m - 1)
    BY <2>1
  <2>3. \A k \in 0 .. m - 1 : g[k] = IF k = 0 THEN list ELSE Pass(g[k - 1], seen, kept, k)
    BY <2>2 DEF Passes, Pass
  <2>4. PICK h : h = [k \in 0 .. m |-> IF k = m THEN Pass(g[m - 1], seen, kept, m) ELSE g[k]]
    OBVIOUS
  <2>5. h[m] = Pass(g[m - 1], seen, kept, m) /\ \A k \in 0 .. m - 1 : h[k] = g[k]
    BY <1>4, <1>6, <2>4
  <2>6. \A k \in 0 .. m : h[k] = IF k = 0 THEN list ELSE Pass(h[k - 1], seen, kept, k)
    <3> SUFFICES ASSUME NEW k \in 0 .. m
                 PROVE  h[k] = IF k = 0 THEN list ELSE Pass(h[k - 1], seen, kept, k)
      OBVIOUS
    <3>1. CASE k = m
      <4>1. m - 1 \in 0 .. m - 1
        BY <1>4, <1>6
      <4> QED BY <1>6, <2>5, <3>1, <4>1
    <3>2. CASE k = 0
      BY <1>4, <1>6, <2>3, <2>5, <3>2
    <3>3. CASE k # m /\ k # 0
      <4>1. k \in 0 .. m - 1 /\ k - 1 \in 0 .. m - 1
        BY <1>4, <3>3
      <4> QED BY <2>3, <2>5, <3>3, <4>1
    <3> QED BY <3>1, <3>2, <3>3
  <2>7. h = [k \in 0 .. m |-> IF k = 0 THEN list ELSE Pass(h[k - 1], seen, kept, k)]
    BY <2>4, <2>6
  <2>8. Passes(h, list, seen, kept, m)
    BY <2>7, Zenon DEF Passes, Pass
  <2> QED BY <1>4, <2>8
<1> QED BY <1>5, <1>6

(* AddAll() is the list after its last pass. *)
LEMMA AddAllIsLoop ==
  ASSUME NEW list, NEW seen, NEW kept, Len(seen) \in Nat
  PROVE  \E f : /\ f[0] = list
                /\ \A k \in 1 .. Len(seen) : f[k] = Pass(f[k - 1], seen, kept, k)
                /\ AddAll(list, seen, kept) = f[Len(seen)]
<1>1. \E f : Passes(f, list, seen, kept, Len(seen))
  BY PassesExist
<1>2. PICK f : f = CHOOSE g : Passes(g, list, seen, kept, Len(seen))
  OBVIOUS
<1>3. Passes(f, list, seen, kept, Len(seen))
  BY <1>1, <1>2, Zenon
<1>4. AddAll(list, seen, kept) = f[Len(seen)]
  BY <1>2, Zenon DEF AddAll, Passes
<1>5. f[0] = list /\ \A k \in 1 .. Len(seen) : f[k] = Pass(f[k - 1], seen, kept, k)
  <2>1. f[0] = list
    BY <1>3 DEF Passes
  <2>2. ASSUME NEW k \in 1 .. Len(seen) PROVE f[k] = Pass(f[k - 1], seen, kept, k)
    <3>1. k \in 0 .. Len(seen) /\ k # 0
      OBVIOUS
    <3> QED BY <1>3, <3>1 DEF Passes, Pass
  <2> QED BY <2>1, <2>2
<1> QED BY <1>4, <1>5

(* What a loop over kept positions does to a list: AddFacts, for them all. *)
LEMMA AddAllFacts ==
  ASSUME NEW list \in Seq(Observation), Distinct(list), Interesting(list),
         NEW seen, Len(seen) \in Nat, NEW kept \in SUBSET (1 .. Len(seen)),
         \A k \in kept : seen[k].ip \in Addresses /\ seen[k].mac \in Macs,
         NEW r, r = AddAll(list, seen, kept)
  PROVE  /\ r \in Seq(Observation) /\ Distinct(r) /\ Interesting(r)
         /\ Grown(list, r)
         /\ \A k \in kept : ~ is_uninteresting_address(seen[k].ip) =>
              Seen(r, [ip |-> seen[k].ip, mac |-> seen[k].mac])
         /\ \A i \in DOMAIN r : \/ \E k \in kept : r[i].ip = seen[k].ip
                                \/ \E j \in DOMAIN list : list[j].ip = r[i].ip
         /\ Resolved(list) /\ (\A k \in kept : seen[k].mac # Empty) => Resolved(r)
<1>1. PICK f : /\ f[0] = list
               /\ \A k \in 1 .. Len(seen) : f[k] = Pass(f[k - 1], seen, kept, k)
               /\ r = f[Len(seen)]
  BY AddAllIsLoop
<1> DEFINE Obs(k) == [ip |-> seen[k].ip, mac |-> seen[k].mac]
           Good(n) ==
             /\ f[n] \in Seq(Observation) /\ Distinct(f[n]) /\ Interesting(f[n])
             /\ Grown(list, f[n])
             /\ \A k \in kept : k <= n /\ ~ is_uninteresting_address(seen[k].ip) => Seen(f[n], Obs(k))
             /\ \A i \in DOMAIN f[n] : \/ \E k \in kept : f[n][i].ip = seen[k].ip
                                       \/ \E j \in DOMAIN list : list[j].ip = f[n][i].ip
             /\ Resolved(list) /\ (\A k \in kept : seen[k].mac # Empty) => Resolved(f[n])
           Bad == {n \in 0 .. Len(seen) : ~ Good(n)}
<1>2. Good(0)
  <2>1. Grown(list, list)
    BY DEF Grown
  <2> QED BY <1>1, <2>1
<1>3. ASSUME NEW n \in 1 .. Len(seen), Good(n - 1) PROVE Good(n)
  <2>1. CASE n \notin kept
    <3>1. f[n] = f[n - 1]
      BY <1>1, <2>1 DEF Pass
    <3>2. \A k \in kept : k <= n => k <= n - 1
      BY <2>1
    <3> HIDE DEF Obs
    <3> QED BY <1>3, <3>1, <3>2
  <2>2. CASE n \in kept
    <3>0. Obs(n) \in Observation /\ Obs(n).ip = seen[n].ip /\ Obs(n).mac = seen[n].mac
      BY <2>2 DEF Observation
    <3>1. f[n] = add_observation(f[n - 1], Obs(n))
      BY <1>1, <2>2 DEF Pass
    <3> HIDE DEF Obs
    <3>2. /\ f[n - 1] \in Seq(Observation) /\ Distinct(f[n - 1]) /\ Interesting(f[n - 1])
      BY <1>3
    <3>3. /\ f[n] \in Seq(Observation) /\ Distinct(f[n]) /\ Interesting(f[n])
          /\ Grown(f[n - 1], f[n])
          /\ ~ is_uninteresting_address(seen[n].ip) => Seen(f[n], Obs(n))
          /\ \A i \in DOMAIN f[n] : \/ f[n][i].ip = seen[n].ip
                                    \/ \E j \in DOMAIN f[n - 1] : f[n - 1][j].ip = f[n][i].ip
          /\ Resolved(f[n - 1]) /\ seen[n].mac # Empty => Resolved(f[n])
      <4>1. PICK p, q, o : p = f[n - 1] /\ q = f[n] /\ o = Obs(n)
        OBVIOUS
      <4>2. /\ p \in Seq(Observation) /\ Distinct(p) /\ Interesting(p)
            /\ o \in Observation /\ q = add_observation(p, o)
        BY <3>0, <3>1, <3>2, <4>1
      <4>3. Added(p, o, q)
        BY <4>2, AddFacts
      <4> QED BY <3>0, <4>1, <4>3 DEF Added
    <3>4. Grown(list, f[n]) /\ \A o : Seen(f[n - 1], o) => Seen(f[n], o)
      BY <1>3, <3>2, <3>3, GrownTrans
    <3>5. ASSUME NEW k \in kept, k <= n, ~ is_uninteresting_address(seen[k].ip)
          PROVE  Seen(f[n], Obs(k))
      <4>1. CASE k = n
        BY <3>3, <3>5, <4>1
      <4>2. CASE k # n
        <5>1. k <= n - 1
          BY <3>5, <4>2
        <5> QED BY <1>3, <3>4, <3>5, <5>1
      <4> QED BY <4>1, <4>2
    <3>6. ASSUME NEW i \in DOMAIN f[n]
          PROVE  \/ \E k \in kept : f[n][i].ip = seen[k].ip
                 \/ \E j \in DOMAIN list : list[j].ip = f[n][i].ip
      BY <1>3, <2>2, <3>3, <3>6, SMTT(20)
    <3>7. Resolved(list) /\ (\A k \in kept : seen[k].mac # Empty) => Resolved(f[n])
      BY <1>3, <2>2, <3>3
    <3> QED BY <3>3, <3>4, <3>5, <3>6, <3>7
  <2> QED BY <2>1, <2>2
<1>4. Bad = {}
  <2> HIDE DEF Good
  <2>1. SUFFICES ASSUME Bad # {} PROVE FALSE
    OBVIOUS
  <2>2. Bad \subseteq Nat
    OBVIOUS
  <2>3. PICK n \in Bad : \A y \in Bad : n <= y
    <3> HIDE DEF Bad
    <3> QED BY <2>1, <2>2, LeastNat
  <2>4. n \in 0 .. Len(seen) /\ ~ Good(n) /\ n # 0
    BY <1>2, <2>3
  <2>5. n \in 1 .. Len(seen) /\ n - 1 \in 0 .. Len(seen) /\ n - 1 \notin Bad
    BY <2>3, <2>4
  <2>6. Good(n - 1)
    BY <2>5
  <2> QED BY <1>3, <2>4, <2>5, <2>6
<1>5. Good(Len(seen))
  <2> HIDE DEF Good
  <2>1. Len(seen) \in 0 .. Len(seen)
    OBVIOUS
  <2> QED BY <1>4, <2>1
<1>6. \A k \in kept : k <= Len(seen)
  OBVIOUS
<1> QED BY <1>1, <1>5, <1>6

-----------------------------------------------------------------------------
(* What select_neighbour_entries() makes of a table: stations without      *)
(* duplicates, all of interest and all resolved.                           *)
LEMMA SelectFacts ==
  ASSUME NEW table \in Tables, NEW seen, seen = select_neighbour_entries(table)
  PROVE  seen \in Seq(Observation) /\ Interesting(seen) /\ Resolved(seen)
<1>1. table \in Seq(Rows)
  BY LinkAssumption
<1>2. PICK kept : kept = {k \in DOMAIN table : /\ table[k].if_index = if_index
                                               /\ table[k].reachable
                                               /\ table[k].mac # Empty}
  OBVIOUS
<1>3. /\ Len(table) \in Nat /\ kept \in SUBSET (1 .. Len(table))
      /\ \A k \in kept : table[k] \in Rows /\ table[k].mac # Empty
  BY <1>1, <1>2
<1>4. \A k \in kept : table[k].ip \in Addresses /\ table[k].mac \in Macs
  BY <1>3, LinkAssumption DEF Macs
<1>5. PICK none : none = <<>>
  OBVIOUS
<1>6. none \in Seq(Observation) /\ Distinct(none) /\ Interesting(none) /\ Resolved(none)
  BY <1>5 DEF Distinct, Interesting, Resolved
<1>7. seen = AddAll(none, table, kept)
  BY <1>2, <1>5, Zenon DEF select_neighbour_entries
<1> QED BY <1>3, <1>4, <1>6, <1>7, AddAllFacts

(* The stations of the list, without the PC itself. *)
Stations(list) ==
  /\ list \in Seq(Observation) /\ Distinct(list) /\ Interesting(list)
  /\ \A i \in DOMAIN list : list[i].ip # "own"

(* Each station the table resolves is in the list, resolved. *)
Covers(list, table) ==
  \A o \in Range(select_neighbour_entries(table)) :
    o.ip # "own" => \E s \in Range(list) : s.ip = o.ip /\ s.mac # Empty

(* What a reading of the cache does to the observations. *)
LEMMA MergeFacts ==
  ASSUME NEW list, Stations(list), NEW table \in Tables, NEW r, r = MergeCache(list, table)
  PROVE  Stations(r) /\ Grown(list, r) /\ Covers(r, table)
<1>1. PICK seen : seen = select_neighbour_entries(table)
  OBVIOUS
<1>2. seen \in Seq(Observation) /\ Interesting(seen) /\ Resolved(seen)
  BY <1>1, SelectFacts
<1>3. PICK kept : kept = {k \in DOMAIN seen : seen[k].ip # "own"}
  OBVIOUS
<1>4. r = AddAll(list, seen, kept)
  BY <1>1, <1>3, Zenon DEF MergeCache
<1>5. /\ Len(seen) \in Nat /\ kept \in SUBSET (1 .. Len(seen))
      /\ \A k \in kept : seen[k].ip \in Addresses /\ seen[k].mac \in Macs /\ seen[k].ip # "own"
  <2>1. DOMAIN seen = 1 .. Len(seen) /\ \A k \in DOMAIN seen : seen[k] \in Observation
    BY <1>2
  <2>2. \A o \in Observation : o.ip \in Addresses /\ o.mac \in Macs
    BY DEF Observation
  <2> QED BY <1>2, <1>3, <2>1, <2>2
<1>6. /\ r \in Seq(Observation) /\ Distinct(r) /\ Interesting(r)
      /\ Grown(list, r)
      /\ \A k \in kept : ~ is_uninteresting_address(seen[k].ip) =>
           Seen(r, [ip |-> seen[k].ip, mac |-> seen[k].mac])
      /\ \A i \in DOMAIN r : \/ \E k \in kept : r[i].ip = seen[k].ip
                             \/ \E j \in DOMAIN list : list[j].ip = r[i].ip
  BY <1>4, <1>5, AddAllFacts DEF Stations
<1>7. \A i \in DOMAIN r : r[i].ip # "own"
  BY <1>5, <1>6 DEF Stations
<1>8. ASSUME NEW o \in Range(seen), o.ip # "own"
      PROVE  \E s \in Range(r) : s.ip = o.ip /\ s.mac # Empty
  <2>1. PICK k \in DOMAIN seen : o = seen[k]
    BY <1>8 DEF Range
  <2>2. k \in kept /\ ~ is_uninteresting_address(seen[k].ip) /\ seen[k].mac # Empty
    BY <1>2, <1>3, <1>8, <2>1 DEF Interesting, Resolved
  <2>3. PICK i \in DOMAIN r : r[i].ip = seen[k].ip /\ r[i].mac # Empty
    BY <1>6, <2>2 DEF Seen
  <2> QED BY <2>1, <2>3 DEF Range
<1>9. Covers(r, table)
  BY <1>1, <1>8, Zenon DEF Covers
<1> QED BY <1>6, <1>7, <1>9 DEF Stations

-----------------------------------------------------------------------------
(* While the loop runs, its poll ends in the window. *)
WindowInv == at = "capture" => clock <= poll_until /\ poll_until <= deadline

(* The capture is refused between the two readings, and says so. *)
RefusalInv ==
  /\ at \in {"first_read", "open", "capture"} => ~ permission_denied
  /\ at = "second_read" /\ permission_denied => error = "no_capture"

(* Nothing is observed before the first reading. *)
EmptyInv == at = "first_read" => Len(observations) = 0 /\ DOMAIN observations = {}

(* The inductive invariant: types, what the list of observations holds,    *)
(* and what remains to be said of it, of the window and of a refusal when  *)
(* the function returns.                                                   *)
Layer2Inv ==
  /\ TypeOK
  /\ Stations(observations)
  /\ EmptyInv
  /\ WindowInv
  /\ RefusalInv
  /\ RefusalReported
  /\ ResolvedAtTheEnd

(* The end of a poll lies between now and the end of the window. *)
LEMMA PollFacts ==
  ASSUME clock \in Nat, NEW until \in Nat, clock <= until
  PROVE  /\ PollUntil(until) \in Nat
         /\ clock <= PollUntil(until) /\ PollUntil(until) <= until
<1>1. PICK S : S = {until - clock, kCapturePollSlice}
  OBVIOUS
<1>2. S \subseteq Nat /\ S # {}
  BY <1>1, WindowAssumption
<1>3. Min(S) \in S /\ \A y \in S : Min(S) <= y
  BY <1>2, MinFacts
<1>4. Min(S) \in Nat /\ Min(S) <= until - clock
  BY <1>1, <1>2, <1>3
<1>5. PollUntil(until) = clock + Min(S)
  BY <1>1, Zenon DEF PollUntil
<1> QED BY <1>4, <1>5

(* Init establishes the invariant. *)
LEMMA Layer2InitInv == Init => Layer2Inv
<1> SUFFICES ASSUME Init PROVE Layer2Inv
  OBVIOUS
<1>1. TypeOK
  <2>1. at \in {"first_read", "open", "capture", "second_read", "done"}
    BY Zenon DEF Init
  <2>2. {clock, deadline, poll_until} \subseteq Nat
    BY DEF Init
  <2>3. socket_open \in BOOLEAN /\ (socket_open <=> at = "capture") /\ permission_denied \in BOOLEAN
    BY DEF Init
  <2>4. observations \in Seq([ip : Addresses, mac : Macs])
    BY DEF Init
  <2>5. error \in {Empty, "no_capture", "no_station"} /\ last_table \in Tables \cup {<<>>}
    BY Zenon DEF Init
  <2> QED BY <2>1, <2>2, <2>3, <2>4, <2>5, Zenon DEF TypeOK
<1>2. Stations(observations)
  <2>1. observations \in Seq(Observation) /\ DOMAIN observations = {}
    BY DEF Init
  <2> QED BY <2>1, Zenon DEF Stations, Distinct, Interesting
<1>3. EmptyInv /\ WindowInv /\ RefusalInv /\ RefusalReported /\ ResolvedAtTheEnd
  BY DEF Init, EmptyInv, WindowInv, RefusalInv, RefusalReported, ResolvedAtTheEnd
<1> QED BY <1>1, <1>2, <1>3 DEF Layer2Inv

(* A list has grown from itself. *)
LEMMA GrownSame == ASSUME NEW list \in Seq(Observation) PROVE Grown(list, list)
BY DEF Grown

(* The top of the loop leaves it at the deadline and otherwise polls again *)
(* within the window.                                                      *)
LEMMA LoopTopFacts ==
  ASSUME TypeOK, WindowInv, at = "capture", LoopTop
  PROVE  /\ at' \in {"capture", "second_read"}
         /\ socket_open' \in BOOLEAN /\ (socket_open' <=> at' = "capture")
         /\ poll_until' \in Nat
         /\ at' = "capture" => clock <= poll_until' /\ poll_until' <= deadline
<1>1. {clock, deadline, poll_until} \subseteq Nat /\ socket_open = TRUE
  BY Zenon DEF TypeOK
<1>2. clock \in Nat /\ deadline \in Nat /\ poll_until \in Nat
  BY <1>1
<1>3. CASE clock >= deadline
  <2>1. at' = "second_read" /\ socket_open' = FALSE /\ poll_until' = poll_until
    BY <1>3, Zenon DEF LoopTop
  <2> QED BY <1>2, <2>1
<1>4. CASE ~(clock >= deadline)
  <2>1. poll_until' = PollUntil(deadline) /\ at' = at /\ socket_open' = socket_open
    BY <1>4, Zenon DEF LoopTop
  <2>2. clock <= deadline
    BY <1>2, <1>4
  <2>3. PollUntil(deadline) \in Nat /\ clock <= PollUntil(deadline) /\ PollUntil(deadline) <= deadline
    BY <1>2, <2>2, PollFacts
  <2> QED BY <1>1, <2>1, <2>3
<1> QED BY <1>3, <1>4

(* A packet adds its source, which is not the PC, or nothing. *)
LEMMA PacketFacts ==
  ASSUME Stations(observations), CapturePacket
  PROVE  Stations(observations') /\ Grown(observations, observations')
<1>0. observations \in Seq(Observation)
  BY DEF Stations
<1>1. CASE observations' = observations
  BY <1>0, <1>1, GrownSame
<1>2. CASE \E packet \in Packets :
             LET source == parse_ipv4_source_address(packet)
             IN  observations' = IF source \in {Empty, "own"} THEN observations
                                 ELSE add_observation(observations, [ip |-> source, mac |-> Empty])
  <2>1. PICK packet \in Packets :
               observations' = IF parse_ipv4_source_address(packet) \in {Empty, "own"}
                               THEN observations
                               ELSE add_observation(observations,
                                      [ip |-> parse_ipv4_source_address(packet), mac |-> Empty])
    BY <1>2
  <2>2. PICK source : source = parse_ipv4_source_address(packet)
    OBVIOUS
  <2>3. source = Empty \/ source = packet.source
    BY <2>2, Zenon DEF parse_ipv4_source_address
  <2>4. source \in Addresses
    BY <2>3, LinkAssumption DEF Addresses
  <2>5. PICK o : o = [ip |-> source, mac |-> Empty]
    OBVIOUS
  <2>6. o \in Observation /\ o.ip = source
    BY <2>4, <2>5 DEF Observation, Macs
  <2>7. CASE source \in {Empty, "own"}
    <3>1. observations' = observations
      BY <2>1, <2>2, <2>7
    <3> QED BY <1>1, <3>1
  <2>8. CASE source \notin {Empty, "own"}
    <3>1. observations' = add_observation(observations, o)
      BY <2>1, <2>2, <2>5, <2>8
    <3>2. Distinct(observations) /\ Interesting(observations)
      BY DEF Stations
    <3>3. Added(observations, o, observations')
      BY <1>0, <2>6, <3>1, <3>2, AddFacts
    <3>4. \A i \in DOMAIN observations' : observations'[i].ip # "own"
      BY <2>6, <2>8, <3>3 DEF Added, Stations
    <3> QED BY <3>3, <3>4 DEF Added, Stations
  <2> QED BY <2>7, <2>8
<1> QED BY <1>1, <1>2 DEF CapturePacket

-----------------------------------------------------------------------------
(* No step loses, duplicates or overwrites an observation. *)
LEMMA ListStep ==
  ASSUME Layer2Inv, [Next]_vars
  PROVE  Stations(observations') /\ Grown(observations, observations')
<1>0. Stations(observations) /\ observations \in Seq(Observation)
  BY DEF Layer2Inv, Stations
<1>1. CASE observations' = observations
  BY <1>0, <1>1, GrownSame
<1>2. CASE FirstRead
  <2>1. PICK table \in Tables : observations' = MergeCache(<<>>, table)
    BY <1>2 DEF FirstRead
  <2>2. Stations(<<>>)
    <3>1. PICK none : none = <<>>
      OBVIOUS
    <3>2. none \in Seq(Observation) /\ DOMAIN none = {}
      BY <3>1
    <3>3. Stations(none)
      BY <3>2, Zenon DEF Stations, Distinct, Interesting
    <3> QED BY <3>1, <3>3
  <2>3. Stations(observations')
    BY <2>1, <2>2, MergeFacts
  <2>4. Len(observations) = 0 /\ DOMAIN observations = {}
    BY <1>2 DEF FirstRead, Layer2Inv, EmptyInv
  <2>5. Len(observations') \in Nat
    BY <2>3 DEF Stations
  <2>6. Grown(observations, observations')
    BY <2>4, <2>5 DEF Grown
  <2> QED BY <2>3, <2>6
<1>3. CASE SecondRead
  <2>1. PICK table \in Tables : observations' = MergeCache(observations, table)
    BY <1>3 DEF SecondRead
  <2> QED BY <1>0, <2>1, MergeFacts
<1>4. CASE CapturePacket
  BY <1>0, <1>4, PacketFacts
<1>5. CASE CaptureRefused \/ CaptureOpened \/ NothingCaptured \/ CaptureBreaks \/ Tick
  <2>1. observations' = observations
    BY <1>5 DEF CaptureRefused, CaptureOpened, NothingCaptured, CaptureBreaks, Tick
  <2> QED BY <1>1, <2>1
<1>6. CASE UNCHANGED vars
  BY <1>1, <1>6 DEF vars
<1> QED BY <1>1, <1>2, <1>3, <1>4, <1>5, <1>6 DEF Next

(* The steps before the capture, and the refusal of the capture. *)
LEMMA OpeningStep ==
  ASSUME Layer2Inv, Stations(observations'), FirstRead \/ CaptureRefused \/ CaptureOpened
  PROVE  Layer2Inv'
<1> USE DEF Layer2Inv
<1>0. /\ {clock, deadline, poll_until} \subseteq Nat /\ ~ socket_open
      /\ permission_denied \in BOOLEAN /\ last_table \in Tables \cup {<<>>}
      /\ error \in {Empty, "no_capture", "no_station"}
  BY Zenon DEF TypeOK, FirstRead, CaptureRefused, CaptureOpened
<1>1. observations' \in Seq([ip : Addresses, mac : Macs])
  BY DEF Stations, Observation
<1>2. CASE FirstRead
  <2>1. /\ at = "first_read" /\ at' = "open"
        /\ UNCHANGED <<clock, deadline, poll_until, socket_open, permission_denied, error, last_table>>
    BY <1>2 DEF FirstRead
  <2>2. TypeOK'
    BY <1>0, <1>1, <2>1, Zenon DEF TypeOK
  <2>3. EmptyInv' /\ WindowInv' /\ RefusalInv' /\ RefusalReported' /\ ResolvedAtTheEnd'
    BY <2>1, Zenon DEF EmptyInv, WindowInv, RefusalInv, RefusalReported, ResolvedAtTheEnd
  <2> QED BY <2>2, <2>3
<1>3. CASE CaptureRefused
  <2>1. /\ at' = "second_read" /\ permission_denied' \in BOOLEAN /\ error' = "no_capture"
        /\ UNCHANGED <<clock, deadline, poll_until, socket_open, observations, last_table>>
    BY <1>3 DEF CaptureRefused
  <2>2. TypeOK'
    BY <1>0, <1>1, <2>1, Zenon DEF TypeOK
  <2>3. EmptyInv' /\ WindowInv' /\ RefusalInv' /\ RefusalReported' /\ ResolvedAtTheEnd'
    BY <2>1, Zenon DEF EmptyInv, WindowInv, RefusalInv, RefusalReported, ResolvedAtTheEnd
  <2> QED BY <2>2, <2>3
<1>4. CASE CaptureOpened
  <2>1. /\ at = "open" /\ at' = "capture" /\ socket_open' = TRUE
        /\ deadline' = clock + listen_window
        /\ poll_until' = PollUntil(clock + listen_window)
        /\ UNCHANGED <<clock, observations, permission_denied, error, last_table>>
    BY <1>4 DEF CaptureOpened
  <2>2. clock \in Nat /\ clock + listen_window \in Nat /\ clock <= clock + listen_window
    BY <1>0, WindowAssumption
  <2>3. poll_until' \in Nat /\ clock' <= poll_until' /\ poll_until' <= deadline'
    BY <2>1, <2>2, PollFacts
  <2>4. {clock', deadline', poll_until'} \subseteq Nat
    BY <2>1, <2>2, <2>3
  <2>5. TypeOK'
    BY <1>0, <1>1, <2>1, <2>4, Zenon DEF TypeOK
  <2>6. WindowInv'
    BY <2>3, Zenon DEF WindowInv
  <2>7. EmptyInv' /\ RefusalInv' /\ RefusalReported' /\ ResolvedAtTheEnd'
    BY <2>1, Zenon DEF EmptyInv, RefusalInv, RefusalReported, ResolvedAtTheEnd
  <2> QED BY <2>5, <2>6, <2>7
<1> QED BY <1>2, <1>3, <1>4

(* The steps of the capture loop, and the clock. *)
LEMMA CaptureStep ==
  ASSUME Layer2Inv, Stations(observations'),
         CapturePacket \/ NothingCaptured \/ CaptureBreaks \/ Tick
  PROVE  Layer2Inv'
<1> USE DEF Layer2Inv
<1>0. /\ at = "capture" /\ ~ permission_denied
      /\ {clock, deadline, poll_until} \subseteq Nat /\ socket_open
      /\ permission_denied \in BOOLEAN /\ last_table \in Tables \cup {<<>>}
      /\ error \in {Empty, "no_capture", "no_station"}
  BY Zenon DEF TypeOK, RefusalInv, CapturePacket, NothingCaptured, CaptureBreaks, Tick
<1>1. observations' \in Seq([ip : Addresses, mac : Macs])
  BY DEF Stations, Observation
<1>2. /\ UNCHANGED <<deadline, permission_denied, error, last_table>>
      /\ at' \in {"capture", "second_read"}
      /\ socket_open' \in BOOLEAN /\ (socket_open' <=> at' = "capture")
      /\ {clock', deadline', poll_until'} \subseteq Nat
      /\ at' = "capture" => clock' <= poll_until' /\ poll_until' <= deadline'
  <2>0. clock \in Nat /\ deadline \in Nat /\ poll_until \in Nat
    BY <1>0
  <2>1. CASE CapturePacket \/ NothingCaptured
    <3>1. LoopTop /\ UNCHANGED <<clock, deadline, permission_denied, error, last_table>>
      BY <2>1 DEF CapturePacket, NothingCaptured
    <3>2. /\ at' \in {"capture", "second_read"}
          /\ socket_open' \in BOOLEAN /\ (socket_open' <=> at' = "capture")
          /\ poll_until' \in Nat
          /\ at' = "capture" => clock <= poll_until' /\ poll_until' <= deadline
      BY <1>0, <3>1, LoopTopFacts
    <3> QED BY <2>0, <3>1, <3>2
  <2>2. CASE CaptureBreaks
    BY <2>0, <2>2 DEF CaptureBreaks
  <2>3. CASE Tick
    <3>1. /\ clock < poll_until /\ clock' = clock + 1
          /\ UNCHANGED <<at, deadline, poll_until, socket_open, permission_denied, error, last_table>>
      BY <2>3 DEF Tick
    <3>2. clock <= poll_until /\ poll_until <= deadline
      BY <1>0 DEF WindowInv
    <3> QED BY <1>0, <2>0, <3>1, <3>2
  <2> QED BY <2>1, <2>2, <2>3
<1>3. TypeOK'
  BY <1>0, <1>1, <1>2, Zenon DEF TypeOK
<1>4. WindowInv'
  BY <1>2, Zenon DEF WindowInv
<1>5. at' # "first_read" /\ at' # "done" /\ ~ permission_denied'
  BY <1>0, <1>2
<1>6. EmptyInv' /\ RefusalInv' /\ RefusalReported' /\ ResolvedAtTheEnd'
  BY <1>5, Zenon DEF EmptyInv, RefusalInv, RefusalReported, ResolvedAtTheEnd
<1> QED BY <1>3, <1>4, <1>6

(* The second reading and the return. *)
LEMMA ClosingStep ==
  ASSUME Layer2Inv, Stations(observations'), SecondRead
  PROVE  Layer2Inv'
<1> USE DEF Layer2Inv
<1>1. PICK table \in Tables :
        /\ last_table' = table
        /\ observations' = MergeCache(observations, table)
  BY DEF SecondRead
<1>2. /\ at = "second_read" /\ at' = "done"
      /\ error' = FinalError(observations', error)
      /\ UNCHANGED <<clock, deadline, poll_until, socket_open, permission_denied>>
  BY DEF SecondRead
<1>3. error' \in {Empty, "no_station", error}
  BY <1>2, Zenon DEF FinalError
<1>4. TypeOK'
  <2>1. /\ {clock, deadline, poll_until} \subseteq Nat /\ ~ socket_open
        /\ permission_denied \in BOOLEAN
        /\ error' \in {Empty, "no_capture", "no_station"}
    BY <1>2, <1>3, Zenon DEF TypeOK
  <2>2. observations' \in Seq([ip : Addresses, mac : Macs])
    BY DEF Stations, Observation
  <2> QED BY <1>1, <1>2, <2>1, <2>2, Zenon DEF TypeOK
<1>5. Covers(observations', table)
  BY <1>1, MergeFacts
<1>6. ResolvedAtTheEnd'
  BY <1>1, <1>5, Zenon DEF ResolvedAtTheEnd, Covers
<1>7. ASSUME permission_denied', observations' = <<>> PROVE error' = "no_capture"
  <2>1. error = "no_capture"
    BY <1>2, <1>7 DEF RefusalInv
  <2>2. error # Empty
    BY <2>1 DEF Empty
  <2> QED BY <1>2, <1>7, <2>1, <2>2, Zenon DEF FinalError
<1>8. EmptyInv' /\ WindowInv' /\ RefusalInv' /\ RefusalReported'
  BY <1>2, <1>7, Zenon DEF EmptyInv, WindowInv, RefusalInv, RefusalReported
<1> QED BY <1>4, <1>6, <1>8

(* Every step keeps the invariant. *)
LEMMA Layer2StepInv == Layer2Inv /\ [Next]_vars => Layer2Inv'
<1> SUFFICES ASSUME Layer2Inv, [Next]_vars PROVE Layer2Inv'
  OBVIOUS
<1>1. Stations(observations')
  BY ListStep
<1>2. CASE FirstRead \/ CaptureRefused \/ CaptureOpened
  BY <1>1, <1>2, OpeningStep
<1>3. CASE CapturePacket \/ NothingCaptured \/ CaptureBreaks \/ Tick
  BY <1>1, <1>3, CaptureStep
<1>4. CASE SecondRead
  BY <1>1, <1>4, ClosingStep
<1>5. CASE UNCHANGED vars
  <2>1. TypeOK' /\ EmptyInv' /\ WindowInv' /\ RefusalInv' /\ RefusalReported' /\ ResolvedAtTheEnd'
    BY <1>5, Zenon DEF Layer2Inv, vars, TypeOK, EmptyInv, WindowInv, RefusalInv, RefusalReported,
       ResolvedAtTheEnd
  <2> QED BY <1>1, <2>1 DEF Layer2Inv
<1> QED BY <1>2, <1>3, <1>4, <1>5, Zenon DEF Next

-----------------------------------------------------------------------------
(* Whatever the cache and the link show, and in whatever order, the        *)
(* inductive invariant of discover_link_layer_hosts() holds.               *)
THEOREM Layer2Invariance == Spec => []Layer2Inv
<1>1. Init => Layer2Inv
  BY Layer2InitInv
<1>2. Layer2Inv /\ [Next]_vars => Layer2Inv'
  BY Layer2StepInv
<1> QED BY <1>1, <1>2, PTL DEF Spec

(* The variables keep their types; the socket is open just while the loop  *)
(* runs.                                                                   *)
THEOREM TypeCorrect == Spec => []TypeOK
<1>1. Layer2Inv => TypeOK
  BY DEF Layer2Inv
<1> QED BY <1>1, Layer2Invariance, PTL

(* No station is observed twice, and the PC never.                         *)
THEOREM StationsObservedOnce == Spec => []OneObservationPerStation
<1>1. Layer2Inv => OneObservationPerStation
  BY Zenon DEF Layer2Inv, Stations, Distinct, OneObservationPerStation
<1> QED BY <1>1, Layer2Invariance, PTL

(* The listening window is never overrun, whatever its length and the      *)
(* length of a polling slice.                                              *)
THEOREM WindowKept == Spec => []ListensInWindow
<1>1. Layer2Inv => ListensInWindow
  <2> SUFFICES ASSUME Layer2Inv, at = "capture" PROVE clock <= deadline /\ poll_until <= deadline
    BY DEF ListensInWindow
  <2>1. {clock, deadline, poll_until} \subseteq Nat /\ clock <= poll_until /\ poll_until <= deadline
    BY DEF Layer2Inv, TypeOK, WindowInv
  <2> QED BY <2>1
<1> QED BY <1>1, Layer2Invariance, PTL

(* A refused capture is the error when nothing was observed.               *)
THEOREM RefusalIsReported == Spec => []RefusalReported
<1>1. Layer2Inv => RefusalReported
  BY DEF Layer2Inv
<1> QED BY <1>1, Layer2Invariance, PTL

(* When the function returns, each station the cache resolves at its       *)
(* second reading is observed with a hardware address.                     *)
THEOREM CacheResolvesStations == Spec => []ResolvedAtTheEnd
<1>1. Layer2Inv => ResolvedAtTheEnd
  BY DEF Layer2Inv
<1> QED BY <1>1, Layer2Invariance, PTL

(* Observations are only added or completed, never dropped, moved or       *)
(* overwritten, by any step.                                               *)
THEOREM ObservationsGrow == Spec => ObservationsOnlyGrow
<1>1. Layer2Inv /\ [Next]_vars =>
        [/\ Len(observations') >= Len(observations)
         /\ \A i \in DOMAIN observations :
              /\ observations'[i].ip = observations[i].ip
              /\ observations[i].mac # Empty => observations'[i].mac = observations[i].mac]_vars
  BY ListStep, Zenon DEF Grown
<1> QED BY <1>1, Layer2Invariance, PTL DEF Spec, ObservationsOnlyGrow
=============================================================================
