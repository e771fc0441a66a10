--------------------------- MODULE LsmWriteProofs ----------------------------
(***************************************************************************)
(* The clients and the flush thread of LsmEngine preserve CInv, the        *)
(* invariant about which writes the memtables, the logs and the files hold. *)
(* Every lemma takes IInv before and after the step as given, which        *)
(* LsmEngineProofs shows, and that logs take every record and can be       *)
(* deleted.                                                                *)
(***************************************************************************)
EXTENDS LsmFacts

\* A leaf that names no prover is for Zenon; those with arithmetic name SMT.
USE Zenon

-----------------------------------------------------------------------------
(* put_locked and remove_locked. *)

\* The next write, of k, is in the history and at the end of the log in use.
Logged(k) ==
    /\ Len(hist) + 1 \in Ids
    /\ walBad' = {}
    /\ Len(hist') = Len(hist) + 1
    /\ hist'[Len(hist) + 1].key = k
    /\ \A j \in 1 .. Len(hist) : hist'[j] = hist[j]
    /\ \A g \in Gens : g # walGen => walRecs'[g] = walRecs[g]
    /\ Len(walRecs'[walGen]) = Len(walRecs[walGen]) + 1
    /\ \A i \in 1 .. Len(walRecs[walGen]) : walRecs'[walGen][i] = walRecs[walGen][i]
    /\ walRecs'[walGen][Len(walRecs[walGen]) + 1].key = k
    /\ walRecs'[walGen][Len(walRecs[walGen]) + 1].id = Len(hist) + 1

\* The memtable stays in use, or is frozen with its log.
Stays(mt) == memtable' = mt /\ UNCHANGED <<walFiles, walDurable, walGen, immutables>>

Freezes(mt) ==
    /\ memtable' = EmptyTable
    /\ walGen + 1 \in Gens
    /\ walGen' = walGen + 1
    /\ walFiles' = walFiles \cup {walGen + 1}
    /\ walDurable' = [walDurable EXCEPT ![walGen] = Len(walRecs'[walGen])]
    /\ immutables' = Append(immutables, [tab |-> mt, gen |-> walGen])

WithNext(k) == [memtable EXCEPT ![k] = Len(hist) + 1]

\* A log that takes every record gets the record of the write.
LEMMA WriteIsLogged ==
    ASSUME LogsReliable, IInv, SegmentsInv,
           NEW k \in Keys, NEW del \in BOOLEAN, NEW seen, WriteLocked(k, del, seen)
    PROVE  Logged(k) /\ (Stays(WithNext(k)) \/ Freezes(WithNext(k)))
<1> DEFINE id == Len(hist) + 1
           rec == [key |-> k, id |-> id]
           w == [key |-> k, val |-> IF del THEN 0 ELSE id]
           recs == Append(walRecs[walGen], rec)
<1>1. /\ hist \in Seq([key : Keys, val : Ids])
      /\ walRecs[walGen] \in Seq(Record)
      /\ walRecs \in [Gens -> Seq(Record)]
      /\ walGen \in Gens
  BY DEF IInv, TypeOK
<1>2. Len(hist) \in Nat /\ Len(hist) < MaxWrites /\ id \in 1 .. MaxWrites /\ id \in Ids /\ 0 \in Ids
  BY <1>1, SeqFacts, BoundsAssumption, SMT DEF WriteLocked, Ids
<1>3. hist' = Append(hist, w)
  BY DEF WriteLocked
<1>4. w \in [key : Keys, val : Ids] /\ rec \in Record /\ w.key = k /\ rec.key = k /\ rec.id = id
  BY <1>2 DEF Record
<1> HIDE DEF w, rec
<1>5. /\ Len(hist') = id
      /\ hist'[id].key = k
      /\ \A j \in 1 .. Len(hist) : hist'[j] = hist[j]
  BY <1>1, <1>3, <1>4, AppendFacts, SMT
<1>6. /\ Len(recs) = Len(walRecs[walGen]) + 1
      /\ \A i \in 1 .. Len(walRecs[walGen]) : recs[i] = walRecs[walGen][i]
      /\ recs[Len(walRecs[walGen]) + 1].key = k
      /\ recs[Len(walRecs[walGen]) + 1].id = id
  BY <1>1, <1>4, AppendFacts, SMT
<1>7. LogOutcomes = {TRUE} /\ walBad = {}
  BY DEF LogOutcomes, SegmentsInv, LogsReliable
<1>8. walBad' = {} /\ (KeepMemtable(WithNext(k), recs) \/ Rotate(WithNext(k), recs))
  <2>1. PICK ok \in LogOutcomes :
            LET r == IF ok THEN Append(walRecs[walGen], [key |-> k, id |-> id])
                     ELSE walRecs[walGen]
            IN  /\ walBad' = IF ok THEN walBad ELSE walBad \cup {walGen}
                /\ IF Size(WithNext(k)) < MemtableThreshold
                   THEN KeepMemtable(WithNext(k), r)
                   ELSE Rotate(WithNext(k), r)
    BY DEF WriteLocked, WithNext
  <2>2. ok = TRUE
    BY <1>7
  <2> QED
    BY <1>7, <2>1, <2>2 DEF rec
<1> HIDE DEF recs
<1>9. walRecs' = [walRecs EXCEPT ![walGen] = recs]
  BY <1>8 DEF KeepMemtable, Rotate
<1>10. walRecs'[walGen] = recs /\ \A g \in Gens : g # walGen => walRecs'[g] = walRecs[g]
  BY <1>1, <1>9
<1>11. Logged(k)
  BY <1>2, <1>5, <1>6, <1>8, <1>10 DEF Logged
<1>12. CASE KeepMemtable(WithNext(k), recs)
  BY <1>11, <1>12 DEF KeepMemtable, Stays
<1>13. CASE Rotate(WithNext(k), recs)
  <2>1. walGen + 1 \in Gens
    BY <1>1, <1>13, BoundsAssumption, SMT DEF Rotate, Gens
  <2> QED
    BY <1>10, <1>11, <1>13, <2>1 DEF Rotate, Freezes
<1> QED
  BY <1>8, <1>12, <1>13

\* What a logged write changes, seen through the predicates of DiskInv.
Effect(k) ==
    /\ \A g \in Gens : \A j, e :
          Rec(g, j, e)' <=> Rec(g, j, e) \/ (g = walGen /\ j = k /\ e = Len(hist) + 1)
    /\ \A j, e : InFile(j, e)' <=> InFile(j, e)
    /\ \A j, e : WriteOf(j, e)' <=> WriteOf(j, e) \/ (j = k /\ e = Len(hist) + 1)
    /\ \A j, e : \A n \in 0 .. Len(hist) : LastOf(j, e, n)' <=> LastOf(j, e, n)
    /\ \A j, e, n : n = Len(hist) + 1 /\ LastOf(j, e, n)' =>
                       (j = k /\ e = Len(hist) + 1) \/ (j # k /\ LastOf(j, e, Len(hist)))
    /\ \A j, e : Entry(j, e)' <=> Entry(j, e) \/ (j = k /\ e = Len(hist) + 1)
    /\ Durable' = IF walGen' = walGen THEN Durable ELSE Len(hist) + 1

\* What a write leaves alone.
WriteFrame == UNCHANGED <<sst, manifestDisk, manifest, mode, flush>>

\* A logged write changes what Effect says.
LEMMA WriteHasEffect ==
    ASSUME Shapes, Shapes', DiskInv, FlushContent, mode = "up",
           NEW k \in Keys, NEW mt, Logged(k), Stays(mt) \/ Freezes(mt), WriteFrame
    PROVE  Effect(k)
<1> DEFINE id == Len(hist) + 1
           n == Len(walRecs[walGen])
<1>0. /\ SegmentsInv /\ RecordsInv /\ walGen \in Gens /\ walGen \in walFiles
      /\ Len(hist) \in Nat /\ n \in Nat /\ walFiles \subseteq Gens
      /\ DOMAIN hist = 1 .. Len(hist)
      /\ \A g \in walFiles : g <= walGen
  BY DEF DiskInv, SegmentsInv, LogsOpen, Shapes
<1>1. ASSUME NEW g \in Gens, NEW j, NEW e
      PROVE  Rec(g, j, e)' <=> Rec(g, j, e) \/ (g = walGen /\ j = k /\ e = id)
  <2>1. CASE g # walGen
    BY <2>1 DEF Logged, Rec
  <2>2. CASE g = walGen
    <3>1. DOMAIN walRecs[walGen] = 1 .. n
      BY <1>0 DEF Shapes
    <3>2. DOMAIN walRecs'[walGen] = 1 .. n + 1
      BY <1>0 DEF Logged, Shapes
    <3>3. Rec(g, j, e) <=> \E i \in 1 .. n : walRecs[g][i].key = j /\ walRecs[g][i].id = e
      BY <2>2, <3>1 DEF Rec
    <3>4. Rec(g, j, e)' <=> \E i \in 1 .. n + 1 : walRecs'[g][i].key = j /\ walRecs'[g][i].id = e
      BY <2>2, <3>2 DEF Rec
    <3>5. \A i \in 1 .. n : walRecs'[g][i] = walRecs[g][i]
      BY <2>2 DEF Logged
    <3>6. walRecs'[g][n + 1].key = k /\ walRecs'[g][n + 1].id = id
      BY <2>2 DEF Logged
    <3>7. n + 1 \in 1 .. n + 1 /\ \A i \in 1 .. n + 1 : i \in 1 .. n \/ i = n + 1
      BY <1>0, SMT
    <3>8. \A i \in 1 .. n : i \in 1 .. n + 1
      BY <1>0, SMT
    <3> HIDE DEF n, id
    <3> QED
      BY <2>2, <3>3, <3>4, <3>5, <3>6, <3>7, <3>8
  <2> QED
    BY <2>1, <2>2
<1>2. \A j, e : InFile(j, e)' <=> InFile(j, e)
  BY DEF InFile, WriteFrame
<1>3. \A j, e : WriteOf(j, e)' <=> WriteOf(j, e) \/ (j = k /\ e = id)
  <2>1. DOMAIN hist' = 1 .. id
    BY DEF Logged, Shapes
  <2> QED
    BY <1>0, <2>1, SMT DEF WriteOf, Logged
<1>4. ASSUME NEW j, NEW e, NEW m \in 0 .. Len(hist)
      PROVE  LastOf(j, e, m)' <=> LastOf(j, e, m)
  <2>1. WriteOf(j, e) => e \in 1 .. Len(hist)
    BY <1>0 DEF WriteOf
  <2>2. e \in 1 .. Len(hist) => \A i \in e + 1 .. m : hist'[i] = hist[i]
    BY <1>0, SMT DEF Logged
  <2>3. CASE e \in 1 .. Len(hist)
    <3>1. WriteOf(j, e)' <=> WriteOf(j, e)
      BY <1>0, <1>3, <2>3, SMT
    <3>2. (\A i \in e + 1 .. m : hist'[i].key # j) <=> (\A i \in e + 1 .. m : hist[i].key # j)
      BY <2>2, <2>3
    <3> QED
      BY <3>1, <3>2 DEF LastOf
  <2>4. CASE e \notin 1 .. Len(hist)
    <3>1. ~(id <= m)
      BY <1>0, SMT
    <3> QED
      BY <1>3, <2>1, <2>4, <3>1 DEF LastOf
  <2> QED
    BY <2>3, <2>4
<1>5. ASSUME NEW j, NEW e, NEW m, m = id, LastOf(j, e, m)'
      PROVE  (j = k /\ e = id) \/ (j # k /\ LastOf(j, e, Len(hist)))
  <2>1. WriteOf(j, e)' /\ \A i \in e + 1 .. id : hist'[i].key # j
    BY <1>5 DEF LastOf
  <2>2. CASE j = k /\ e = id
    BY <2>2
  <2>3. CASE ~(j = k /\ e = id)
    <3>1. WriteOf(j, e) /\ e \in 1 .. Len(hist)
      BY <1>0, <1>3, <2>1, <2>3 DEF WriteOf
    <3>2. hist'[id].key # j
      BY <1>0, <2>1, <3>1, SMT
    <3>3. \A i \in e + 1 .. Len(hist) : hist[i].key # j
      BY <1>0, <2>1, <3>1, SMT DEF Logged
    <3> QED
      BY <1>0, <3>1, <3>2, <3>3, SMT DEF LastOf, Logged
  <2> QED
    BY <2>2, <2>3
<1>6. ASSUME NEW j, NEW e
      PROVE  Entry(j, e)' <=> Entry(j, e) \/ (j = k /\ e = id)
  <2>1. walGen \in LiveLogs /\ LiveLogs \subseteq walFiles
    <3>1. \A g \in Gens : ~(g < g)
      BY SMT DEF Gens
    <3> QED
      BY <1>0, <3>1 DEF LiveLogs, FlushContent
  <2>2. LiveLogs' = LiveLogs \/ (LiveLogs' = LiveLogs \cup {walGen + 1} /\ walGen + 1 \in Gens)
    <3>1. CASE walFiles' = walFiles
      BY <3>1 DEF LiveLogs, WriteFrame
    <3>2. CASE walFiles' = walFiles \cup {walGen + 1} /\ walGen + 1 \in Gens
      <4>1. flush.pc = "unlink" => flush.gen # walGen + 1
        BY <1>0, SMT DEF FlushContent, Gens
      <4> QED
        BY <3>2, <4>1 DEF LiveLogs, WriteFrame
    <3> QED
      BY <3>1, <3>2 DEF Stays, Freezes
  <2>3. walGen + 1 \in Gens => ~Rec(walGen + 1, j, e) /\ walGen + 1 # walGen
    <3>1. walGen + 1 \notin walFiles /\ walGen + 1 # walGen
      BY <1>0, SMT DEF Gens
    <3>2. walGen + 1 \in Gens => walRecs[walGen + 1] = <<>>
      BY <1>0, <3>1 DEF SegmentsInv
    <3> QED
      BY <3>1, <3>2, SMT DEF Rec
  <2>4. LiveLogs \subseteq Gens
    BY <1>0, <2>1
  <2> QED
    BY <1>0, <1>1, <1>2, <2>1, <2>2, <2>3, <2>4 DEF Entry
<1>7. Durable' = IF walGen' = walGen THEN Durable ELSE id
  <2>1. Len(walRecs'[walGen]) = n + 1 /\ Len(hist') = id
    BY DEF Logged
  <2>2. walDurable[walGen] \in Nat
    BY <1>0 DEF Shapes
  <2>3. CASE Stays(mt)
    <3>1. walGen' = walGen /\ walDurable' = walDurable
      BY <2>3 DEF Stays
    <3>2. Durable' = id - (n + 1) + walDurable[walGen]
      BY <2>1, <3>1 DEF Durable
    <3>3. Durable = Len(hist) - n + walDurable[walGen]
      BY DEF Durable
    <3>4. id - (n + 1) + walDurable[walGen] = Len(hist) - n + walDurable[walGen]
      <4>1. \A a, b, c \in Nat : (a + 1) - (b + 1) + c = a - b + c
        BY SMT
      <4> HIDE DEF n
      <4> QED
        BY <1>0, <2>2, <4>1
    <3> QED
      BY <3>1, <3>2, <3>3, <3>4
  <2>4. CASE Freezes(mt)
    <3>1. walGen + 1 \notin walFiles /\ walGen + 1 # walGen /\ walGen' = walGen + 1 /\ walGen + 1 \in Gens
      BY <1>0, <2>4, SMT DEF Gens, Freezes
    <3>2. walRecs[walGen + 1] = <<>> /\ walDurable[walGen + 1] = Len(walRecs[walGen + 1])
      BY <1>0, <3>1 DEF SegmentsInv
    <3>3. walRecs'[walGen + 1] = <<>>
      BY <3>1, <3>2 DEF Logged
    <3>4. walDurable'[walGen + 1] = walDurable[walGen + 1]
      BY <2>4, <3>1, SMT DEF Freezes
    <3> QED
      BY <1>0, <2>1, <3>1, <3>2, <3>3, <3>4, SMT DEF Durable
  <2> QED
    BY <2>3, <2>4
<1> QED
  BY <1>1, <1>2, <1>3, <1>4, <1>5, <1>6, <1>7 DEF Effect

\* A write keeps the segments in order.
LEMMA WriteSegments ==
    ASSUME Shapes, Shapes', SegmentsInv, mode = "up",
           NEW k \in Keys, NEW mt, Logged(k), Stays(mt) \/ Freezes(mt), WriteFrame
    PROVE  SegmentsInv'
<1>1. /\ walGen \in Gens /\ walGen \in walFiles /\ walFiles \subseteq Gens
      /\ \A g \in walFiles : g <= walGen
      /\ Serving' /\ LogsOpen'
      /\ Len(walRecs[walGen]) \in Nat /\ walDurable[walGen] \in Nat
  BY DEF SegmentsInv, LogsOpen, Shapes, Serving, WriteFrame
<1>2. walBad' = {} /\ \A g \in Gens : g # walGen => walRecs'[g] = walRecs[g]
  BY DEF Logged
<1>3. CASE Stays(mt)
  <2>1. walGen' = walGen /\ walDurable' = walDurable /\ walFiles' = walFiles
    BY <1>3 DEF Stays
  <2>2. walDurable[walGen] <= Len(walRecs'[walGen])
    BY <1>1, SMT DEF Logged, SegmentsInv
  <2> QED
    BY <1>1, <1>2, <2>1, <2>2 DEF SegmentsInv
<1>4. CASE Freezes(mt)
  <2>1. /\ walGen' = walGen + 1 /\ walGen + 1 \in Gens /\ walFiles' = walFiles \cup {walGen + 1}
        /\ walDurable' = [walDurable EXCEPT ![walGen] = Len(walRecs'[walGen])]
    BY <1>4 DEF Freezes
  <2>2. \A g \in Gens : g # walGen => walDurable'[g] = walDurable[g]
    BY <2>1, SMT
  <2>3. walDurable'[walGen] = Len(walRecs'[walGen])
    <3>1. walDurable \in [Gens -> Nat]
      BY DEF Shapes
    <3> QED
      BY <1>1, <2>1, <3>1
  <2>4. \A g \in walFiles' : g <= walGen'
    BY <1>1, <2>1, SMT DEF Gens
  <2>5. \A g \in Gens : walDurable'[g] = Len(walRecs'[g]) /\ walDurable'[g] <= Len(walRecs'[g])
    <3>1. \A g \in Gens : g # walGen => walDurable[g] = Len(walRecs[g])
      BY DEF SegmentsInv
    <3>2. \A g \in Gens : Len(walRecs'[g]) \in Nat
      BY DEF Shapes
    <3>3. \A g \in Gens : walDurable'[g] = Len(walRecs'[g])
      BY <1>2, <2>2, <2>3, <3>1
    <3> QED
      BY <3>2, <3>3, SMT
  <2>6. \A g \in Gens \ walFiles' : walRecs'[g] = <<>>
    BY <1>1, <1>2, <2>1 DEF SegmentsInv
  <2> QED
    BY <1>1, <1>2, <2>1, <2>4, <2>5, <2>6 DEF SegmentsInv
<1> QED
  BY <1>3, <1>4

\* A write keeps the records in agreement with the history.
LEMMA WriteRecords ==
    ASSUME Shapes, Shapes', DiskInv, SegmentsInv', mode = "up",
           NEW k \in Keys, NEW mt, Logged(k), Stays(mt) \/ Freezes(mt), WriteFrame, Effect(k)
    PROVE  RecordsInv'
<1> DEFINE id == Len(hist) + 1
           n == Len(walRecs[walGen])
           d == walDurable[walGen]
<1>0. /\ SegmentsInv /\ RecordsInv /\ walGen \in Gens /\ walGen \in walFiles
      /\ Len(hist) \in Nat /\ n \in Nat /\ d \in Nat /\ d <= n /\ walFiles \subseteq Gens /\ walFiles' \subseteq Gens
      /\ \A g \in Gens : walDurable[g] \in Nat /\ walDurable[g] <= Len(walRecs[g]) /\ Len(walRecs[g]) \in Nat
      /\ \A g \in Gens : walDurable'[g] \in Nat /\ walDurable'[g] <= Len(walRecs'[g]) /\ Len(walRecs'[g]) \in Nat
  BY DEF DiskInv, SegmentsInv, LogsOpen, Shapes
<1>1. \A g \in Gens, j \in Keys, e \in Ids : Rec(g, j, e)' => WriteOf(j, e)'
  <2>1. \A g \in Gens, j \in Keys, e \in Ids : Rec(g, j, e) => WriteOf(j, e)
    BY HeldIsWritten DEF DiskInv
  <2> QED
    BY <2>1 DEF Effect
<1>2. ASSUME NEW g \in walFiles', NEW i \in 1 .. walDurable'[g]
      PROVE  walRecs'[g][i].id <= Durable'
  <2>0. g \in Gens /\ i \in 1 .. Len(walRecs'[g])
    BY <1>0, SMT
  <2>1. CASE Stays(mt)
    <3>1. walGen' = walGen /\ walFiles' = walFiles /\ walDurable' = walDurable
      BY <2>1 DEF Stays
    <3>2. Durable' = Durable
      BY <3>1 DEF Effect
    <3>3. walRecs'[g][i] = walRecs[g][i]
      <4>1. i \in 1 .. Len(walRecs[g])
        BY <1>0, <2>0, <3>1, SMT
      <4> QED
        BY <2>0, <4>1 DEF Logged
    <3> QED
      BY <3>1, <3>2, <3>3 DEF RecordsInv, DiskInv
  <2>2. CASE Freezes(mt)
    <3>1. Durable' = id
      BY <1>0, <2>2, SMT DEF Freezes, Effect, Gens
    <3>2. walRecs'[g][i].key \in Keys /\ walRecs'[g][i].id \in Ids /\ i \in DOMAIN walRecs'[g]
      BY <2>0 DEF Shapes
    <3>3. \A j, e : j = walRecs'[g][i].key /\ e = walRecs'[g][i].id => Rec(g, j, e)'
      BY <3>2 DEF Rec
    <3>4. \A j \in Keys, e \in Ids : Rec(g, j, e)' => e <= id
      <4>1. \A j, e : WriteOf(j, e)' => e \in 1 .. id
        BY DEF WriteOf, Logged, Shapes
      <4> QED
        BY <1>0, <1>1, <2>0, <4>1, SMT
    <3> QED
      BY <3>1, <3>2, <3>3, <3>4
  <2> QED
    BY <2>1, <2>2
<1>3. ASSUME NEW i \in walDurable'[walGen'] + 1 .. Len(walRecs'[walGen'])
      PROVE  walRecs'[walGen'][i].id = Len(hist') - Len(walRecs'[walGen']) + i
  <2>1. CASE Stays(mt)
    <3>1. walGen' = walGen /\ walDurable' = walDurable
      BY <2>1 DEF Stays
    <3>2. Len(walRecs'[walGen]) = n + 1 /\ Len(hist') = id /\ i \in d + 1 .. n + 1
      BY <3>1 DEF Logged
    <3>3. CASE i = n + 1
      <4>1. walRecs'[walGen][n + 1].id = id
        BY DEF Logged
      <4>2. \A a, b \in Nat : (a + 1) = (a + 1) - (b + 1) + (b + 1)
        BY SMT
      <4> HIDE DEF n
      <4> QED
        BY <1>0, <3>1, <3>2, <3>3, <4>1, <4>2
    <3>4. CASE i \in d + 1 .. n
      <4>1. walRecs'[walGen][i] = walRecs[walGen][i]
        BY <1>0, <3>4, SMT DEF Logged
      <4>2. walRecs[walGen][i].id = Len(hist) - n + i
        BY <3>4 DEF RecordsInv, DiskInv
      <4>3. \A a, b, c \in Nat : a - b + c = (a + 1) - (b + 1) + c
        BY SMT
      <4>4. i \in Nat
        BY <1>0, <3>4, SMT
      <4> HIDE DEF n
      <4> QED
        BY <1>0, <3>1, <3>2, <4>1, <4>2, <4>3, <4>4, SMT
    <3>5. i = n + 1 \/ i \in d + 1 .. n
      BY <1>0, <3>2, SMT
    <3> QED
      BY <3>3, <3>4, <3>5
  <2>2. CASE Freezes(mt)
    <3>1. walGen' \in Gens /\ walGen' # walGen
      BY <1>0, <2>2, SMT DEF Freezes, Gens
    <3>2. walDurable'[walGen'] = Len(walRecs'[walGen'])
      <4>1. walDurable[walGen'] = Len(walRecs[walGen'])
        BY <1>0, <3>1 DEF SegmentsInv
      <4>2. walDurable'[walGen'] = walDurable[walGen'] /\ walRecs'[walGen'] = walRecs[walGen']
        BY <2>2, <3>1 DEF Freezes, Logged, Shapes
      <4> QED
        BY <4>1, <4>2
    <3> QED
      BY <1>0, <3>1, <3>2, SMT
  <2> QED
    BY <2>1, <2>2
<1> QED
  BY <1>0, <1>1, <1>2, <1>3 DEF RecordsInv

\* A write keeps records and files in order, and the history covered.
LEMMA WriteDisk ==
    ASSUME Shapes, Shapes', DiskInv, FlushContent, mode = "up",
           NEW k \in Keys, NEW mt, Logged(k), Stays(mt) \/ Freezes(mt), WriteFrame, Effect(k)
    PROVE  DiskInv'
<1> DEFINE id == Len(hist) + 1
           n == Len(walRecs[walGen])
<1>0. /\ SegmentsInv /\ walGen \in Gens /\ walGen \in walFiles
      /\ Len(hist) \in Nat /\ n \in Nat /\ walFiles \subseteq Gens /\ walFiles' \subseteq Gens
      /\ \A g \in walFiles : g <= walGen
      /\ mode' = mode /\ manifestDisk' = manifestDisk /\ manifest' = manifest /\ sst' = sst /\ flush' = flush
      /\ id \in Ids
  BY DEF DiskInv, SegmentsInv, LogsOpen, Shapes, WriteFrame, Logged
<1>1. SegmentsInv'
  BY <1>0, WriteSegments
<1>2. RecordsInv'
  BY <1>1, WriteRecords
<1>3. /\ \A g \in Gens \ walFiles : \A j, e : ~Rec(g, j, e)
      /\ \A g \in Gens, j \in Keys, e \in Ids : Rec(g, j, e) => e \in 1 .. Len(hist)
      /\ \A j \in Keys, e \in Ids : InFile(j, e) => e \in 1 .. Durable
      /\ \A j \in Keys, e \in Ids : Entry(j, e) => e \in 1 .. Len(hist)
      /\ Durable \in 0 .. Len(hist)
  BY HeldIsWritten, DurableFacts DEF DiskInv
<1>4. Durable' \in Durable .. id
  BY <1>0, <1>3, SMT DEF Effect
<1>5. RecordOrder'
  <2>1. ASSUME NEW g \in walFiles', NEW i \in DOMAIN walRecs'[g], NEW j \in DOMAIN walRecs'[g],
               i < j, walRecs'[g][i].key = walRecs'[g][j].key
        PROVE  walRecs'[g][i].id <= walRecs'[g][j].id
    <3>0. g \in Gens /\ DOMAIN walRecs'[g] = 1 .. Len(walRecs'[g])
      BY <1>0 DEF Shapes
    <3>1. CASE g # walGen
      <4>1. walRecs'[g] = walRecs[g]
        BY <3>0, <3>1 DEF Logged
      <4>2. g \in walFiles
        <5>1. walRecs[g] # <<>>
          BY <4>1, SMT
        <5> QED
          BY <3>0, <5>1 DEF SegmentsInv, DiskInv
      <4> QED
        BY <2>1, <4>1, <4>2 DEF RecordOrder, DiskInv
    <3>2. CASE g = walGen
      <4>1. i \in 1 .. n /\ j \in 1 .. n + 1 /\ DOMAIN walRecs[g] = 1 .. n
        <5>1. DOMAIN walRecs[g] = 1 .. n
          BY <1>0, <3>2 DEF Shapes
        <5>2. i \in 1 .. n + 1 /\ j \in 1 .. n + 1
          BY <2>1, <3>0, <3>2 DEF Logged
        <5> HIDE DEF n
        <5>3. i \in 1 .. n
          BY <1>0, <2>1, <5>2, SMT
        <5> QED
          BY <5>1, <5>2, <5>3
      <4>2. walRecs'[g][i] = walRecs[g][i]
        BY <3>2, <4>1 DEF Logged
      <4>3. CASE j \in 1 .. n
        <5>1. walRecs'[g][j] = walRecs[g][j]
          BY <3>2, <4>3 DEF Logged
        <5> QED
          BY <1>0, <2>1, <3>2, <4>1, <4>2, <4>3, <5>1 DEF RecordOrder, DiskInv
      <4>4. CASE j = n + 1
        <5>1. walRecs'[g][j].id = id
          BY <3>2, <4>4 DEF Logged
        <5>2. walRecs[g][i].key \in Keys /\ walRecs[g][i].id \in Ids
          BY <1>0, <3>2, <4>1 DEF Shapes
        <5>3. Rec(g, walRecs[g][i].key, walRecs[g][i].id)
          BY <4>1 DEF Rec
        <5>4. walRecs[g][i].id \in 1 .. Len(hist)
          BY <1>3, <3>0, <5>2, <5>3
        <5> QED
          BY <1>0, <4>2, <5>1, <5>4, SMT
      <4>5. j \in 1 .. n \/ j = n + 1
        BY <1>0, <4>1, SMT
      <4> QED
        BY <4>3, <4>4, <4>5
    <3> QED
      BY <3>1, <3>2
  <2>2. ASSUME NEW g \in walFiles', NEW h \in walFiles', NEW j \in Keys, NEW d \in Ids, NEW e \in Ids,
               g < h, Rec(g, j, d)', Rec(h, j, e)'
        PROVE  d <= e
    <3>0. g \in Gens /\ h \in Gens /\ d \in Nat /\ e \in Nat
      BY <1>0, BoundsAssumption, SMT DEF Ids
    <3>1. Rec(g, j, d) \/ d = id
      BY <2>2, <3>0 DEF Effect
    <3>2. d <= id
      BY <1>0, <1>3, <3>0, <3>1, SMT
    <3>3. CASE Rec(h, j, e)
      <4>1. h \in walFiles
        BY <1>3, <3>0, <3>3
      <4>2. g # walGen
        BY <1>0, <2>2, <4>1, SMT DEF Gens
      <4>3. Rec(g, j, d)
        BY <2>2, <3>0, <4>2 DEF Effect
      <4>4. g \in walFiles
        BY <1>3, <3>0, <4>3
      <4> QED
        BY <2>2, <3>3, <4>1, <4>3, <4>4 DEF RecordOrder, DiskInv
    <3>4. CASE e = id
      BY <3>2, <3>4
    <3> QED
      BY <2>2, <3>0, <3>3, <3>4 DEF Effect
  <2> QED
    BY <2>1, <2>2 DEF RecordOrder
<1>6. FilesHold'
  <2>1. \A j, e : WriteOf(j, e) => WriteOf(j, e)'
    BY DEF Effect
  <2>2. ASSUME NEW f \in manifestDisk.files, NEW j \in Keys, sst[f.path][j] # 0
        PROVE  WriteOf(j, sst[f.path][j])' /\ sst[f.path][j] <= Durable'
    <3>1. WriteOf(j, sst[f.path][j]) /\ sst[f.path][j] <= Durable /\ sst[f.path][j] \in Ids
      BY <2>2 DEF FilesHold, DiskInv, Shapes
    <3> QED
      BY <1>0, <1>3, <1>4, <2>1, <3>1, BoundsAssumption, SMT DEF Ids
  <2> QED
    BY <1>0, <2>2 DEF FilesHold, DiskInv
<1>7. LogsOverFiles'
  <2>1. ASSUME NEW g \in walFiles', NEW j \in Keys, NEW d \in Ids, NEW e \in Ids, Rec(g, j, d)', InFile(j, e)'
        PROVE  \E c \in Ids : Rec(g, j, c)' /\ c >= e
    <3>0. g \in Gens /\ InFile(j, e)
      BY <1>0, <2>1 DEF Effect
    <3>1. CASE Rec(g, j, d)
      <4>1. g \in walFiles
        BY <1>3, <3>0, <3>1
      <4> QED
        BY <3>0, <3>1, <4>1, SMT DEF LogsOverFiles, DiskInv, Effect
    <3>2. CASE d = id
      <4>1. d >= e
        BY <1>0, <1>3, <3>0, <3>2, SMT
      <4> QED
        BY <2>1, <4>1
    <3> QED
      BY <2>1, <3>0, <3>1, <3>2 DEF Effect
  <2>2. ASSUME NEW j \in Keys, NEW d \in Ids, NEW e \in Ids, NEW g \in Gens, g = walGen',
               Rec(g, j, d)', InFile(j, e)'
        PROVE  d >= e
    <3>0. InFile(j, e)
      BY <2>2 DEF Effect
    <3>1. CASE Rec(g, j, d)
      <4>1. g \in walFiles
        BY <1>3, <3>1
      <4>2. g = walGen
        BY <1>0, <2>2, <4>1, SMT DEF Stays, Freezes, Gens
      <4> QED
        BY <1>0, <3>0, <3>1, <4>2 DEF LogsOverFiles, DiskInv, LogsOpen
    <3>2. CASE d = id
      BY <1>0, <1>3, <3>0, <3>2, SMT
    <3> QED
      BY <2>2, <3>1, <3>2 DEF Effect
  <2>3. walGen' \in Gens
    BY DEF Shapes
  <2> QED
    BY <2>1, <2>2, <2>3 DEF LogsOverFiles
<1>8. \A j, e : Entry(j, e) => Entry(j, e)'
  BY DEF Effect
<1>9. ASSUME NEW j \in Keys, NEW e \in Ids, NEW m \in Durable' .. Len(hist'), LastOf(j, e, m)'
      PROVE  \/ j = k /\ e = id
             \/ \E p \in Durable .. Len(hist) :
                   LastOf(j, e, p) /\ (p = m \/ (p = Len(hist) /\ m = id /\ j # k))
  <2>1. m \in Durable .. id /\ Len(hist') = id
    BY <1>0, <1>3, <1>4, SMT DEF Logged
  <2>2. CASE m = id
    BY <1>0, <1>3, <1>9, <2>2, SMT DEF Effect
  <2>3. CASE m \in Durable .. Len(hist)
    <3>1. m \in 0 .. Len(hist)
      BY <1>0, <1>3, <2>3, SMT
    <3> QED
      BY <1>9, <2>3, <3>1 DEF Effect
  <2> QED
    BY <1>0, <1>3, <2>1, <2>2, <2>3, SMT
<1>10. \A j, e : LastOf(j, e, Len(hist)) => e \in 1 .. Len(hist)
  BY DEF LastOf, WriteOf, Shapes
<1>11. Covered'
  <2>1. SUFFICES ASSUME NEW j \in Keys, NEW e \in Ids, NEW m \in Durable' .. Len(hist'), LastOf(j, e, m)'
                 PROVE  \/ Entry(j, e)'
                        \/ hist'[e].val = 0 /\ \A x \in Ids : Entry(j, x)' => x > m
    BY DEF Covered
  <2>2. CASE j = k /\ e = id
    BY <2>2 DEF Effect
  <2>3. CASE ~(j = k /\ e = id)
    <3>1. PICK p \in Durable .. Len(hist) :
              LastOf(j, e, p) /\ (p = m \/ (p = Len(hist) /\ m = id /\ j # k))
      BY <1>9, <2>1, <2>3
    <3>2. CASE Entry(j, e)
      BY <1>8, <3>2
    <3>3. CASE hist[e].val = 0 /\ \A x \in Ids : Entry(j, x) => x > p
      <4>1. e \in 1 .. Len(hist)
        BY <3>1 DEF LastOf, WriteOf, Shapes
      <4>2. hist'[e].val = 0
        BY <3>3, <4>1 DEF Logged
      <4>3. ASSUME NEW x \in Ids, Entry(j, x)' PROVE x > m
        <5>1. Entry(j, x) \/ (j = k /\ x = id)
          BY <4>3 DEF Effect
        <5>2. CASE j = k /\ x = id
          BY <1>0, <1>3, <3>1, <5>2, SMT
        <5>3. CASE Entry(j, x)
          BY <1>0, <1>3, <3>1, <3>3, <5>3, SMT
        <5> QED
          BY <5>1, <5>2, <5>3
      <4> QED
        BY <4>2, <4>3
    <3> QED
      BY <3>1, <3>2, <3>3 DEF Covered, DiskInv
  <2> QED
    BY <2>2, <2>3
<1>12. UnlinkCovered'
  <2>1. SUFFICES ASSUME flush.pc = "unlink", NEW j \in Keys, NEW e \in Ids, NEW d \in Ids,
                        NEW m \in Durable' .. Len(hist'), LastOf(j, e, m)', Rec(flush.gen, j, d)'
                 PROVE  Entry(j, e)' \/ Rec(flush.gen, j, e)'
    BY <1>0 DEF UnlinkCovered
  <2>2. flush.gen \in Gens /\ flush.gen # walGen
    <3>1. flush.gen \in walFiles /\ flush.gen < walGen
      BY <2>1 DEF FlushContent
    <3>2. flush.gen \in Gens /\ walGen \in Gens
      BY <1>0, <3>1
    <3>3. \A a, b \in Gens : a < b => a # b
      BY SMT DEF Gens
    <3> QED
      BY <3>1, <3>2, <3>3
  <2>3. \A x : Rec(flush.gen, j, x)' <=> Rec(flush.gen, j, x)
    <3>1. \A g \in Gens : g # walGen => \A x : Rec(g, j, x)' <=> Rec(g, j, x)
      BY DEF Effect
    <3>2. flush'.gen = flush.gen
      BY <1>0
    <3> QED
      BY <2>2, <3>1, <3>2
  <2>4. CASE j = k /\ e = id
    BY <2>4 DEF Effect
  <2>5. CASE ~(j = k /\ e = id)
    <3>1. PICK p \in Durable .. Len(hist) : LastOf(j, e, p)
      BY <1>9, <2>1, <2>5
    <3>2. Entry(j, e) \/ Rec(flush.gen, j, e)
      BY <2>1, <2>3, <3>1 DEF UnlinkCovered, DiskInv
    <3> QED
      BY <1>8, <2>3, <3>2
  <2> QED
    BY <2>4, <2>5
<1> QED
  BY <1>1, <1>2, <1>5, <1>6, <1>7, <1>11, <1>12 DEF DiskInv

\* A write keeps memtables and segments in step.
LEMMA WriteMemtables ==
    ASSUME Shapes, Shapes', IInv, DiskInv, DiskInv', MemtablesInv, FlushContent, mode = "up",
           NEW k \in Keys, NEW mt, mt = WithNext(k),
           Logged(k), Stays(mt) \/ Freezes(mt), WriteFrame, Effect(k)
    PROVE  MemtablesInv' /\ FlushContent'
<1> DEFINE id == Len(hist) + 1
           N == Len(immutables)
<1>0. /\ walGen \in Gens /\ walGen \in walFiles /\ walFiles \subseteq Gens
      /\ Len(hist) \in Nat /\ N \in Nat /\ id \in Ids
      /\ \A a, b \in Gens : a < b => a # b
  <2>1. \A a, b \in Gens : a < b => a # b
    BY BoundsAssumption, SMT DEF Gens
  <2> QED
    BY <2>1 DEF DiskInv, SegmentsInv, LogsOpen, Shapes, Logged
<1>1. /\ Holds(memtable, walGen)
      /\ \A i \in 1 .. N :
            /\ Holds(immutables[i].tab, immutables[i].gen)
            /\ immutables[i].gen \in walFiles
            /\ immutables[i].gen < walGen
            /\ immutables[i].gen \in Gens
            /\ immutables[i].gen # walGen
      /\ \A i, j \in 1 .. N : i < j => immutables[i].gen < immutables[j].gen
      /\ SegmentsMatchMemtables
      /\ DOMAIN immutables = 1 .. N
  BY <1>0 DEF MemtablesInv, Shapes, Serving
<1>2. ASSUME NEW tab, NEW g \in Gens, g # walGen, Holds(tab, g)
      PROVE  Holds(tab, g)'
  BY <1>2 DEF Holds, Effect
<1>3. ASSUME NEW g \in Gens, g = walGen
      PROVE  Holds(mt, g)'
  <2>1. ASSUME NEW j \in Keys
        PROVE  /\ mt[j] # 0 => Rec(g, j, mt[j])'
               /\ \A e \in Ids : Rec(g, j, e)' => e <= mt[j]
    <3>1. CASE j = k
      <4>1. mt[j] = id
        BY <3>1 DEF WithNext, IInv, TypeOK, Table
      <4>2. \A e \in Ids : Rec(g, j, e) => e \in 1 .. Len(hist)
        BY HeldIsWritten DEF DiskInv
      <4> QED
        BY <1>0, <1>3, <3>1, <4>1, <4>2, SMT DEF Effect
    <3>2. CASE j # k
      <4>1. mt[j] = memtable[j]
        BY <3>2 DEF WithNext, IInv, TypeOK, Table
      <4> QED
        BY <1>1, <1>3, <3>2, <4>1 DEF Holds, Effect
    <3> QED
      BY <3>1, <3>2
  <2> QED
    BY <2>1 DEF Holds
<1>4. FlushBusy => N >= 1
  <2>1. FlushBusy => immutables # <<>> /\ immutables \in Seq([tab : Table, gen : Gens])
    BY DEF IInv, FilesInv, FlushInv, TypeOK
  <2>2. \A s \in Seq([tab : Table, gen : Gens]) : s # <<>> => Len(s) >= 1
    BY SMT
  <2> QED
    BY <2>1, <2>2
<1>5. Serving /\ Serving' /\ flush' = flush /\ sst' = sst
  BY DEF Serving, WriteFrame
<1>6. CASE Stays(mt)
  <2>1. memtable' = mt /\ walGen' = walGen /\ immutables' = immutables /\ walFiles' = walFiles
    BY <1>6 DEF Stays
  <2>2. Holds(memtable, walGen)'
    BY <1>0, <1>3, <2>1
  <2>3. \A i \in 1 .. N : Holds(immutables[i].tab, immutables[i].gen)'
    BY <1>1, <1>2, <2>1
  <2>4. SegmentsMatchMemtables'
    BY <1>1, <1>5, <2>1 DEF SegmentsMatchMemtables
  <2>5. MemtablesInv'
    BY <1>1, <2>1, <2>2, <2>3, <2>4 DEF MemtablesInv
  <2>6. FlushContent'
    BY <1>5, <2>1 DEF FlushContent, FlushBusy
  <2> QED
    BY <2>5, <2>6
<1>7. CASE Freezes(mt)
  <2>0. /\ memtable' = EmptyTable /\ walGen' = walGen + 1 /\ walGen + 1 \in Gens
        /\ walFiles' = walFiles \cup {walGen + 1}
    BY <1>7 DEF Freezes
  <2>1. /\ Len(immutables') = N + 1 /\ DOMAIN immutables' = 1 .. N + 1
        /\ \A i \in 1 .. N : immutables'[i] = immutables[i]
        /\ immutables'[N + 1].tab = mt /\ immutables'[N + 1].gen = walGen
    <3>1. immutables \in Seq([tab : Table, gen : Gens])
      BY DEF IInv, TypeOK
    <3>2. mt \in Table
      BY <1>0 DEF WithNext, IInv, TypeOK, Table
    <3>3. [tab |-> mt, gen |-> walGen] \in [tab : Table, gen : Gens]
      BY <1>0, <3>2
    <3>4. immutables' = Append(immutables, [tab |-> mt, gen |-> walGen])
      BY <1>7 DEF Freezes
    <3> QED
      BY <3>1, <3>3, <3>4, AppendFacts, SMT
  <2>2. \A i \in 1 .. N + 1 : i \in 1 .. N \/ i = N + 1
    BY <1>0, SMT
  <2>3. Holds(memtable, walGen)'
    <3>1. walGen + 1 \notin walFiles
      <4>1. \A g \in walFiles : g <= walGen
        BY DEF DiskInv, SegmentsInv, LogsOpen
      <4>2. walGen \in Nat
        BY <1>0, NumberSets
      <4> QED
        BY <4>1, <4>2, SMT
    <3>2. \A j, e : ~Rec(walGen + 1, j, e)
      BY <2>0, <3>1, HeldIsWritten DEF DiskInv
    <3>3. walGen + 1 # walGen
      BY <1>0, SMT DEF Gens
    <3>4. \A j, e, g : g = walGen + 1 => ~Rec(g, j, e)'
      BY <2>0, <3>2, <3>3, SMT DEF Effect
    <3>5. \A j \in Keys : EmptyTable[j] = 0
      BY DEF EmptyTable
    <3> QED
      BY <2>0, <3>4, <3>5 DEF Holds
  <2>4. ASSUME NEW i \in 1 .. N + 1
        PROVE  /\ Holds(immutables[i].tab, immutables[i].gen)'
               /\ immutables'[i].gen \in walFiles'
               /\ immutables'[i].gen < walGen'
    <3>1. CASE i \in 1 .. N
      <4>1. immutables'[i] = immutables[i] /\ immutables[i].gen \in Gens /\ immutables[i].gen \in walFiles
            /\ immutables[i].gen < walGen
        BY <1>1, <2>1, <3>1
      <4>2. Holds(immutables[i].tab, immutables[i].gen)'
        BY <1>1, <1>2, <2>1, <3>1
      <4>3. immutables[i].gen < walGen + 1
        BY <1>0, <4>1, SMT DEF Gens
      <4> QED
        BY <2>0, <4>1, <4>2, <4>3
    <3>2. CASE i = N + 1
      <4>1. Holds(immutables[i].tab, immutables[i].gen)'
        BY <1>0, <1>3, <2>1, <3>2
      <4>2. walGen < walGen + 1
        BY <1>0, SMT DEF Gens
      <4> QED
        BY <1>0, <2>0, <2>1, <3>2, <4>1, <4>2
    <3> QED
      BY <2>2, <3>1, <3>2
  <2>5. ASSUME NEW i \in 1 .. N + 1, NEW j \in 1 .. N + 1, i < j
        PROVE  immutables'[i].gen < immutables'[j].gen
    BY <1>0, <1>1, <2>1, <2>2, <2>5, SMT
  <2>6. SegmentsMatchMemtables'
    <3>1. {immutables'[i].gen : i \in DOMAIN immutables'} = {immutables[i].gen : i \in DOMAIN immutables} \cup {walGen}
      <4>1. N + 1 \in 1 .. N + 1 /\ \A i \in 1 .. N : i \in 1 .. N + 1
        BY <1>0, SMT
      <4> HIDE DEF N
      <4> QED
        BY <1>1, <2>1, <2>2, <4>1
    <3> QED
      BY <1>1, <1>5, <2>0, <3>1 DEF SegmentsMatchMemtables
  <2>7. MemtablesInv'
    BY <2>1, <2>3, <2>4, <2>5, <2>6 DEF MemtablesInv
  <2>8. FlushContent'
    <3>1. FlushBusy => immutables'[1] = immutables[1]
      BY <1>0, <1>4, <2>1, SMT
    <3>2. flush.pc = "unlink" => \A i \in 1 .. N + 1 : flush.gen < immutables'[i].gen
      BY <1>1, <2>1, <2>2 DEF FlushContent
    <3>3. flush.pc = "unlink" => flush.gen \in walFiles' /\ flush.gen < walGen'
      <4>1. \A a \in Gens : a < walGen => a < walGen + 1
        BY <1>0, SMT DEF Gens
      <4> QED
        BY <1>0, <2>0, <4>1 DEF FlushContent
    <3> QED
      BY <1>5, <2>1, <3>1, <3>2, <3>3 DEF FlushContent, FlushBusy
  <2> QED
    BY <2>7, <2>8
<1> QED
  BY <1>6, <1>7

\* A deletion stays one: nothing rewrites the history.
LEMMA DeletedStays ==
    ASSUME Shapes, NEW k \in Keys, Logged(k), Shapes'
    PROVE  \A id : Deleted(id) => Deleted(id)'
<1>1. \A id \in 1 .. Len(hist) : id \in 1 .. Len(hist') /\ hist'[id] = hist[id]
  <2>1. Len(hist) \in Nat /\ Len(hist') = Len(hist) + 1
    BY DEF Shapes, Logged
  <2>2. \A id \in 1 .. Len(hist) : id \in 1 .. Len(hist')
    BY <2>1, SMT
  <2> QED
    BY <2>2 DEF Logged
<1>2. DOMAIN hist = 1 .. Len(hist) /\ DOMAIN hist' = 1 .. Len(hist')
  BY DEF Shapes
<1> QED
  BY <1>1, <1>2 DEF Deleted

\* put_locked and remove_locked preserve all of CInv but the tickets.
LEMMA WriteContent ==
    ASSUME LogsReliable, IInv, IInv', CInv, mode = "up",
           NEW k \in Keys, NEW del \in BOOLEAN, NEW seen, WriteLocked(k, del, seen),
           UNCHANGED <<sstVars, manifestDisk, manifest, mode, sstables, threadVars>>
    PROVE  /\ DiskInv' /\ MemtablesInv' /\ RecoveryInv' /\ FlushContent' /\ CompContent'
           /\ Len(hist') = Len(hist) + 1
           /\ Durable' = IF walGen' = walGen THEN Durable ELSE Len(hist) + 1
<1> DEFINE mt == WithNext(k)
<1>1. Shapes /\ Shapes'
  BY ShapesOfTypes, ShapesOfTypesNext
<1>2. Logged(k) /\ (Stays(mt) \/ Freezes(mt))
  BY WriteIsLogged DEF CInv, DiskInv
<1>3. WriteFrame /\ UNCHANGED <<comp, sstables, sst>>
  BY DEF WriteFrame, sstVars, threadVars
<1>4. Effect(k)
  BY <1>1, <1>2, <1>3, WriteHasEffect DEF CInv
<1>5. DiskInv'
  BY <1>1, <1>2, <1>3, <1>4, WriteDisk DEF CInv
<1>6. MemtablesInv' /\ FlushContent'
  BY <1>1, <1>2, <1>3, <1>4, <1>5, WriteMemtables DEF CInv
<1>7. CompContent'
  BY <1>1, <1>2, <1>3, DeletedStays, MergeFrame DEF CInv
<1>8. RecoveryInv'
  BY <1>3 DEF RecoveryInv, Serving, WriteFrame
<1> QED
  BY <1>2, <1>4, <1>5, <1>6, <1>7, <1>8 DEF Effect, Logged

\* A ticket, kept or new, is good after a write.
LEMMA TicketsAfterWrite ==
    ASSUME Shapes, Durable \in 0 .. Len(hist), Len(hist') = Len(hist) + 1,
           Durable' = IF walGen' = walGen THEN Durable ELSE Len(hist) + 1,
           NEW id \in Ids, NEW gen
    PROVE  /\ id <= Durable => id <= Durable'
           /\ id <= Len(hist) /\ (gen # walGen => id <= Durable) =>
                 id <= Len(hist') /\ (gen # walGen' => id <= Durable')
           /\ id = Len(hist) + 1 /\ gen = walGen =>
                 id <= Len(hist') /\ (gen # walGen' => id <= Durable')
<1>1. Len(hist) \in Nat /\ id \in Nat
  BY NumberSets DEF Shapes
<1> QED
  BY <1>1, SMT

\* put, remove and mutate preserve CInv.
LEMMA ClientWriteCInv ==
    ASSUME LogsReliable, IInv, IInv', CInv,
           NEW w \in Writers, NEW k \in Keys, NEW del \in BOOLEAN, NEW seen,
           ClientWrite(w, k, del, seen)
    PROVE  CInv'
<1>1. /\ mode = "up" /\ WriteLocked(k, del, seen)
      /\ UNCHANGED <<sstVars, manifestDisk, manifest, mode, sstables, threadVars>>
      /\ writer' = [writer EXCEPT ![w] = Ticket]
      /\ drop' = drop /\ acked' = acked
  BY DEF ClientWrite
<1>2. /\ DiskInv' /\ MemtablesInv' /\ RecoveryInv' /\ FlushContent' /\ CompContent'
      /\ Len(hist') = Len(hist) + 1
      /\ Durable' = IF walGen' = walGen THEN Durable ELSE Len(hist) + 1
  BY <1>1, WriteContent
<1>3. Shapes /\ Durable \in 0 .. Len(hist)
  BY ShapesOfTypes, DurableFacts DEF CInv, DiskInv
<1>4. writer \in [Writers -> [pc : {"idle", "commit"}, gen : Gens, id : Ids]] /\ acked \in Ids /\ drop.id \in Ids
  BY DEF IInv, TypeOK
<1>5. AckInv'
  <2>1. acked' <= Durable'
    BY <1>1, <1>2, <1>3, <1>4, TicketsAfterWrite DEF CInv, AckInv
  <2>2. ASSUME NEW v \in Writers, writer'[v].pc = "commit"
        PROVE  writer'[v].id <= Len(hist') /\ (writer'[v].gen # walGen' => writer'[v].id <= Durable')
    <3>1. CASE v = w
      <4>1. writer'[v].id = Len(hist) + 1 /\ writer'[v].gen = walGen
        BY <1>1, <1>4, <3>1 DEF Ticket
      <4>2. Len(hist) + 1 \in Ids
        <5>1. Len(hist) \in Nat /\ Len(hist) < MaxWrites
          BY <1>1, <1>3 DEF WriteLocked, Shapes
        <5> QED
          BY <5>1, BoundsAssumption, SMT DEF Ids
      <4> QED
        BY <1>2, <1>3, <4>1, <4>2, TicketsAfterWrite
    <3>2. CASE v # w
      <4>1. writer'[v] = writer[v] /\ writer[v].id \in Ids
        BY <1>1, <1>4, <3>2
      <4>2. writer[v].id <= Len(hist) /\ (writer[v].gen # walGen => writer[v].id <= Durable)
        BY <2>2, <4>1 DEF CInv, AckInv
      <4> QED
        BY <1>2, <1>3, <4>1, <4>2, TicketsAfterWrite
    <3> QED
      BY <3>1, <3>2
  <2>3. drop'.pc = "commit" => drop'.id <= Len(hist') /\ (drop'.gen # walGen' => drop'.id <= Durable')
    BY <1>1, <1>2, <1>3, <1>4, TicketsAfterWrite DEF CInv, AckInv
  <2> QED
    BY <2>1, <2>2, <2>3 DEF AckInv
<1> QED
  BY <1>2, <1>5 DEF CInv

\* remove_locked in the loop of drop_table preserves CInv.
LEMMA DropRemoveCInv ==
    ASSUME LogsReliable, IInv, IInv', CInv, DropRemove
    PROVE  CInv'
<1>0. Min(drop.batch) \in Keys
  <2>1. drop.batch \subseteq TableKeys /\ drop.batch # {}
    BY DEF IInv, TypeOK, FilesInv, ModeInv, DropRemove
  <2>2. drop.batch \in SUBSET Nat
    BY <2>1, KeysAssumption
  <2> QED
    BY <2>1, <2>2, MinFacts, KeysAssumption
<1>1. /\ mode = "up" /\ WriteLocked(Min(drop.batch), TRUE, -1)
      /\ UNCHANGED <<sstVars, manifestDisk, manifest, mode, sstables, threadVars>>
      /\ drop'.gen = walGen /\ drop'.id = Len(hist) + 1
      /\ writer' = writer /\ acked' = acked
  <2>1. drop \in [pc : {"idle", "scan", "lock", "removing", "commit"}, cursor : Keys \cup {-1},
                  batch : SUBSET TableKeys, from : Ids, gen : Gens, id : Ids]
    BY DEF IInv, TypeOK
  <2> QED
    BY <2>1 DEF DropRemove, DropUnchanged
<1>2. /\ DiskInv' /\ MemtablesInv' /\ RecoveryInv' /\ FlushContent' /\ CompContent'
      /\ Len(hist') = Len(hist) + 1
      /\ Durable' = IF walGen' = walGen THEN Durable ELSE Len(hist) + 1
  BY <1>0, <1>1, WriteContent
<1>3. Shapes /\ Durable \in 0 .. Len(hist)
  BY ShapesOfTypes, DurableFacts DEF CInv, DiskInv
<1>4. writer \in [Writers -> [pc : {"idle", "commit"}, gen : Gens, id : Ids]] /\ acked \in Ids
  BY DEF IInv, TypeOK
<1>5. Len(hist) + 1 \in Ids
  <2>1. Len(hist) \in Nat /\ Len(hist) < MaxWrites
    BY <1>1, <1>3 DEF WriteLocked, Shapes
  <2> QED
    BY <2>1, BoundsAssumption, SMT DEF Ids
<1>6. AckInv'
  <2>1. acked' <= Durable'
    BY <1>1, <1>2, <1>3, <1>4, TicketsAfterWrite DEF CInv, AckInv
  <2>2. ASSUME NEW v \in Writers, writer'[v].pc = "commit"
        PROVE  writer'[v].id <= Len(hist') /\ (writer'[v].gen # walGen' => writer'[v].id <= Durable')
    <3>1. writer'[v] = writer[v] /\ writer[v].id \in Ids
      BY <1>1, <1>4
    <3>2. writer[v].id <= Len(hist) /\ (writer[v].gen # walGen => writer[v].id <= Durable)
      BY <2>2, <3>1 DEF CInv, AckInv
    <3> QED
      BY <1>2, <1>3, <3>1, <3>2, TicketsAfterWrite
  <2>3. drop'.id <= Len(hist') /\ (drop'.gen # walGen' => drop'.id <= Durable')
    BY <1>1, <1>2, <1>3, <1>5, TicketsAfterWrite
  <2> QED
    BY <2>1, <2>2, <2>3 DEF AckInv
<1> QED
  BY <1>2, <1>6 DEF CInv

-----------------------------------------------------------------------------
(* commit(), and the steps of the clients that touch no log. *)

\* Committing a segment makes its records durable and changes nothing else.
LEMMA CommitDisk ==
    ASSUME Shapes, Shapes', DiskInv, mode = "up", NEW g \in Gens,
           walDurable' = [walDurable EXCEPT ![g] = Len(walRecs[g])],
           UNCHANGED <<walFiles, walRecs, walGen, walBad, hist, sst, manifestDisk, manifest, mode, flush>>
    PROVE  /\ DiskInv'
           /\ Durable' \in Durable .. Len(hist)
           /\ g = walGen => Durable' = Len(hist)
<1>0. /\ SegmentsInv /\ RecordsInv /\ walGen \in Gens /\ Len(hist) \in Nat
      /\ walDurable \in [Gens -> Nat] /\ walFiles \subseteq Gens
      /\ Durable \in 0 .. Len(hist)
      /\ \A h \in Gens : walDurable[h] <= Len(walRecs[h]) /\ Len(walRecs[h]) \in Nat
      /\ Serving /\ Serving' /\ (LogsOpen' <=> LogsOpen)
  BY DurableFacts DEF DiskInv, SegmentsInv, Shapes, Serving, LogsOpen
<1>1. \A h \in Gens : h # g => walDurable'[h] = walDurable[h]
  BY <1>0
<1>2. walDurable'[g] = Len(walRecs[g])
  BY <1>0
<1>3. g # walGen => walDurable'[g] = walDurable[g]
  BY <1>2 DEF DiskInv, SegmentsInv
<1>4. g = walGen => Durable' = Len(hist)
  BY <1>0, <1>2, SMT DEF Durable
<1>5. g # walGen => Durable' = Durable /\ walDurable'[walGen] = walDurable[walGen]
  BY <1>0, <1>1 DEF Durable
<1>6. Durable' \in Durable .. Len(hist)
  BY <1>0, <1>4, <1>5, SMT
<1>7. \A h, k, id : Rec(h, k, id)' <=> Rec(h, k, id)
  BY DEF Rec
<1>8. \A k, id : InFile(k, id)' <=> InFile(k, id)
  BY DEF InFile
<1>9. LiveLogs' = LiveLogs
  BY DEF LiveLogs
<1>10. \A k, id : Entry(k, id)' <=> Entry(k, id)
  BY <1>7, <1>8, <1>9 DEF Entry
<1>11. \A k, id : WriteOf(k, id)' <=> WriteOf(k, id)
  BY DEF WriteOf
<1>12. \A k, id, n : LastOf(k, id, n)' <=> LastOf(k, id, n)
  BY <1>11 DEF LastOf
<1>13. SegmentsInv'
  <2>1. \A h \in Gens : walDurable'[h] <= Len(walRecs[h])
    BY <1>0, <1>1, <1>2, SMT
  <2>2. \A h \in Gens : h = walGen \/ walDurable'[h] = Len(walRecs[h])
    BY <1>0, <1>1, <1>2 DEF SegmentsInv
  <2> QED
    BY <1>0, <2>1, <2>2 DEF SegmentsInv
<1>14. RecordsInv'
  <2>1. ASSUME NEW h \in walFiles, NEW i \in 1 .. walDurable'[h]
        PROVE  walRecs[h][i].id <= Durable'
    <3>0. h \in Gens
      BY <1>0
    <3>1. CASE walDurable'[h] = walDurable[h]
      <4>1. walRecs[h][i].id <= Durable
        BY <2>1, <3>1 DEF RecordsInv, DiskInv
      <4>2. i \in 1 .. Len(walRecs[h])
        BY <1>0, <3>0, <3>1, SMT
      <4>3. walRecs[h][i].id \in Nat
        BY <3>0, <4>2, NumberSets DEF Shapes
      <4> QED
        BY <1>0, <1>6, <4>1, <4>3, SMT
    <3>2. CASE h = g /\ g = walGen
      <4>1. i \in 1 .. Len(walRecs[h])
        BY <1>2, <3>2
      <4>2. walRecs[h][i].key \in Keys /\ walRecs[h][i].id \in Ids /\ i \in DOMAIN walRecs[h]
        BY <3>0, <4>1 DEF Shapes
      <4>3. Rec(h, walRecs[h][i].key, walRecs[h][i].id)
        BY <4>2 DEF Rec
      <4>4. walRecs[h][i].id \in 1 .. Len(hist)
        BY <3>0, <4>2, <4>3, HeldIsWritten DEF DiskInv
      <4> QED
        BY <1>0, <1>4, <3>2, <4>4, SMT
    <3> QED
      BY <1>1, <1>3, <3>0, <3>1, <3>2
  <2>2. ASSUME NEW i \in walDurable'[walGen] + 1 .. Len(walRecs[walGen])
        PROVE  walRecs[walGen][i].id = Len(hist) - Len(walRecs[walGen]) + i
    <3>1. CASE g = walGen
      BY <1>0, <1>2, <3>1, SMT
    <3>2. CASE g # walGen
      BY <1>0, <1>5, <3>2 DEF RecordsInv
    <3> QED
      BY <3>1, <3>2
  <2> QED
    BY <1>0, <1>7, <1>11, <2>1, <2>2 DEF RecordsInv
<1>15. RecordOrder'
  BY <1>7 DEF DiskInv, RecordOrder
<1>16. FilesHold'
  <2>1. ASSUME NEW f \in manifestDisk.files, NEW k \in Keys, sst[f.path][k] # 0
        PROVE  WriteOf(k, sst[f.path][k]) /\ sst[f.path][k] <= Durable'
    <3>1. WriteOf(k, sst[f.path][k]) /\ sst[f.path][k] <= Durable /\ sst[f.path][k] \in Nat
      BY <2>1, NumberSets DEF FilesHold, DiskInv, Shapes
    <3> QED
      BY <1>0, <1>6, <3>1, SMT
  <2> QED
    BY <1>11, <2>1 DEF DiskInv, FilesHold
<1>17. LogsOverFiles'
  BY <1>0, <1>7, <1>8 DEF DiskInv, LogsOverFiles
<1>18. \A n \in Durable' .. Len(hist) : n \in Durable .. Len(hist)
  BY <1>0, <1>6, SMT
<1>19. Covered'
  BY <1>10, <1>12, <1>18 DEF DiskInv, Covered
<1>20. UnlinkCovered'
  BY <1>7, <1>10, <1>12, <1>18 DEF DiskInv, UnlinkCovered
<1> QED
  BY <1>4, <1>6, <1>13, <1>14, <1>15, <1>16, <1>17, <1>19, <1>20 DEF DiskInv

\* Committing a segment preserves CInv but for the tickets.
LEMMA CommitContent ==
    ASSUME IInv, IInv', CInv, mode = "up", NEW g \in Gens,
           walDurable' = [walDurable EXCEPT ![g] = Len(walRecs[g])],
           UNCHANGED <<walFiles, walRecs, sstVars, manifestDisk, mode, tableVars, sstables,
                       manifest, threadVars, hist>>
    PROVE  /\ DiskInv' /\ MemtablesInv' /\ RecoveryInv' /\ FlushContent' /\ CompContent'
           /\ Durable \in Nat /\ Len(hist) \in Nat
           /\ Durable' \in Durable .. Len(hist)
           /\ g = walGen => Durable' = Len(hist)
<1>1. Shapes /\ Shapes'
  BY ShapesOfTypes, ShapesOfTypesNext
<1>2. UNCHANGED <<walGen, walBad, memtable, immutables, sst, flush, comp>>
  BY DEF tableVars, sstVars, threadVars
<1>3. /\ DiskInv'
      /\ Durable' \in Durable .. Len(hist)
      /\ g = walGen => Durable' = Len(hist)
  BY <1>1, <1>2, CommitDisk DEF CInv
<1>4. MemtablesInv'
  BY <1>2, MemtablesFrame DEF CInv, Serving
<1>5. FlushContent'
  BY <1>2, FlushContentFrame DEF CInv
<1>6. CompContent'
  <2>1. \A id : Deleted(id) => Deleted(id)'
    BY DEF Deleted
  <2> QED
    BY <1>2, <2>1, MergeFrame DEF CInv
<1>7. RecoveryInv'
  BY DEF RecoveryInv, Serving
<1>8. Durable \in Nat /\ Len(hist) \in Nat
  BY <1>1, DurableFacts DEF CInv, DiskInv
<1> QED
  BY <1>3, <1>4, <1>5, <1>6, <1>7, <1>8

\* An acknowledgement after the commit of its segment is of a durable write.
LEMMA AckAfterCommit ==
    ASSUME Durable \in Nat, Len(hist) \in Nat, Durable' \in Durable .. Len(hist),
           NEW g \in Gens, g = walGen => Durable' = Len(hist),
           NEW id \in Ids, id <= Len(hist), g # walGen => id <= Durable,
           acked \in Ids, acked <= Durable, acked' = Max({acked, id})
    PROVE  acked' <= Durable'
<1>1. acked \in Nat /\ id \in Nat
  BY BoundsAssumption, SMT DEF Ids
<1>2. acked' \in {acked, id}
  BY <1>1, PairFacts
<1> QED
  BY <1>1, <1>2, SMT

\* commit() of a client's segment, and its acknowledgement, preserve CInv.
LEMMA CommitCInv ==
    ASSUME IInv, IInv', CInv, NEW w \in Writers, Commit(w)
    PROVE  CInv'
<1> DEFINE g == writer[w].gen
<1>1. /\ writer \in [Writers -> [pc : {"idle", "commit"}, gen : Gens, id : Ids]]
      /\ acked \in Ids /\ drop.id \in Ids
      /\ g \in Gens /\ writer[w].id \in Ids
  BY DEF IInv, TypeOK
<1>2. /\ mode = "up"
      /\ walDurable' = [walDurable EXCEPT ![g] = Len(walRecs[g])]
      /\ acked' = Max({acked, writer[w].id})
      /\ writer' = [writer EXCEPT ![w] = IdleWriter]
      /\ writer[w].pc = "commit"
      /\ UNCHANGED <<walFiles, walRecs, sstVars, manifestDisk, mode, tableVars, sstables,
                     manifest, threadVars, hist, drop>>
  BY DEF Commit
<1> HIDE DEF g
<1>3. /\ DiskInv' /\ MemtablesInv' /\ RecoveryInv' /\ FlushContent' /\ CompContent'
      /\ Durable \in Nat /\ Len(hist) \in Nat
      /\ Durable' \in Durable .. Len(hist)
      /\ g = walGen => Durable' = Len(hist)
  BY <1>1, <1>2, CommitContent
<1>4. AckInv'
  <2>0. walGen' = walGen /\ hist' = hist
    BY <1>2 DEF tableVars
  <2>1. acked' <= Durable'
    <3>1. writer[w].id <= Len(hist) /\ (g # walGen => writer[w].id <= Durable) /\ acked <= Durable
      BY <1>2 DEF CInv, AckInv, g
    <3> QED
      BY <1>1, <1>2, <1>3, <3>1, AckAfterCommit
  <2>2. ASSUME NEW v \in Writers, writer'[v].pc = "commit"
        PROVE  writer'[v].id <= Len(hist) /\ (writer'[v].gen # walGen => writer'[v].id <= Durable')
    <3>1. writer'[v] = writer[v] /\ writer[v].id \in Nat
      <4>1. v # w
        BY <1>1, <1>2, <2>2 DEF IdleWriter
      <4> QED
        BY <1>1, <1>2, <4>1, BoundsAssumption, SMT DEF Ids
    <3>2. writer[v].id <= Len(hist) /\ (writer[v].gen # walGen => writer[v].id <= Durable)
      BY <2>2, <3>1 DEF CInv, AckInv
    <3> QED
      BY <1>3, <3>1, <3>2, SMT
  <2>3. drop.pc = "commit" => drop.id <= Len(hist) /\ (drop.gen # walGen => drop.id <= Durable')
    <3>1. drop.id \in Nat
      BY <1>1, BoundsAssumption, SMT DEF Ids
    <3> QED
      BY <1>3, <3>1, SMT DEF CInv, AckInv
  <2> QED
    BY <1>2, <2>0, <2>1, <2>2, <2>3 DEF AckInv
<1> QED
  BY <1>3, <1>4 DEF CInv

\* The same for the segment of the last removal of drop_table.
LEMMA DropCommitCInv ==
    ASSUME IInv, IInv', CInv, DropCommit
    PROVE  CInv'
<1> DEFINE g == drop.gen
<1>1. /\ writer \in [Writers -> [pc : {"idle", "commit"}, gen : Gens, id : Ids]]
      /\ drop \in [pc : {"idle", "scan", "lock", "removing", "commit"}, cursor : Keys \cup {-1},
                   batch : SUBSET TableKeys, from : Ids, gen : Gens, id : Ids]
      /\ acked \in Ids /\ drop.id \in Ids /\ g \in Gens
  BY DEF IInv, TypeOK
<1>2. /\ mode = "up"
      /\ walDurable' = [walDurable EXCEPT ![g] = Len(walRecs[g])]
      /\ acked' = Max({acked, drop.id})
      /\ drop.pc = "commit" /\ drop'.pc = "scan"
      /\ UNCHANGED <<walFiles, walRecs, sstVars, manifestDisk, mode, tableVars, sstables,
                     manifest, threadVars, hist, writer>>
  BY <1>1 DEF DropCommit, DropUnchanged
<1> HIDE DEF g
<1>3. /\ DiskInv' /\ MemtablesInv' /\ RecoveryInv' /\ FlushContent' /\ CompContent'
      /\ Durable \in Nat /\ Len(hist) \in Nat
      /\ Durable' \in Durable .. Len(hist)
      /\ g = walGen => Durable' = Len(hist)
  BY <1>1, <1>2, CommitContent
<1>4. AckInv'
  <2>0. walGen' = walGen /\ hist' = hist
    BY <1>2 DEF tableVars
  <2>1. acked' <= Durable'
    <3>1. drop.id <= Len(hist) /\ (g # walGen => drop.id <= Durable) /\ acked <= Durable
      BY <1>2 DEF CInv, AckInv, g
    <3> QED
      BY <1>1, <1>2, <1>3, <3>1, AckAfterCommit
  <2>2. ASSUME NEW v \in Writers, writer[v].pc = "commit"
        PROVE  writer[v].id <= Len(hist) /\ (writer[v].gen # walGen => writer[v].id <= Durable')
    <3>1. writer[v].id \in Nat
      BY <1>1, BoundsAssumption, SMT DEF Ids
    <3>2. writer[v].id <= Len(hist) /\ (writer[v].gen # walGen => writer[v].id <= Durable)
      BY <2>2 DEF CInv, AckInv
    <3> QED
      BY <1>3, <3>1, <3>2, SMT
  <2> QED
    BY <1>2, <2>0, <2>1, <2>2 DEF AckInv
<1> QED
  BY <1>3, <1>4 DEF CInv

\* The steps of drop_table that only move its thread.
LEMMA DropMoveCInv ==
    ASSUME CInv, DropUnchanged, UNCHANGED <<walVars, tableVars, hist, acked>>,
           drop'.pc # "commit"
    PROVE  CInv'
<1>1. UNCHANGED <<walFiles, walRecs, walDurable, walGen, walBad, memtable, immutables, hist, acked,
                  sst, manifestDisk, manifest, mode, sstables, flush, comp, writer>>
  BY DEF DropUnchanged, walVars, tableVars, sstVars, threadVars
<1>2. DiskInv'
  BY <1>1, DiskFrame DEF CInv, DiskInv, FilesHold, Serving, LogsOpen
<1>3. MemtablesInv'
  BY <1>1, MemtablesFrame DEF CInv, Serving
<1>4. FlushContent'
  BY <1>1, FlushContentFrame DEF CInv
<1>5. CompContent'
  <2>1. \A id : Deleted(id) => Deleted(id)'
    BY <1>1 DEF Deleted
  <2> QED
    BY <1>1, <2>1, MergeFrame DEF CInv
<1>6. RecoveryInv'
  <2>1. \A g, k, id : Rec(g, k, id)' <=> Rec(g, k, id)
    BY <1>1 DEF Rec
  <2> QED
    BY <1>1, <2>1 DEF CInv, RecoveryInv, Serving
<1>7. AckInv'
  <2>1. Durable' = Durable
    BY <1>1 DEF Durable
  <2> QED
    BY <1>1, <2>1 DEF CInv, AckInv
<1> QED
  BY <1>2, <1>3, <1>4, <1>5, <1>6, <1>7 DEF CInv

\* Every step of drop_table preserves CInv.
LEMMA DropStepCInv ==
    ASSUME LogsReliable, IInv, IInv', CInv, DropStep
    PROVE  CInv'
<1>0. drop \in [pc : {"idle", "scan", "lock", "removing", "commit"}, cursor : Keys \cup {-1},
                batch : SUBSET TableKeys, from : Ids, gen : Gens, id : Ids]
  BY DEF IInv, TypeOK
<1>1. CASE DropStart
  <2>1. drop'.pc = "scan"
    BY <1>1 DEF DropStart, IdleDrop
  <2> QED
    BY <1>1, <2>1, DropMoveCInv DEF DropStart
<1>2. CASE DropScan
  <2>1. drop' = IdleDrop \/ \E keys, last : drop' = [drop EXCEPT !.pc = "lock", !.batch = keys, !.cursor = last]
    BY <1>2 DEF DropScan
  <2>2. drop'.pc # "commit"
    <3>1. CASE drop' = IdleDrop
      BY <3>1 DEF IdleDrop
    <3>2. ASSUME NEW keys, NEW last, drop' = [drop EXCEPT !.pc = "lock", !.batch = keys, !.cursor = last]
          PROVE  drop'.pc = "lock"
      BY <1>0, <3>2
    <3> QED
      BY <2>1, <3>1, <3>2
  <2> QED
    BY <1>2, <2>2, DropMoveCInv DEF DropScan
<1>3. CASE DropLock
  <2>1. drop'.pc = "removing"
    BY <1>0, <1>3 DEF DropLock
  <2> QED
    BY <1>3, <2>1, DropMoveCInv DEF DropLock
<1> QED
  BY <1>1, <1>2, <1>3, DropRemoveCInv, DropCommitCInv DEF DropStep

-----------------------------------------------------------------------------
(* The steps of the flush thread. *)

\* The steps of the flush thread before and after its publish.
LEMMA FlushQuietCInv ==
    ASSUME IInv, CInv, FlushFrame, Serving,
           UNCHANGED <<walVars, immutables, sstables>>,
           manifestDisk'.files = manifestDisk.files, manifest'.files = manifest.files,
           flush.pc # "unlink", flush'.pc # "unlink", FlushContent',
           \A f \in manifestDisk.files : sst'[f.path] = sst[f.path],
           comp.pc = "publish" => /\ sst'[comp.seq] = sst[comp.seq]
                                  /\ \A j \in DOMAIN comp.inputs : sst'[comp.inputs[j]] = sst[comp.inputs[j]]
    PROVE  CInv'
<1>1. UNCHANGED <<walFiles, walRecs, walDurable, walGen, walBad, memtable, immutables, hist, acked,
                  mode, sstables, comp, writer, drop>>
  BY DEF FlushFrame, walVars, clientVars, histVars
<1>2. Serving' /\ (LogsOpen' <=> LogsOpen)
  BY <1>1 DEF Serving, LogsOpen
<1>3. DiskInv'
  <2>1. mode' # "down" => manifest'.files = manifestDisk.files
    BY <1>1 DEF CInv, DiskInv, FilesHold
  <2> QED
    BY <1>1, <1>2, <2>1, DiskFrame DEF CInv
<1>4. MemtablesInv'
  BY <1>1, <1>2, MemtablesFrame DEF CInv
<1>5. CompContent'
  <2>1. \A id : Deleted(id) => Deleted(id)'
    BY <1>1 DEF Deleted
  <2> QED
    BY <1>1, <2>1, MergeFrame DEF CInv
<1>6. RecoveryInv'
  BY <1>1, <1>2 DEF RecoveryInv, Serving
<1>7. AckInv'
  <2>1. Durable' = Durable
    BY <1>1 DEF Durable
  <2> QED
    BY <1>1, <2>1 DEF CInv, AckInv
<1> QED
  BY <1>3, <1>4, <1>5, <1>6, <1>7 DEF CInv

\* FlushExit, FlushTake and FlushWriteFails.
LEMMA FlushMoveCInv ==
    ASSUME IInv, CInv, FlushExit \/ FlushTake \/ FlushWriteFails
    PROVE  CInv'
<1>0. /\ flush \in [pc : {"wait", "write", "publish", "unlink", "exited"}, gen : Gens, seq : Seqs]
      /\ manifest \in ManifestContent
      /\ FlushTop \in {"wait", "exited"}
  BY DEF IInv, TypeOK, FlushTop
<1>1. /\ FlushFrame /\ Serving /\ UNCHANGED <<walVars, immutables, sstables, sst, manifestDisk>>
      /\ flush.pc # "unlink"
  BY DEF FlushExit, FlushTake, FlushWriteFails, FlushGoes, diskVars, sstVars
<1>2. manifest'.files = manifest.files
  <2>1. CASE FlushTake
    BY <1>0, <2>1 DEF FlushTake, TakeSequence, ManifestContent
  <2> QED
    BY <2>1 DEF FlushExit, FlushWriteFails
<1>3. \/ flush'.pc \in {"wait", "exited"}
      \/ flush'.pc = "write" /\ flush'.gen = immutables[1].gen
  <2>1. CASE FlushTake
    BY <2>1 DEF FlushTake
  <2>2. CASE FlushExit \/ FlushWriteFails
    BY <1>0, <2>2 DEF FlushExit, FlushWriteFails, FlushGoes
  <2> QED
    BY <2>1, <2>2
<1>4. FlushContent'
  BY <1>1, <1>3 DEF FlushContent, FlushBusy
<1> QED
  BY <1>1, <1>2, <1>3, <1>4, FlushQuietCInv

\* The file of the flush appears, or is deleted after a failed save.
LEMMA FlushFileCInv ==
    ASSUME IInv, CInv, FlushWrite \/ FlushPublishFails
    PROVE  CInv'
<1> DEFINE p == flush.seq
<1>0. /\ flush \in [pc : {"wait", "write", "publish", "unlink", "exited"}, gen : Gens, seq : Seqs]
      /\ FlushTop \in {"wait", "exited"}
      /\ p \in Seqs /\ comp.seq \in Seqs
  BY DEF IInv, TypeOK, FlushTop
<1>1. /\ FlushFrame /\ Serving /\ UNCHANGED <<walVars, immutables, sstables, manifestDisk, manifest>>
      /\ FlushBusy
  BY DEF FlushWrite, FlushPublishFails, FlushGoes, FlushBusy
<1>2. Unnamed(p) /\ (CompBusy => comp.seq # p)
  BY <1>1 DEF IInv, FilesInv, FlushInv, CompInv
<1>3. \E tab : sst' = [sst EXCEPT ![p] = tab]
  <2>1. CASE FlushWrite
    BY <2>1 DEF FlushWrite, CreateSst
  <2>2. CASE FlushPublishFails
    BY <2>2 DEF FlushPublishFails, RemoveSst
  <2> QED
    BY <2>1, <2>2
<1>4. /\ \A f \in manifestDisk.files : sst'[f.path] = sst[f.path]
      /\ comp.pc = "publish" => /\ sst'[comp.seq] = sst[comp.seq]
                                /\ \A j \in DOMAIN comp.inputs : sst'[comp.inputs[j]] = sst[comp.inputs[j]]
  <2> HIDE DEF p
  <2>1. PICK tab : sst' = [sst EXCEPT ![p] = tab]
    BY <1>3
  <2>2. /\ \A f \in manifestDisk.files : sst'[f.path] = sst[f.path]
        /\ comp.pc = "publish" => \A j \in DOMAIN comp.inputs : sst'[comp.inputs[j]] = sst[comp.inputs[j]]
        /\ \A q \in Seqs : q # p => sst'[q] = sst[q]
    BY <1>0, <1>2, <2>1, UnnamedSst
  <2> QED
    BY <1>0, <1>2, <2>2 DEF CompBusy
<1>5. FlushContent' /\ flush'.pc # "unlink"
  <2>1. CASE FlushWrite
    <3>1. sst' = [sst EXCEPT ![p] = immutables[1].tab] /\ flush' = [flush EXCEPT !.pc = "publish"]
      BY <2>1 DEF FlushWrite, CreateSst, FlushGoes
    <3>2. sst'[p] = immutables[1].tab
      BY <1>0, <3>1 DEF IInv, TypeOK
    <3>3. flush'.pc = "publish" /\ flush'.seq = p /\ flush'.gen = flush.gen
      BY <1>0, <3>1
    <3> QED
      BY <1>1, <3>2, <3>3 DEF CInv, FlushContent, FlushBusy
  <2>2. CASE FlushPublishFails
    <3>1. flush'.pc \in {"wait", "exited"}
      BY <1>0, <2>2 DEF FlushPublishFails, FlushGoes
    <3> QED
      BY <3>1 DEF FlushContent, FlushBusy
  <2> QED
    BY <2>1, <2>2
<1>6. flush.pc # "unlink"
  BY <1>1 DEF FlushBusy
<1> QED
  BY <1>1, <1>4, <1>5, <1>6, FlushQuietCInv

\* A sequence without its first element; one more element in front.
LEMMA TailFacts ==
    ASSUME NEW S, NEW s \in Seq(S), Len(s) >= 1
    PROVE  /\ Len(Tail(s)) = Len(s) - 1
           /\ DOMAIN Tail(s) = 1 .. Len(s) - 1
           /\ \A i \in 1 .. Len(s) - 1 : Tail(s)[i] = s[i + 1]
BY SMT

LEMMA ConsFacts ==
    ASSUME NEW S, NEW s \in Seq(S), NEW x \in S
    PROVE  /\ <<x>> \o s \in Seq(S)
           /\ Len(<<x>> \o s) = Len(s) + 1
           /\ \A i \in 1 .. Len(s) : (<<x>> \o s)[i + 1] = s[i]
BY SMT

\* The memtable being flushed is the oldest, and so is its segment.
LEMMA OldestFirst ==
    ASSUME IInv, CInv, FlushBusy
    PROVE  LET g == flush.gen
               tab == immutables[1].tab
           IN  /\ Len(immutables) >= 1
               /\ g \in walFiles /\ g \in Gens /\ g < walGen
               /\ \A i \in 2 .. Len(immutables) : g < immutables[i].gen
               /\ \A h \in walFiles : h = g \/ g < h
               /\ Holds(tab, g)
               /\ \A k \in Keys : tab[k] \in Ids
               /\ \A k \in Keys, d \in Ids : Rec(g, k, d) => d <= Durable
<1> DEFINE g == flush.gen
           tab == immutables[1].tab
           N == Len(immutables)
<1>1. Shapes
  BY ShapesOfTypes
<1>2. N >= 1 /\ N \in Nat /\ DOMAIN immutables = 1 .. N
  <2>1. immutables # <<>> /\ immutables \in Seq([tab : Table, gen : Gens])
    BY DEF IInv, FilesInv, FlushInv, TypeOK
  <2>2. \A s \in Seq([tab : Table, gen : Gens]) : s # <<>> => Len(s) >= 1
    BY SMT
  <2> QED
    BY <1>1, <2>1, <2>2 DEF Shapes
<1>3. Serving /\ flush.pc # "unlink" /\ flush.gen = immutables[1].gen
  BY DEF CInv, FlushContent, FlushBusy, IInv, FilesInv, FlushInv
<1>4. /\ \A i \in 1 .. N : /\ Holds(immutables[i].tab, immutables[i].gen)
                           /\ immutables[i].gen \in walFiles
                           /\ immutables[i].gen < walGen
      /\ \A i, j \in 1 .. N : i < j => immutables[i].gen < immutables[j].gen
      /\ SegmentsMatchMemtables
  BY <1>2, <1>3 DEF CInv, MemtablesInv
<1>5. 1 \in 1 .. N /\ \A i \in 2 .. N : i \in 1 .. N /\ 1 < i
  BY <1>2, SMT
<1>6. g \in walFiles /\ g \in Gens /\ g < walGen /\ Holds(tab, g) /\ \A k \in Keys : tab[k] \in Ids
  BY <1>1, <1>3, <1>4, <1>5 DEF Shapes
<1>7. \A i \in 2 .. N : g < immutables[i].gen
  BY <1>3, <1>4, <1>5
<1>8. \A h \in walFiles : h = g \/ g < h
  <2>1. SUFFICES ASSUME NEW h \in walFiles PROVE h = g \/ g < h
    OBVIOUS
  <2>2. h = walGen \/ \E i \in 1 .. N : h = immutables[i].gen
    BY <1>2, <1>3, <1>4, SMT DEF SegmentsMatchMemtables
  <2>3. \A i \in 1 .. N : i = 1 \/ i \in 2 .. N
    BY <1>2, SMT
  <2> QED
    BY <1>3, <1>6, <1>7, <2>2, <2>3
<1>9. ASSUME NEW k \in Keys, NEW d \in Ids, Rec(g, k, d) PROVE d <= Durable
  <2>1. PICK i \in DOMAIN walRecs[g] : walRecs[g][i].key = k /\ walRecs[g][i].id = d
    BY <1>9 DEF Rec
  <2>2. g # walGen
    <3>1. \A a, b \in Gens : a < b => a # b
      BY SMT DEF Gens
    <3> QED
      BY <1>1, <1>6, <3>1 DEF Shapes
  <2>3. walDurable[g] = Len(walRecs[g]) /\ DOMAIN walRecs[g] = 1 .. Len(walRecs[g])
    BY <1>1, <1>6, <2>2 DEF CInv, DiskInv, SegmentsInv, Shapes
  <2> QED
    BY <1>6, <2>1, <2>3 DEF CInv, DiskInv, RecordsInv
<1> QED
  BY <1>2, <1>6, <1>7, <1>8, <1>9

\* Publishing a flush: its file holds what its segment did, which may now go.
LEMMA FlushPublishCInv ==
    ASSUME IInv, IInv', CInv, FlushPublish
    PROVE  CInv'
<1> DEFINE g == flush.gen
           p == flush.seq
           tab == immutables[1].tab
           meta == [path |-> p, seq |-> p]
           files == manifestDisk.files
           N == Len(immutables)
<1>1. /\ flush.pc = "publish" /\ flush' = [flush EXCEPT !.pc = "unlink"] /\ Serving
      /\ manifest' = [manifest EXCEPT !.files = @ \cup {meta}]
      /\ manifestDisk' = manifest'
      /\ sstables' = <<p>> \o sstables
      /\ immutables' = Tail(immutables)
  BY DEF FlushPublish, FlushGoes, SaveManifest
<1>2. UNCHANGED <<walFiles, walRecs, walDurable, sst, mode, memtable, walGen, walBad, writer, drop, hist, acked, comp>>
  BY DEF FlushPublish, FlushFrame, walVars, sstVars, clientVars, histVars
<1>3. Shapes /\ Shapes'
  BY ShapesOfTypes, ShapesOfTypesNext
<1>4. FlushBusy
  BY <1>1 DEF FlushBusy
<1>5. /\ N >= 1
      /\ g \in walFiles /\ g \in Gens /\ g < walGen
      /\ \A i \in 2 .. N : g < immutables[i].gen
      /\ \A h \in walFiles : h = g \/ g < h
      /\ Holds(tab, g)
      /\ \A k \in Keys : tab[k] \in Ids
      /\ \A k \in Keys, d \in Ids : Rec(g, k, d) => d <= Durable
  BY <1>4, OldestFirst
<1>6. /\ flush'.pc = "unlink" /\ flush'.gen = g
      /\ p \in Seqs
      /\ sstables \in Seq(Seqs)
      /\ manifest \in ManifestContent
  BY <1>1 DEF IInv, TypeOK
<1>7. manifest'.files = manifest.files \cup {meta} /\ manifest.files = files /\ manifestDisk'.files = files \cup {meta}
  BY <1>1, <1>6 DEF CInv, DiskInv, FilesHold, Serving, ManifestContent
<1>8. sst[p] = tab /\ \A f \in files : f.seq < p
  BY <1>1, <1>4, <1>7 DEF CInv, FlushContent, IInv, FilesInv, FlushInv
<1>9. /\ \A h, k, e : Rec(h, k, e)' <=> Rec(h, k, e)
      /\ \A k, e : WriteOf(k, e)' <=> WriteOf(k, e)
      /\ \A k, e, n : LastOf(k, e, n)' <=> LastOf(k, e, n)
      /\ Durable' = Durable
      /\ Serving' /\ (LogsOpen' <=> LogsOpen) /\ LogsOpen
  BY <1>1, <1>2 DEF Rec, WriteOf, LastOf, Durable, Serving, LogsOpen
<1>10. \A k, e : InFile(k, e)' <=> InFile(k, e) \/ (e # 0 /\ tab[k] = e)
  <2>1. \A k, e : InFile(k, e)' <=> e # 0 /\ \E f \in files \cup {meta} : sst[f.path][k] = e
    BY <1>2, <1>7 DEF InFile
  <2>2. \A k, e : InFile(k, e) <=> e # 0 /\ \E f \in files : sst[f.path][k] = e
    BY DEF InFile
  <2>3. meta.path = p
    OBVIOUS
  <2> HIDE DEF meta, files, p, tab
  <2> QED
    BY <1>8, <2>1, <2>2, <2>3
<1>11. LiveLogs = walFiles /\ LiveLogs' = walFiles \ {g}
  BY <1>1, <1>2, <1>6 DEF LiveLogs
<1>12. \A k \in Keys, e \in Ids : e # 0 /\ tab[k] = e => Rec(g, k, e)
  BY <1>5 DEF Holds
<1>13. \A k \in Keys, e \in Ids : Entry(k, e)' => Entry(k, e)
  BY <1>5, <1>9, <1>10, <1>11, <1>12 DEF Entry
<1>14. \A k \in Keys, e \in Ids : Entry(k, e) => Entry(k, e)' \/ Rec(g, k, e)
  BY <1>9, <1>10, <1>11 DEF Entry
<1>15. SegmentsInv' /\ RecordsInv' /\ RecordOrder'
  <2>1. SegmentsInv'
    BY <1>1, <1>2, <1>9 DEF CInv, DiskInv, SegmentsInv
  <2>2. RecordsInv'
    BY <1>2, <1>9 DEF CInv, DiskInv, RecordsInv
  <2>3. RecordOrder'
    BY <1>2, <1>9, SMT DEF CInv, DiskInv, RecordOrder
  <2> QED
    BY <2>1, <2>2, <2>3
<1>16. FilesHold'
  <2>1. ASSUME NEW k \in Keys, tab[k] # 0
        PROVE  /\ WriteOf(k, tab[k]) /\ tab[k] <= Durable
               /\ \A f \in files : tab[k] >= sst[f.path][k]
    <3>1. Rec(g, k, tab[k]) /\ tab[k] \in Ids
      BY <1>5, <2>1 DEF Holds
    <3>2. WriteOf(k, tab[k]) /\ tab[k] <= Durable
      BY <1>5, <3>1 DEF CInv, DiskInv, RecordsInv
    <3>3. ASSUME NEW f \in files PROVE tab[k] >= sst[f.path][k]
      <4>1. sst[f.path][k] \in Ids
        BY <1>3 DEF Shapes
      <4>2. CASE sst[f.path][k] = 0
        BY <3>1, <4>2, SMT DEF Ids
      <4>3. CASE sst[f.path][k] # 0
        <5>1. InFile(k, sst[f.path][k])
          BY <4>3 DEF InFile
        <5>2. PICK c \in Ids : Rec(g, k, c) /\ c >= sst[f.path][k]
          BY <1>5, <3>1, <4>1, <5>1 DEF CInv, DiskInv, LogsOverFiles
        <5>3. c <= tab[k]
          BY <1>5, <5>2 DEF Holds
        <5>4. tab[k] \in Nat /\ c \in Nat /\ sst[f.path][k] \in Nat
          BY <3>1, <4>1, NumberSets
        <5> QED
          BY <5>2, <5>3, <5>4, SMT
      <4> QED
        BY <4>2, <4>3
    <3> QED
      BY <3>2, <3>3
  <2>2. ASSUME NEW f \in files \cup {meta}, NEW k \in Keys, sst[f.path][k] # 0
        PROVE  WriteOf(k, sst[f.path][k]) /\ sst[f.path][k] <= Durable
    <3>1. CASE f \in files
      BY <2>2, <3>1 DEF CInv, DiskInv, FilesHold
    <3>2. CASE f = meta
      BY <1>8, <2>1, <2>2, <3>2
    <3> QED
      BY <3>1, <3>2
  <2>3. ASSUME NEW f \in files \cup {meta}, NEW h \in files \cup {meta}, NEW k \in Keys,
               f.seq > h.seq, sst[f.path][k] # 0
        PROVE  sst[f.path][k] >= sst[h.path][k]
    <3>0. p \in Nat /\ \A x \in files : x.seq \in Nat
      BY <1>3, <1>6, NumberSets DEF Shapes
    <3>1. CASE f \in files /\ h \in files
      BY <2>3, <3>1 DEF CInv, DiskInv, FilesHold
    <3>2. CASE f = meta /\ h \in files
      BY <1>8, <2>1, <2>3, <3>2
    <3>3. h # meta
      <4>1. meta.seq = p /\ \A x \in files : x.seq < p
        BY <1>8
      <4> QED
        BY <2>3, <3>0, <4>1, SMT
    <3> QED
      BY <3>1, <3>2, <3>3
  <2> QED
    BY <1>1, <1>2, <1>7, <1>9, <2>2, <2>3 DEF FilesHold
<1>17. LogsOverFiles'
  <2>1. ASSUME NEW h \in walFiles, NEW k \in Keys, NEW d \in Ids, NEW e \in Ids,
               Rec(h, k, d), e # 0, tab[k] = e
        PROVE  /\ \E c \in Ids : Rec(h, k, c) /\ c >= e
               /\ h = walGen => d >= e
    <3>0. d \in Nat /\ e \in Nat
      BY SMT DEF Ids
    <3>1. Rec(g, k, e)
      BY <1>12, <2>1
    <3>2. CASE g < h
      <4>1. e <= d
        BY <1>5, <2>1, <3>1, <3>2 DEF CInv, DiskInv, RecordOrder
      <4> QED
        BY <2>1, <3>0, <4>1
    <3>3. CASE h = g
      <4>1. h # walGen
        <5>1. \A a, b \in Gens : a < b => a # b
          BY SMT DEF Gens
        <5> QED
          BY <1>3, <1>5, <3>3, <5>1 DEF Shapes
      <4> QED
        BY <3>0, <3>1, <3>3, <4>1, SMT
    <3> QED
      BY <1>5, <3>2, <3>3
  <2>2. ASSUME NEW h \in walFiles, NEW k \in Keys, NEW d \in Ids, NEW e \in Ids, Rec(h, k, d), InFile(k, e)'
        PROVE  \E c \in Ids : Rec(h, k, c) /\ c >= e
    BY <1>10, <2>1, <2>2, SMT DEF CInv, DiskInv, LogsOverFiles
  <2>3. ASSUME NEW k \in Keys, NEW d \in Ids, NEW e \in Ids, Rec(walGen, k, d), InFile(k, e)'
        PROVE  d >= e
    <3>1. walGen \in walFiles
      BY <1>9 DEF CInv, DiskInv, SegmentsInv
    <3> QED
      BY <1>9, <1>10, <2>1, <2>3, <3>1 DEF CInv, DiskInv, LogsOverFiles
  <2> QED
    BY <1>2, <1>9, <2>2, <2>3 DEF LogsOverFiles
<1>18. ASSUME NEW k \in Keys, NEW id \in Ids, NEW n \in Durable .. Len(hist), LastOf(k, id, n), Entry(k, id)
       PROVE  Entry(k, id)'
  <2>0. Durable \in Nat /\ Len(hist) \in Nat /\ id \in 1 .. Len(hist)
    BY <1>3, <1>18, DurableFacts DEF CInv, DiskInv, Shapes, LastOf, WriteOf
  <2>1. CASE Rec(g, k, id)
    <3>1. id <= tab[k] /\ tab[k] \in Ids
      BY <1>5, <2>1 DEF Holds
    <3>2. tab[k] # 0 /\ tab[k] \in Nat
      BY <2>0, <3>1, SMT DEF Ids
    <3>3. Rec(g, k, tab[k])
      BY <1>5, <3>2 DEF Holds
    <3>4. tab[k] <= Durable /\ WriteOf(k, tab[k])
      BY <1>5, <3>1, <3>3 DEF CInv, DiskInv, RecordsInv
    <3>5. tab[k] = id
      <4>1. tab[k] \notin id + 1 .. n
        BY <1>18, <3>4 DEF LastOf, WriteOf
      <4> QED
        BY <2>0, <3>1, <3>2, <3>4, <4>1, SMT
    <3>6. InFile(k, id)'
      BY <1>10, <2>0, <3>5, SMT
    <3> QED
      BY <3>6 DEF Entry
  <2> QED
    BY <1>14, <1>18, <2>1
<1>19. Covered'
  <2>1. SUFFICES ASSUME NEW k \in Keys, NEW id \in Ids, NEW n \in Durable .. Len(hist), LastOf(k, id, n)
                 PROVE  \/ Entry(k, id)'
                        \/ hist[id].val = 0 /\ \A e \in Ids : Entry(k, e)' => e > n
    BY <1>2, <1>9 DEF Covered
  <2> QED
    BY <1>13, <1>18, <2>1 DEF CInv, DiskInv, Covered
<1>20. UnlinkCovered'
  <2>1. SUFFICES ASSUME NEW k \in Keys, NEW id \in Ids, NEW d \in Ids, NEW n \in Durable .. Len(hist),
                        LastOf(k, id, n), Rec(g, k, d)
                 PROVE  Entry(k, id)'
    BY <1>2, <1>6, <1>9 DEF UnlinkCovered
  <2>2. Entry(k, d) /\ ~(d > n)
    <3>1. d <= Durable /\ d \in Nat /\ Durable \in Nat /\ Len(hist) \in Nat
      BY <1>3, <1>5, <2>1, NumberSets, DurableFacts DEF CInv, DiskInv
    <3>2. Entry(k, d)
      BY <1>5, <1>11, <2>1 DEF Entry
    <3> QED
      BY <3>1, <3>2, SMT
  <2>3. Entry(k, id)
    BY <2>1, <2>2 DEF CInv, DiskInv, Covered
  <2> QED
    BY <1>18, <2>1, <2>3
<1>21. /\ Len(immutables') = N - 1 /\ DOMAIN immutables' = 1 .. N - 1
       /\ \A i \in 1 .. N - 1 : immutables'[i] = immutables[i + 1]
       /\ N \in Nat /\ \A i \in 1 .. N - 1 : i + 1 \in 2 .. N /\ i + 1 \in 1 .. N
  <2>1. immutables \in Seq([tab : Table, gen : Gens])
    BY DEF IInv, TypeOK
  <2>2. N \in Nat
    BY <1>3 DEF Shapes
  <2> QED
    BY <1>1, <1>5, <2>1, <2>2, TailFacts, SMT
<1>22. /\ \A i \in 1 .. N : /\ Holds(immutables[i].tab, immutables[i].gen)
                            /\ immutables[i].gen \in walFiles
                            /\ immutables[i].gen < walGen
       /\ \A i, j \in 1 .. N : i < j => immutables[i].gen < immutables[j].gen
       /\ Holds(memtable, walGen)
       /\ walFiles = {walGen} \cup {immutables[i].gen : i \in 1 .. N}
       /\ immutables[1].gen = g
  <2>1. DOMAIN immutables = 1 .. N
    BY <1>3 DEF Shapes
  <2>2. immutables[1].gen = g
    BY <1>4 DEF CInv, FlushContent
  <2> QED
    BY <1>1, <2>1, <2>2 DEF CInv, MemtablesInv, SegmentsMatchMemtables
<1>23. MemtablesInv'
  <2>1. \A t, h : Holds(t, h)' <=> Holds(t, h)
    BY <1>9 DEF Holds
  <2>2. ASSUME NEW i \in 1 .. N - 1
        PROVE  /\ Holds(immutables[i].tab, immutables[i].gen)'
               /\ immutables'[i].gen \in walFiles
               /\ immutables'[i].gen < walGen
    BY <1>21, <1>22, <2>1
  <2>3. ASSUME NEW i \in 1 .. N - 1, NEW j \in 1 .. N - 1, i < j
        PROVE  immutables'[i].gen < immutables'[j].gen
    <3>1. i + 1 < j + 1 /\ i + 1 \in 1 .. N /\ j + 1 \in 1 .. N
      BY <1>21, <2>3, SMT
    <3> QED
      BY <1>21, <1>22, <3>1
  <2>4. walFiles = {walGen} \cup {immutables'[i].gen : i \in 1 .. N - 1} \cup {g}
    <3>1. \A i \in 1 .. N : i = 1 \/ (i - 1 \in 1 .. N - 1 /\ (i - 1) + 1 = i)
      BY <1>21, SMT
    <3>2. 1 \in 1 .. N
      BY <1>5, <1>21, SMT
    <3> HIDE DEF N, g
    <3>3. \A i \in 1 .. N : immutables[i].gen = g \/ \E j \in 1 .. N - 1 : immutables[i].gen = immutables'[j].gen
      BY <1>21, <1>22, <3>1
    <3>4. \A j \in 1 .. N - 1 : \E i \in 1 .. N : immutables[i].gen = immutables'[j].gen
      BY <1>21
    <3> QED
      BY <1>22, <3>2, <3>3, <3>4, SMT
  <2>5. SegmentsMatchMemtables'
    BY <1>2, <1>6, <1>21, <2>4 DEF SegmentsMatchMemtables
  <2>6. Holds(memtable, walGen)'
    BY <1>2, <1>22, <2>1
  <2> QED
    BY <1>2, <1>21, <2>2, <2>3, <2>5, <2>6 DEF MemtablesInv
<1>24. FlushContent'
  BY <1>2, <1>5, <1>6, <1>21 DEF FlushContent, FlushBusy
<1>25. CompContent'
  <2>1. /\ Len(sstables') = Len(sstables) + 1 /\ Len(sstables) \in Nat
        /\ \A i \in 1 .. Len(sstables) : sstables'[i + 1] = sstables[i]
    BY <1>1, <1>6, ConsFacts, SeqFacts, SMT
  <2>2. ASSUME CompBusy, comp.full
        PROVE  \E i \in 1 .. Len(sstables') : RunAt(i)' /\ i + Fanout - 1 = Len(sstables')
    <3>1. PICK i \in 1 .. Len(sstables) : RunAt(i) /\ i + Fanout - 1 = Len(sstables)
      BY <2>2 DEF CInv, CompContent
    <3>2. Len(comp.inputs) = Fanout /\ Fanout \in Nat
      BY <2>2, InputsNamed, SizesAssumption
    <3>3. i + 1 \in 1 .. Len(sstables') /\ (i + 1) + Fanout - 1 = Len(sstables')
      <4>1. \A a, n, m, F \in Nat : a \in 1 .. n /\ a + F - 1 = n /\ m = n + 1 =>
                                       a + 1 \in 1 .. m /\ (a + 1) + F - 1 = m
        BY SMT
      <4>2. Len(sstables') = Len(sstables) + 1 /\ Len(sstables') \in Nat /\ Len(sstables) \in Nat
        BY <2>1, SMT
      <4>3. i \in 1 .. Len(sstables) /\ i + Fanout - 1 = Len(sstables) /\ i \in Nat
        BY <3>1, <4>2, SMT
      <4> HIDE DEF g, p, tab, meta, files, N
      <4> QED
        BY <3>2, <4>1, <4>2, <4>3, SMT
    <3>4. ASSUME NEW j \in 1 .. Fanout PROVE sstables'[(i + 1) + j - 1] = comp.inputs[j]
      <4>1. i + j - 1 \in 1 .. Len(sstables) /\ (i + 1) + j - 1 = (i + j - 1) + 1
        BY <2>1, <3>1, <3>2, SMT
      <4> QED
        BY <2>1, <3>1, <3>2, <4>1 DEF RunAt
    <3>5. \A m : m = i + 1 => RunAt(m)'
      BY <1>2, <2>1, <3>2, <3>3, <3>4, SMT DEF RunAt
    <3> QED
      BY <3>3, <3>5
  <2>3. \A id : Deleted(id)' <=> Deleted(id)
    BY <1>2 DEF Deleted
  <2>4. comp.pc = "publish" => MergedFrom(comp.inputs, comp.full, sst[comp.seq])'
    BY <1>2, <2>3 DEF CInv, CompContent, MergedFrom
  <2> QED
    BY <1>2, <2>2, <2>4 DEF CompContent, CompBusy
<1>26. AckInv'
  BY <1>2, <1>9 DEF CInv, AckInv
<1>27. RecoveryInv'
  BY <1>9 DEF RecoveryInv, Serving
<1> QED
  BY <1>15, <1>16, <1>17, <1>19, <1>20, <1>23, <1>24, <1>25, <1>26, <1>27 DEF CInv, DiskInv

\* Deleting the segment of a flushed memtable: its file has what it held.
LEMMA FlushUnlinkCInv ==
    ASSUME LogsReliable, IInv, IInv', CInv, FlushUnlink
    PROVE  CInv'
<1> DEFINE g == flush.gen
<1>1. /\ flush.pc = "unlink" /\ flush' = [flush EXCEPT !.pc = FlushTop] /\ Serving
      /\ walFiles' = walFiles \ {g}
      /\ walRecs' = [walRecs EXCEPT ![g] = <<>>]
      /\ walDurable' = [walDurable EXCEPT ![g] = 0]
  BY DEF FlushUnlink, FlushGoes, RemoveSegment, LogsReliable
<1>2. UNCHANGED <<sst, manifestDisk, manifest, immutables, sstables, mode, memtable, walGen, walBad, writer, drop, hist, acked, comp>>
  BY DEF FlushUnlink, FlushFrame, sstVars, clientVars, histVars
<1>3. Shapes /\ Shapes'
  BY ShapesOfTypes, ShapesOfTypesNext
<1>4. flush'.pc \in {"wait", "exited"} /\ flush'.gen = g
  BY <1>1 DEF FlushTop, IInv, TypeOK
<1>5. /\ g \in Gens /\ g \in walFiles /\ g < walGen /\ walGen \in Gens /\ g # walGen
      /\ \A i \in 1 .. Len(immutables) : g < immutables[i].gen /\ immutables[i].gen # g
  <2>1. \A a, b \in Gens : a < b => a # b
    BY SMT DEF Gens
  <2>2. g \in walFiles /\ g < walGen /\ \A i \in 1 .. Len(immutables) : g < immutables[i].gen
    BY <1>1, <1>3 DEF CInv, FlushContent, Shapes
  <2> QED
    BY <1>3, <2>1, <2>2 DEF Shapes
<1>6. /\ walRecs'[g] = <<>> /\ walDurable'[g] = 0
      /\ \A h \in Gens : h # g => walRecs'[h] = walRecs[h] /\ walDurable'[h] = walDurable[h]
  BY <1>1, <1>3, <1>5 DEF IInv, TypeOK
<1>7. \A h \in Gens : \A k, e : Rec(h, k, e)' <=> h # g /\ Rec(h, k, e)
  <2>1. ASSUME NEW h \in Gens, NEW k, NEW e, h = g
        PROVE  ~Rec(h, k, e)'
    <3>1. walRecs'[h] = <<>> /\ DOMAIN <<>> = {}
      BY <1>6, <2>1, SMT
    <3> QED
      BY <3>1 DEF Rec
  <2>2. ASSUME NEW h \in Gens, NEW k, NEW e, h # g
        PROVE  Rec(h, k, e)' <=> Rec(h, k, e)
    <3>1. walRecs'[h] = walRecs[h]
      BY <1>6, <2>2
    <3> QED
      BY <3>1 DEF Rec
  <2> QED
    BY <2>1, <2>2
<1>8. /\ \A k, e : InFile(k, e)' <=> InFile(k, e)
      /\ \A k, e : WriteOf(k, e)' <=> WriteOf(k, e)
      /\ \A k, e, n : LastOf(k, e, n)' <=> LastOf(k, e, n)
      /\ LiveLogs = walFiles' /\ LiveLogs' = walFiles'
      /\ Durable' = Durable
      /\ Serving' /\ LogsOpen' /\ LogsOpen
  <2>1. \A k, e : WriteOf(k, e)' <=> WriteOf(k, e)
    BY <1>2 DEF WriteOf
  <2> QED
    BY <1>1, <1>2, <1>4, <1>5, <1>6, <2>1 DEF InFile, LastOf, LiveLogs, Durable, Serving, LogsOpen
<1>9. \A k, e : Entry(k, e)' <=> Entry(k, e)
  <2>1. \A h \in walFiles' : h \in Gens /\ h # g
    BY <1>1, <1>3 DEF Shapes
  <2> QED
    BY <1>7, <1>8, <2>1 DEF Entry
<1>10. SegmentsInv'
  <2>1. Len(<<>>) = 0
    OBVIOUS
  <2>2. \A h \in Gens : walDurable'[h] <= Len(walRecs'[h])
    BY <1>3, <1>6, <2>1, SMT DEF CInv, DiskInv, SegmentsInv
  <2>3. \A h \in Gens : h = walGen \/ walDurable'[h] = Len(walRecs'[h])
    BY <1>6, <2>1 DEF CInv, DiskInv, SegmentsInv
  <2>4. \A h \in Gens \ walFiles' : walRecs'[h] = <<>>
    BY <1>1, <1>6 DEF CInv, DiskInv, SegmentsInv
  <2>5. walGen \in walFiles' /\ \A h \in walFiles' : h <= walGen
    BY <1>1, <1>5, <1>8 DEF CInv, DiskInv, SegmentsInv
  <2> QED
    BY <1>2, <1>8, <2>2, <2>3, <2>4, <2>5 DEF CInv, DiskInv, SegmentsInv
<1>11. \A h \in walFiles' : h \in Gens /\ h \in walFiles /\ h # g /\ walRecs'[h] = walRecs[h] /\ walDurable'[h] = walDurable[h]
  BY <1>1, <1>3, <1>6 DEF Shapes
<1>12. RecordsInv'
  <2>1. \A h \in walFiles', k \in Keys, id \in Ids : Rec(h, k, id)' => WriteOf(k, id)'
    <3>1. \A h \in walFiles, k \in Keys, id \in Ids : Rec(h, k, id) => WriteOf(k, id)
      BY DEF CInv, DiskInv, RecordsInv
    <3>2. \A h \in walFiles' : h \in Gens /\ h \in walFiles /\ h # g
      BY <1>11
    <3> QED
      BY <1>7, <1>8, <3>1, <3>2
  <2>2. \A h \in walFiles' : \A i \in 1 .. walDurable'[h] : walRecs'[h][i].id <= Durable'
    BY <1>8, <1>11 DEF CInv, DiskInv, RecordsInv
  <2> QED
    BY <1>2, <1>5, <1>6, <2>1, <2>2 DEF CInv, DiskInv, RecordsInv
<1>13. RecordOrder'
  BY <1>7, <1>11 DEF CInv, DiskInv, RecordOrder
<1>14. FilesHold'
  BY <1>2, <1>8 DEF CInv, DiskInv, FilesHold
<1>15. LogsOverFiles'
  <2>1. \A h \in walFiles', k \in Keys, d, e \in Ids :
           Rec(h, k, d)' /\ InFile(k, e)' => \E c \in Ids : Rec(h, k, c)' /\ c >= e
    BY <1>7, <1>8, <1>11 DEF CInv, DiskInv, LogsOverFiles
  <2>2. \A k, d : Rec(walGen, k, d)' <=> Rec(walGen, k, d)
    BY <1>2, <1>5, <1>6 DEF Rec
  <2>3. \A k \in Keys, d, e \in Ids : Rec(walGen, k, d)' /\ InFile(k, e)' => d >= e
    BY <1>8, <2>2 DEF CInv, DiskInv, LogsOverFiles
  <2> QED
    BY <2>1, <2>3 DEF LogsOverFiles
<1>16. Covered'
  BY <1>2, <1>8, <1>9 DEF CInv, DiskInv, Covered
<1>17. UnlinkCovered'
  BY <1>4 DEF UnlinkCovered
<1>18. MemtablesInv'
  <2>1. DOMAIN immutables = 1 .. Len(immutables)
    BY <1>3 DEF Shapes
  <2>2. \A i \in 1 .. Len(immutables) : Holds(immutables[i].tab, immutables[i].gen)'
    <3>1. SUFFICES ASSUME NEW i \in 1 .. Len(immutables)
                   PROVE  Holds(immutables[i].tab, immutables[i].gen)'
      OBVIOUS
    <3>2. Holds(immutables[i].tab, immutables[i].gen) /\ immutables[i].gen \in Gens /\ immutables[i].gen # g
      BY <1>1, <1>3, <1>5, <2>1 DEF CInv, MemtablesInv, Shapes
    <3>3. immutables'[i] = immutables[i] /\ \A k, e : Rec(immutables[i].gen, k, e)' <=> Rec(immutables[i].gen, k, e)
      BY <1>2, <1>6, <3>2 DEF Rec
    <3> QED
      BY <3>2, <3>3 DEF Holds
  <2>3. Holds(memtable, walGen)'
    <3>1. \A k, d : Rec(walGen, k, d)' <=> Rec(walGen, k, d)
      BY <1>2, <1>5, <1>6 DEF Rec
    <3> QED
      BY <1>1, <1>2, <3>1 DEF CInv, MemtablesInv, Holds
  <2>4. walFiles = {walGen} \cup {immutables[i].gen : i \in 1 .. Len(immutables)} \cup {g}
    BY <1>1, <2>1 DEF CInv, MemtablesInv, SegmentsMatchMemtables
  <2>5. walFiles' = {walGen} \cup {immutables[i].gen : i \in 1 .. Len(immutables)}
    BY <1>1, <1>5, <2>4
  <2>6. SegmentsMatchMemtables'
    BY <1>2, <1>4, <2>1, <2>5 DEF SegmentsMatchMemtables
  <2> QED
    BY <1>1, <1>2, <1>5, <2>1, <2>2, <2>3, <2>5, <2>6 DEF CInv, MemtablesInv
<1>19. FlushContent'
  BY <1>4 DEF FlushContent, FlushBusy
<1>20. CompContent'
  <2>1. \A id : Deleted(id) => Deleted(id)'
    BY <1>2 DEF Deleted
  <2> QED
    BY <1>2, <2>1, MergeFrame DEF CInv
<1>21. RecoveryInv'
  BY <1>8 DEF RecoveryInv, Serving
<1>22. AckInv'
  BY <1>2, <1>8 DEF CInv, AckInv
<1> QED
  BY <1>10, <1>12, <1>13, <1>14, <1>15, <1>16, <1>17, <1>18, <1>19, <1>20, <1>21, <1>22 DEF CInv, DiskInv

\* Every step of the flush thread preserves CInv.
LEMMA FlushStepCInv ==
    ASSUME LogsReliable, IInv, IInv', CInv, FlushStep
    PROVE  CInv'
BY FlushMoveCInv, FlushFileCInv, FlushPublishCInv, FlushUnlinkCInv DEF FlushStep

-----------------------------------------------------------------------------
(* All steps of a writer. *)

\* Every step of a client thread preserves CInv.
LEMMA WriterStepCInv ==
    ASSUME LogsReliable, IInv, IInv', CInv, NEW w \in Writers, WriterStep(w)
    PROVE  CInv'
<1>1. CASE \E k \in Keys : Put(w, k) \/ Remove(w, k)
  BY <1>1, ClientWriteCInv DEF Put, Remove
<1>2. CASE \E k \in Keys, del \in BOOLEAN : Mutate(w, k, del)
  BY <1>2, ClientWriteCInv DEF Mutate
<1>3. CASE Commit(w)
  BY <1>3, CommitCInv
<1> QED
  BY <1>1, <1>2, <1>3 DEF WriterStep

=============================================================================
