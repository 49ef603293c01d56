--------------------------- MODULE FeedbackProofs ---------------------------
(***************************************************************************)
(* The learning loop, for any tasks, hints, model answers and faults: what *)
(* a task is given is usable, a cold start is the baseline's, and what is  *)
(* learned lies within what successful runs used.                          *)
(***************************************************************************)
EXTENDS Feedback, QuantitiesProofs

Row == [image : Images, use : Resource, succeeded : BOOLEAN]

-----------------------------------------------------------------------------
(***************************************************************************)
(* Operators.                                                              *)
(***************************************************************************)

\* Inserting keeps the bound, and every row after it was there or is new.
LEMMA InsertFacts ==
    ASSUME NEW q \in Seq(Row), NEW new \in Seq(Row)
    PROVE  /\ Insert(q, new) \in Seq(Row)
           /\ Len(Insert(q, new)) <= MaxRows
           /\ \A i \in DOMAIN Insert(q, new) :
                 \/ \E j \in DOMAIN q : Insert(q, new)[i] = q[j]
                 \/ \E j \in DOMAIN new : Insert(q, new)[i] = new[j]
<1> DEFINE all == q \o new
           out == IF Len(all) > MaxRows THEN Len(all) - MaxRows ELSE 0
<1>1. all \in Seq(Row) /\ Len(all) = Len(q) + Len(new) /\ Len(q) \in Nat /\ Len(new) \in Nat
  OBVIOUS
<1>2. \A i \in DOMAIN all : \/ \E j \in DOMAIN q : all[i] = q[j]
                            \/ \E j \in DOMAIN new : all[i] = new[j]
  <2> TAKE i \in DOMAIN all
  <2>1. CASE i <= Len(q)
    BY <2>1
  <2>2. CASE i > Len(q)
    <3>1. i - Len(q) \in DOMAIN new /\ all[i] = new[i - Len(q)]
      BY <2>2
    <3>2. QED
      BY <3>1
  <2>3. QED
    BY <1>1, <2>1, <2>2
<1> HIDE DEF all
<1>3. out \in Nat /\ out <= Len(all) /\ Len(all) - out <= MaxRows /\ MaxRows \in Nat /\ Len(all) \in Nat
  BY <1>1, FeedbackAssumption
<1>4. Insert(q, new) = SubSeq(all, out + 1, Len(all))
  BY DEF Insert, all
<1> HIDE DEF out
<1>5. /\ SubSeq(all, out + 1, Len(all)) \in Seq(Row)
      /\ Len(SubSeq(all, out + 1, Len(all))) = Len(all) - out
      /\ \A i \in 1..(Len(all) - out) : /\ SubSeq(all, out + 1, Len(all))[i] = all[out + i]
                                        /\ out + i \in DOMAIN all
  <2>1. \A i \in (out + 1)..Len(all) : i \in DOMAIN all /\ all[i] \in Row
    BY <1>1, <1>3
  <2>2. QED
    BY <1>1, <1>3, <2>1
<1> DEFINE r == Insert(q, new)
<1>6. r \in Seq(Row) /\ Len(r) = Len(all) - out /\ \A i \in 1..(Len(all) - out) : r[i] = all[out + i]
  BY <1>4, <1>5
<1> HIDE DEF r
<1>7. DOMAIN r = 1..(Len(all) - out) /\ Len(r) <= MaxRows
  BY <1>3, <1>6
<1>8. \A i \in DOMAIN r : \/ \E j \in DOMAIN q : r[i] = q[j]
                          \/ \E j \in DOMAIN new : r[i] = new[j]
  BY <1>2, <1>5, <1>6, <1>7
<1>9. QED
  BY <1>6, <1>7, <1>8 DEF r

\* Everything the engine may answer asks for some CPU and some memory.
LEMMA ForecastsPositive ==
    ASSUME NEW t \in TaskNames, NEW f \in Forecasts(t), IsRequirement(hint[t])
    PROVE  f \in Resource /\ f.cpu > 0 /\ f.mem > 0
<1>1. DefaultResources \in Resource /\ DefaultResources.cpu > 0 /\ DefaultResources.mem > 0
  BY DEF DefaultResources, Resource
<1>2. ASSUME f \in ModelForecasts
      PROVE  f \in Resource /\ f.cpu > 0 /\ f.mem > 0
  <2>1. PICK e \in Estimates :
           f = AtLeast([cpu |-> 10, mem |-> 8], [cpu |-> (11 * e.cpu) \div 10, mem |-> (11 * e.mem) \div 10])
    BY <1>2 DEF ModelForecasts
  <2>2. e.cpu \in Nat /\ e.mem \in Nat
    BY FeedbackAssumption DEF Resource
  <2>3. (11 * e.cpu) \div 10 \in Nat /\ (11 * e.mem) \div 10 \in Nat
    BY <2>2
  <2>4. QED
    BY <2>1, <2>3 DEF AtLeast, Resource
<1>3. SentHint(t) \in Resource
  BY AmountFacts DEF SentHint, IsRequirement
<1>4. FromHint(SentHint(t)) \in Resource /\ FromHint(SentHint(t)).cpu > 0 /\ FromHint(SentHint(t)).mem > 0
  BY <1>1, <1>3 DEF FromHint, Resource
<1>5. f \in ModelForecasts \/ f = FromHint(SentHint(t)) \/ f = DefaultResources
  BY DEF Forecasts
<1>6. QED
  BY <1>1, <1>2, <1>4, <1>5

\* What is made of an answer: requests above zero, within their limits.
LEMMA ForecastUsable ==
    ASSUME NEW w \in Resource, w.cpu > 0, w.mem > 0
    PROVE  LET r == [req |-> Quantity(w), lim |-> Quantity(Headroom(w))]
           IN  /\ IsRequirement(r)
               /\ \A k \in Kinds : 0 < Amount(r.req)[k] /\ Amount(r.req)[k] <= Amount(r.lim)[k]
<1> DEFINE h == Headroom(w)
<1>1. h \in Resource /\ AtMost(w, h)
  BY HeadroomFacts
<1> HIDE DEF h
<1>2. /\ IsList(Quantity(w)) /\ IsList(Quantity(h)) /\ Quantity(w) \in Resource /\ Quantity(h) \in Resource
      /\ Amount(Quantity(w)) = Quantity(w) /\ Amount(Quantity(h)) = Quantity(h)
      /\ AtMost(Quantity(w), Quantity(h))
  BY <1>1, QuantityFacts, QuantityOrder
<1>3. \A x \in Nat : x > 0 => x * Unit > 0
  BY UnitAssumption
<1>4. Quantity(w).cpu > 0 /\ Quantity(w).mem > 0
  BY <1>3 DEF Quantity, Resource
<1>5. \A k \in Kinds : 0 < Quantity(w)[k] /\ Quantity(w)[k] <= Quantity(h)[k]
  BY <1>2, <1>4 DEF AtMost, Kinds, Resource
<1>6. QED
  BY <1>2, <1>5 DEF h, IsRequirement

\* The two ways to start, and what a started task has.
StartedWith(t, r, who) == task'[t] = [phase |-> "Active", alloc |-> r, by |-> who]

\* A task is started with the engine's forecast, ...
LEMMA PredictedFacts ==
    ASSUME TypeOK, NEW some \in SUBSET TaskNames, StartPredicted(some)
    PROVE  /\ UNCHANGED <<hint, dbUp, stateDB, engine, rows, runs, granted>>
           /\ DOMAIN task' = TaskNames
           /\ \A t \in TaskNames \ some : task'[t] = task[t]
           /\ \A t \in some : \E f \in Forecasts(t) :
                 StartedWith(t, [req |-> Quantity(f), lim |-> Quantity(Headroom(f))],
                             IF engine.model /\ EngineHistory(Image[t]).n > 0 THEN "model" ELSE "engine")
<1> DEFINE by == [t \in TaskNames |-> IF engine.model /\ EngineHistory(Image[t]).n > 0 THEN "model" ELSE "engine"]
<1>1. PICK p \in Answers : Start(some, FromForecast(p), by)
  BY DEF StartPredicted
<1>2. /\ UNCHANGED <<hint, dbUp, stateDB, engine, rows, runs, granted>>
      /\ task' = [t \in TaskNames |->
                    IF t \in some
                    THEN [phase |-> "Active", alloc |-> GoResolve([pred |-> FromForecast(p), base |-> hint], t),
                          by |-> by[t]]
                    ELSE task[t]]
  BY <1>1 DEF Start
<1>3. ASSUME NEW t \in some
      PROVE  \E f \in Forecasts(t) :
                StartedWith(t, [req |-> Quantity(f), lim |-> Quantity(Headroom(f))],
                            IF engine.model /\ EngineHistory(Image[t]).n > 0 THEN "model" ELSE "engine")
  <2>1. p[t] \in Forecasts(t)
    BY DEF Answers
  <2>2. GoResolve([pred |-> FromForecast(p), base |-> hint], t)
           = [req |-> Quantity(p[t]), lim |-> Quantity(Headroom(p[t]))]
    BY DEF GoResolve, FromForecast
  <2>3. by[t] = IF engine.model /\ EngineHistory(Image[t]).n > 0 THEN "model" ELSE "engine"
    OBVIOUS
  <2> HIDE DEF by
  <2>4. QED
    BY <1>2, <2>1, <2>2, <2>3 DEF StartedWith
<1> HIDE DEF by
<1>4. QED
  BY <1>2, <1>3

\* ... or with the hint or the default when there is none.
LEMMA UnpredictedFacts ==
    ASSUME TypeOK, NEW some \in SUBSET TaskNames, StartUnpredicted(some)
    PROVE  /\ UNCHANGED <<hint, dbUp, stateDB, engine, rows, runs, granted>>
           /\ DOMAIN task' = TaskNames
           /\ \A t \in TaskNames \ some : task'[t] = task[t]
           /\ \A t \in some : StartedWith(t, GoResolve([pred |-> NoPredictions, base |-> hint], t), "nobody")
BY DEF StartUnpredicted, Start, StartedWith

\* A row of a run that succeeded or failed.
LEMMA RecordedFacts ==
    ASSUME rows \in Seq(Row), Len(rows) <= MaxRows, NEW row \in Row
    PROVE  /\ Recorded(row) \in Seq(Row) /\ Len(Recorded(row)) <= MaxRows
           /\ \A i \in DOMAIN Recorded(row) :
                 Recorded(row)[i] = row \/ \E j \in DOMAIN rows : Recorded(row)[i] = rows[j]
<1>1. <<row>> \in Seq(Row) /\ \A j \in DOMAIN <<row>> : <<row>>[j] = row
  OBVIOUS
<1> DEFINE new == <<row>>
           r == Insert(rows, new)
<1> HIDE DEF new
<1>2. /\ r \in Seq(Row) /\ Len(r) <= MaxRows
      /\ \A i \in DOMAIN r : (\E j \in DOMAIN rows : r[i] = rows[j]) \/ (\E j \in DOMAIN new : r[i] = new[j])
  BY <1>1, InsertFacts DEF new
<1>3. \A i \in DOMAIN r : r[i] = row \/ \E j \in DOMAIN rows : r[i] = rows[j]
  BY <1>1, <1>2 DEF new
<1>4. Recorded(row) = r \/ Recorded(row) = rows
  BY DEF Recorded, new
<1> HIDE DEF r
<1>5. QED
  BY <1>2, <1>3, <1>4

\* The metrics of a report, and those of them that were stored.
Metrics(batch, uses) == [i \in DOMAIN batch |-> Metric(batch[i], uses[batch[i]])]

Stored(batch, uses, stored) == SubSeq(Metrics(batch, uses), 1, stored)

\* What a report may insert: a row for each metric.
LEMMA MetricsFacts ==
    ASSUME TypeOK, NEW S \in SUBSET TaskNames, NEW batch \in SetToSeqs(S), NEW uses \in [S -> Measured],
           NEW stored \in 0..Len(batch)
    PROVE  /\ Stored(batch, uses, stored) \in Seq(Row) /\ DOMAIN Stored(batch, uses, stored) = 1..stored
           /\ \A i \in 1..stored : /\ Stored(batch, uses, stored)[i] = Metrics(batch, uses)[i]
                                  /\ Metrics(batch, uses)[i] \in Row
<1> DEFINE metrics == [i \in DOMAIN batch |-> Metric(batch[i], uses[batch[i]])]
           some == SubSeq(metrics, 1, stored)
           n == Cardinality(S)
<1>1. n \in Nat
  BY FS_Subset, FS_CardinalityType, ManifestAssumption
<1>2. batch \in [1..n -> S]
  BY DEF SetToSeqs
<1> HIDE DEF n
<1>3. batch \in Seq(S) /\ Len(batch) = n /\ DOMAIN batch = 1..n
  BY <1>1, <1>2
<1>4. ASSUME NEW i \in 1..n
      PROVE  metrics[i] \in Row
  <2>1. batch[i] \in TaskNames /\ uses[batch[i]] \in Resource
    BY <1>2, FeedbackAssumption
  <2>2. Image[batch[i]] \in Images
    BY <2>1 DEF Images
  <2>3. metrics[i] = Metric(batch[i], uses[batch[i]])
    BY <1>3
  <2> HIDE DEF metrics
  <2>4. CASE task[batch[i]].phase = "Ended"
    <3>1. metrics[i] = [image |-> Image[batch[i]], use |-> uses[batch[i]], succeeded |-> TRUE]
      BY <2>3, <2>4 DEF Metric
    <3>2. QED
      BY <2>1, <2>2, <3>1 DEF Row
  <2>5. CASE task[batch[i]].phase # "Ended"
    <3>1. metrics[i] = [image |-> Image[batch[i]], use |-> uses[batch[i]], succeeded |-> FALSE]
      BY <2>3, <2>5 DEF Metric
    <3>2. QED
      BY <2>1, <2>2, <3>1 DEF Row
  <2>6. QED
    BY <2>4, <2>5
<1>5. DOMAIN metrics = 1..n
  BY <1>3
<1> HIDE DEF metrics
<1>6. metrics \in Seq(Row) /\ Len(metrics) = n
  <2>1. metrics = [i \in 1..n |-> metrics[i]]
    BY <1>3 DEF metrics
  <2>2. metrics \in [1..n -> Row]
    BY <1>4, <2>1
  <2>3. QED
    BY <1>1, <2>2
<1>7. stored \in Nat /\ stored <= n
  BY <1>1, <1>3
<1>8. some \in Seq(Row) /\ Len(some) = stored /\ \A i \in 1..stored : some[i] = metrics[i]
  <2>1. \A i \in 1..stored : metrics[i] \in Row
    BY <1>1, <1>4, <1>7
  <2>2. QED
    BY <1>6, <1>7, <2>1
<1> HIDE DEF some
<1>9. DOMAIN some = 1..stored /\ \A i \in 1..stored : metrics[i] \in Row
  BY <1>1, <1>4, <1>7, <1>8
<1>10. QED
  BY <1>8, <1>9 DEF metrics, some, Metrics, Stored

-----------------------------------------------------------------------------
(***************************************************************************)
(* Types.                                                                  *)
(***************************************************************************)

\* What TypeOK says of a single task.
TaskOK(r) ==
    /\ DOMAIN r = {"phase", "alloc", "by"}
    /\ r.phase \in {"Pending", "Active", "Ended", "Broken", "Saved"}
    /\ r.by \in {"model", "engine", "nobody"}
    /\ IsRequirement(r.alloc)

\* A task that starts, that is over and that starts anew.
LEMMA TaskOKFacts ==
    /\ TaskOK(Fresh) /\ TaskOK(Over) /\ Over.phase = "Saved" /\ Fresh.phase = "Pending"
    /\ \A r : TaskOK(r) => /\ TaskOK([r EXCEPT !.phase = "Ended"]) /\ TaskOK([r EXCEPT !.phase = "Broken"])
                           /\ [r EXCEPT !.phase = "Ended"].alloc = r.alloc
                           /\ [r EXCEPT !.phase = "Ended"].by = r.by
                           /\ [r EXCEPT !.phase = "Ended"].phase = "Ended"
                           /\ [r EXCEPT !.phase = "Broken"].alloc = r.alloc
                           /\ [r EXCEPT !.phase = "Broken"].by = r.by
                           /\ [r EXCEPT !.phase = "Broken"].phase = "Broken"
    /\ \A who \in {"model", "engine", "nobody"} : \A r :
          IsRequirement(r) => TaskOK([phase |-> "Active", alloc |-> r, by |-> who])
<1>1. IsRequirement(Unset)
  BY AmountFacts DEF IsRequirement, Unset
<1>2. TaskOK(Fresh) /\ TaskOK(Over) /\ Over.phase = "Saved" /\ Fresh.phase = "Pending"
  BY <1>1 DEF TaskOK, Fresh, Over
<1>3. QED
  BY <1>2 DEF TaskOK

\* The types of everything the loop keeps; a connection of the engine that counts
\* as open is one, and no more rows are kept than the bound.
THEOREM TypeCorrect == Spec => []TypeOK
<1> DEFINE Rest == /\ hint \in Hintings
                   /\ dbUp \in BOOLEAN
                   /\ stateDB \in {"postgres", "noop"}
                   /\ engine \in [up : BOOLEAN, model : BOOLEAN, db : {"open", "lost"}]
                   /\ engine.db = "open" => engine.up /\ dbUp
                   /\ runs \in 0..MaxRuns
           Rows == /\ rows \in Seq(Row) /\ Len(rows) <= MaxRows
                   /\ granted \subseteq [image : Images, res : Resource]
           Every == DOMAIN task = TaskNames /\ \A t \in TaskNames : TaskOK(task[t])
<1>0. TypeOK <=> Rest /\ Rows /\ Every
  BY DEF TypeOK, TaskOK, Row
<1>p. TypeOK' <=> Rest' /\ Rows' /\ Every'
  BY DEF TypeOK, TaskOK, Row
<1>1. Init => TypeOK
  <2> SUFFICES ASSUME Init PROVE Rest /\ Rows /\ Every
    BY <1>0
  <2>1. dbUp \in BOOLEAN
    BY DEF Init
  <2>2. Rest
    BY <2>1, FeedbackAssumption DEF Init, Connected, StartedEngine
  <2>3. Rows
    BY FeedbackAssumption DEF Init
  <2>4. Every
    BY TaskOKFacts DEF Init
  <2>5. QED
    BY <2>2, <2>3, <2>4
<1>2. TypeOK /\ [Next]_vars => TypeOK'
  <2> SUFFICES ASSUME TypeOK, [Next]_vars PROVE Rest' /\ Rows' /\ Every'
    BY <1>p
  <2>0. Rest /\ Rows /\ Every
    BY <1>0
  <2>h. \A t \in TaskNames : IsRequirement(hint[t])
    BY <2>0, FeedbackAssumption
  <2>1. ASSUME NEW some \in SUBSET TaskNames, StartPredicted(some) PROVE Rest' /\ Rows' /\ Every'
    <3>1. \A t \in some : TaskOK(task'[t])
      <4> TAKE t \in some
      <4>1. PICK f \in Forecasts(t) :
               StartedWith(t, [req |-> Quantity(f), lim |-> Quantity(Headroom(f))],
                           IF engine.model /\ EngineHistory(Image[t]).n > 0 THEN "model" ELSE "engine")
        BY <2>1, PredictedFacts
      <4>2. f \in Resource /\ f.cpu > 0 /\ f.mem > 0
        BY <2>h, ForecastsPositive
      <4>3. IsRequirement([req |-> Quantity(f), lim |-> Quantity(Headroom(f))])
        BY <4>2, ForecastUsable
      <4>4. QED
        BY <4>1, <4>3, TaskOKFacts DEF StartedWith
    <3>2. QED
      BY <2>0, <2>1, <3>1, PredictedFacts
  <2>2. ASSUME NEW some \in SUBSET TaskNames, StartUnpredicted(some) PROVE Rest' /\ Rows' /\ Every'
    <3>1. \A t \in some : TaskOK(task'[t])
      <4> TAKE t \in some
      <4> DEFINE in == [pred |-> NoPredictions, base |-> hint]
      <4>1. IsRequirement(in.base[t]) /\ DOMAIN in.pred = {}
        BY <2>h DEF NoPredictions
      <4> HIDE DEF in
      <4>2. IsRequirement(GoResolve(in, t))
        BY <4>1, ResolveType
      <4>3. StartedWith(t, GoResolve(in, t), "nobody")
        BY <2>2, UnpredictedFacts DEF in
      <4>4. QED
        BY <4>2, <4>3, TaskOKFacts DEF StartedWith
    <3>2. QED
      BY <2>0, <2>2, <3>1, UnpredictedFacts
  <2>3. ASSUME NEW t \in TaskNames, PodEnds(t) PROVE Rest' /\ Rows' /\ Every'
    <3>1. UNCHANGED <<hint, dbUp, stateDB, engine, rows, runs>>
      BY <2>3 DEF PodEnds
    <3>2. Every'
      <4>1. /\ DOMAIN task' = TaskNames /\ \A u \in TaskNames \ {t} : task'[u] = task[u]
            /\ \/ task'[t] = [task[t] EXCEPT !.phase = "Ended"]
               \/ task'[t] = [task[t] EXCEPT !.phase = "Broken"]
        BY <2>0, <2>3 DEF PodEnds
      <4>2. TaskOK(task'[t])
        BY <2>0, <4>1, TaskOKFacts
      <4>3. QED
        BY <2>0, <4>1, <4>2
    <3>3. Amount(task[t].alloc.req) \in Resource /\ Image[t] \in Images
      BY <2>0, AmountFacts DEF TaskOK, IsRequirement, Images
    <3>4. granted' \subseteq [image : Images, res : Resource]
      BY <2>0, <2>3, <3>3 DEF PodEnds, Grant
    <3>5. QED
      BY <2>0, <3>1, <3>2, <3>4
  <2>4. ASSUME NEW t \in TaskNames, Again(t) PROVE Rest' /\ Rows' /\ Every'
    <3>1. runs' \in 0..MaxRuns /\ UNCHANGED <<hint, dbUp, stateDB, engine, rows, granted>>
      BY <2>0, <2>4, FeedbackAssumption DEF Again
    <3>2. Every'
      BY <2>0, <2>4, TaskOKFacts DEF Again
    <3>3. QED
      BY <2>0, <3>1, <3>2
  <2>5. ASSUME NEW t \in TaskNames, NEW saved \in BOOLEAN, Sync(t, saved) PROVE Rest' /\ Rows' /\ Every'
    <3> DEFINE row == [image |-> Image[t], use |-> Wire(task[t].alloc.req), succeeded |-> TRUE]
    <3>1. row \in Row
      BY <2>0, AmountFacts DEF TaskOK, IsRequirement, Images, Row
    <3>2. /\ rows' = Recorded(row) \/ rows' = rows
          /\ task' = [task EXCEPT ![t] = Over] \/ task' = task
          /\ UNCHANGED <<hint, dbUp, stateDB, engine, runs, granted>>
      BY <2>5 DEF Sync
    <3> HIDE DEF row
    <3>3. rows' \in Seq(Row) /\ Len(rows') <= MaxRows
      BY <2>0, <3>1, <3>2, RecordedFacts
    <3>4. Every'
      BY <2>0, <3>2, TaskOKFacts
    <3>5. QED
      BY <2>0, <3>2, <3>3, <3>4
  <2>6. ASSUME NEW S \in SUBSET TaskNames, NEW batch \in SetToSeqs(S), NEW uses \in [S -> Measured],
               NEW stored \in 0..Len(batch), ReportMetrics(batch, uses, stored)
        PROVE  Rest' /\ Rows' /\ Every'
    <3> DEFINE metrics == Metrics(batch, uses)
               some == Stored(batch, uses, stored)
    <3>1. some \in Seq(Row) /\ \A i \in 1..stored : metrics[i] \in Row
      BY MetricsFacts
    <3>2. /\ rows' = Insert(rows, some)
          /\ granted' = granted \cup {Grant(metrics[i].image, Quantity(metrics[i].use)) :
                                         i \in {j \in 1..stored : metrics[j].succeeded}}
          /\ UNCHANGED <<hint, stateDB, task, runs>>
          /\ UNCHANGED <<dbUp, engine>> \/ (dbUp' = FALSE /\ engine' = [engine EXCEPT !.db = "lost"])
      BY <2>6 DEF ReportMetrics, Metrics, Stored
    <3> HIDE DEF metrics, some
    <3>3. Rest' /\ Every'
      BY <2>0, <3>2
    <3>4. rows' \in Seq(Row) /\ Len(rows') <= MaxRows
      BY <2>0, <3>1, <3>2, InsertFacts
    <3>5. granted' \subseteq [image : Images, res : Resource]
      <4>1. \A i \in 1..stored : metrics[i].image \in Images /\ metrics[i].use \in Resource
        BY <3>1 DEF Row
      <4>2. \A i \in 1..stored : Grant(metrics[i].image, Quantity(metrics[i].use)) \in [image : Images, res : Resource]
        BY <4>1, QuantityFacts DEF Grant
      <4>3. QED
        BY <2>0, <3>2, <4>2
    <3>6. QED
      BY <3>3, <3>4, <3>5
  <2>7. CASE DatabaseDown
    BY <2>0, <2>7 DEF DatabaseDown
  <2>8. CASE DatabaseUp
    BY <2>0, <2>8 DEF DatabaseUp
  <2>9. CASE EngineStops
    BY <2>0, <2>9 DEF EngineStops
  <2>10. CASE EngineStarts
    BY <2>0, <2>10 DEF EngineStarts, StartedEngine
  <2>11. CASE ManagerRestarts
    BY <2>0, <2>11 DEF ManagerRestarts, Connected
  <2>12. CASE Expire
    <3>1. rows' = Tail(rows) /\ rows # <<>> /\ UNCHANGED <<hint, dbUp, stateDB, engine, task, runs, granted>>
      BY <2>12 DEF Expire
    <3>2. rows' \in Seq(Row) /\ Len(rows') <= MaxRows
      BY <2>0, <3>1, FeedbackAssumption
    <3>3. QED
      BY <2>0, <3>1, <3>2
  <2>13. CASE UNCHANGED vars
    BY <2>0, <2>13 DEF vars
  <2>14. QED
    BY <2>1, <2>2, <2>3, <2>4, <2>5, <2>6, <2>7, <2>8, <2>9, <2>10, <2>11, <2>12, <2>13 DEF Next
<1>3. QED
  BY <1>1, <1>2, PTL DEF Spec
-----------------------------------------------------------------------------
(***************************************************************************)
(* What a step may do to a task.                                           *)
(***************************************************************************)
Keeps(t) == task'[t] = task[t]

StartsPredicted(t) ==
    \E f \in Forecasts(t) :
        StartedWith(t, [req |-> Quantity(f), lim |-> Quantity(Headroom(f))],
                    IF engine.model /\ EngineHistory(Image[t]).n > 0 THEN "model" ELSE "engine")

StartsUnpredicted(t) == StartedWith(t, GoResolve([pred |-> NoPredictions, base |-> hint], t), "nobody")

Ends(t) ==
    /\ task[t].phase = "Active" /\ task'[t].phase \in {"Ended", "Broken"}
    /\ task'[t].alloc = task[t].alloc /\ task'[t].by = task[t].by
    /\ task'[t].phase = "Ended" => Grant(Image[t], Amount(task[t].alloc.req)) \in granted'

Leaves(t) == task'[t].phase \in {"Saved", "Pending"}

\* Every step leaves a task alone, starts it with a forecast or without, ends its
\* run, or is done with it; the hints stay and no run is forgotten.
LEMMA TaskSteps ==
    ASSUME TypeOK, [Next]_vars, NEW t \in TaskNames
    PROVE  /\ Keeps(t) \/ StartsPredicted(t) \/ StartsUnpredicted(t) \/ Ends(t) \/ Leaves(t)
           /\ hint' = hint /\ granted \subseteq granted'
<1> DEFINE Goal == /\ Keeps(t) \/ StartsPredicted(t) \/ StartsUnpredicted(t) \/ Ends(t) \/ Leaves(t)
                   /\ hint' = hint /\ granted \subseteq granted'
<1> SUFFICES Goal
  OBVIOUS
<1>0. DOMAIN task = TaskNames /\ \A u \in TaskNames : TaskOK(task[u])
  BY DEF TypeOK, TaskOK
<1>1. ASSUME NEW some \in SUBSET TaskNames, StartPredicted(some) PROVE Goal
  <2>1. CASE t \in some
    BY <1>1, <2>1, PredictedFacts DEF StartsPredicted
  <2>2. CASE t \notin some
    BY <1>1, <2>2, PredictedFacts DEF Keeps
  <2>3. QED
    BY <2>1, <2>2
<1>2. ASSUME NEW some \in SUBSET TaskNames, StartUnpredicted(some) PROVE Goal
  <2>1. CASE t \in some
    BY <1>2, <2>1, UnpredictedFacts DEF StartsUnpredicted
  <2>2. CASE t \notin some
    BY <1>2, <2>2, UnpredictedFacts DEF Keeps
  <2>3. QED
    BY <2>1, <2>2
<1>3. ASSUME NEW u \in TaskNames, PodEnds(u) PROVE Goal
  <2>1. hint' = hint /\ granted \subseteq granted'
    BY <1>3 DEF PodEnds
  <2>2. CASE u # t
    BY <1>0, <1>3, <2>1, <2>2 DEF PodEnds, Keeps
  <2>3. CASE u = t
    <3>1. task[t].phase = "Active"
      BY <1>3, <2>3 DEF PodEnds
    <3>2. \/ task'[t] = [task[t] EXCEPT !.phase = "Ended"] /\ Grant(Image[t], Amount(task[t].alloc.req)) \in granted'
          \/ task'[t] = [task[t] EXCEPT !.phase = "Broken"]
      BY <1>0, <1>3, <2>3 DEF PodEnds
    <3>3. /\ task'[t].phase \in {"Ended", "Broken"}
          /\ task'[t].alloc = task[t].alloc /\ task'[t].by = task[t].by
          /\ task'[t].phase = "Ended" => Grant(Image[t], Amount(task[t].alloc.req)) \in granted'
      <4>1. TaskOK(task[t])
        BY <1>0
      <4>2. CASE task'[t] = [task[t] EXCEPT !.phase = "Ended"] /\ Grant(Image[t], Amount(task[t].alloc.req)) \in granted'
        BY <4>1, <4>2, TaskOKFacts
      <4>3. CASE task'[t] = [task[t] EXCEPT !.phase = "Broken"]
        BY <4>1, <4>3, TaskOKFacts
      <4>4. QED
        BY <3>2, <4>2, <4>3
    <3>4. QED
      BY <2>1, <3>1, <3>3 DEF Ends
  <2>4. QED
    BY <2>2, <2>3
<1>4. ASSUME NEW u \in TaskNames, Again(u) PROVE Goal
  <2>1. hint' = hint /\ granted \subseteq granted' /\ task' = [task EXCEPT ![u] = Fresh]
    BY <1>4 DEF Again
  <2>2. QED
    BY <1>0, <2>1, TaskOKFacts DEF Keeps, Leaves
<1>5. ASSUME NEW u \in TaskNames, NEW saved \in BOOLEAN, Sync(u, saved) PROVE Goal
  <2>1. hint' = hint /\ granted \subseteq granted' /\ (task' = [task EXCEPT ![u] = Over] \/ task' = task)
    BY <1>5 DEF Sync
  <2>2. QED
    BY <1>0, <2>1, TaskOKFacts DEF Keeps, Leaves
<1>6. ASSUME NEW S \in SUBSET TaskNames, NEW batch \in SetToSeqs(S), NEW uses \in [S -> Measured],
             NEW stored \in 0..Len(batch), ReportMetrics(batch, uses, stored)
      PROVE  Goal
  BY <1>6 DEF ReportMetrics, Keeps
<1>7. CASE DatabaseDown \/ DatabaseUp \/ EngineStops \/ EngineStarts \/ ManagerRestarts \/ Expire
  BY <1>7 DEF DatabaseDown, DatabaseUp, EngineStops, EngineStarts, ManagerRestarts, Expire, Keeps
<1>8. CASE UNCHANGED vars
  BY <1>8 DEF vars, Keeps
<1> HIDE DEF Goal
<1>9. QED
  BY <1>1, <1>2, <1>3, <1>4, <1>5, <1>6, <1>7, <1>8 DEF Next

-----------------------------------------------------------------------------
(***************************************************************************)
(* Forecasts.                                                              *)
(***************************************************************************)
Usable(r) == \A k \in Kinds : 0 < Amount(r.req)[k] /\ Amount(r.req)[k] <= Amount(r.lim)[k]

\* A pod started on the engine's word asks for some CPU and some memory and for
\* no more than its limits, for every hint, history and answer of the model.
THEOREM ForecastsAreUsable == Spec => []ForecastsUsable
<1>1. Init => ForecastsUsable
  BY TaskOKFacts DEF Init, ForecastsUsable, Started
<1>2. TypeOK /\ ForecastsUsable /\ [Next]_vars => ForecastsUsable'
  <2> SUFFICES ASSUME TypeOK, ForecastsUsable, [Next]_vars, NEW t \in TaskNames,
                      Started(t)', (task[t].by # "nobody")'
               PROVE  Usable(task'[t].alloc)
    BY DEF ForecastsUsable, Usable
  <2>1. CASE Keeps(t)
    BY <2>1 DEF Keeps, ForecastsUsable, Started, Usable
  <2>2. CASE StartsPredicted(t)
    <3>1. PICK f \in Forecasts(t) : task'[t].alloc = [req |-> Quantity(f), lim |-> Quantity(Headroom(f))]
      BY <2>2 DEF StartsPredicted, StartedWith
    <3>2. IsRequirement(hint[t])
      BY FeedbackAssumption DEF TypeOK
    <3>3. f \in Resource /\ f.cpu > 0 /\ f.mem > 0
      BY <3>2, ForecastsPositive
    <3>4. QED
      BY <3>1, <3>3, ForecastUsable DEF Usable
  <2>3. CASE StartsUnpredicted(t)
    BY <2>3 DEF StartsUnpredicted, StartedWith
  <2>4. CASE Ends(t)
    BY <2>4 DEF Ends, ForecastsUsable, Started, Usable
  <2>5. CASE Leaves(t)
    BY <2>5 DEF Leaves, Started
  <2>6. QED
    BY <2>1, <2>2, <2>3, <2>4, <2>5, TaskSteps
<1>3. QED
  BY <1>1, <1>2, TypeCorrect, PTL DEF Spec

\* The forecast for a task with a plain hint and no history is the hint, or what
\* the optimizer falls back on without one.
LEMMA ColdForecast ==
    ASSUME NEW t \in TaskNames, IsRequirement(hint[t]), PlainHint(hint[t]),
           NEW f \in Forecasts(t), ~(engine.model /\ EngineHistory(Image[t]).n > 0)
    PROVE  Quantity(f) = Amount(GoResolve([pred |-> NoPredictions, base |-> hint], t).req)
<1> DEFINE h == hint[t]
           base == GoResolve([pred |-> NoPredictions, base |-> hint], t)
<1>0. base = IF h # Unset THEN h ELSE DefaultRequirement
  BY DEF GoResolve, NoPredictions
<1>1. IF SentHint(t) # NoResource THEN f = FromHint(SentHint(t)) ELSE f = DefaultResources
  BY DEF Forecasts
<1>2. CASE h = Unset
  <2>1. DOMAIN h.req = {}
    BY <1>2 DEF Unset, Nothing
  <2>2. f = DefaultResources /\ base = DefaultRequirement
    BY <1>0, <1>1, <1>2, <2>1 DEF SentHint
  <2>3. QED
    BY <2>2, DefaultFacts
<1>3. CASE h # Unset
  <2>1. DOMAIN h.req = Kinds /\ \A k \in Kinds : h.req[k] > 0 /\ h.req[k] % Unit = 0
    BY <1>3 DEF PlainHint
  <2>2. IsList(h.req)
    BY DEF IsRequirement
  <2>3. /\ Amount(h.req).cpu > 0 /\ Amount(h.req).mem > 0
        /\ Amount(h.req).cpu % Unit = 0 /\ Amount(h.req).mem % Unit = 0
    BY <2>1 DEF Amount, Kinds
  <2>4. Quantity(Wire(h.req)) = Amount(h.req) /\ Wire(h.req) \in Resource
    BY <2>2, <2>3, WireRounds, AmountFacts
  <2> DEFINE w == Wire(h.req)
  <2>5. SentHint(t) = w
    BY <2>1 DEF SentHint, Kinds
  <2> HIDE DEF w, h
  <2>6. w.cpu > 0 /\ w.mem > 0 /\ w \in Resource
    <3>1. w.cpu \in Nat /\ w.mem \in Nat /\ w \in Resource
      BY <2>4 DEF Resource, w
    <3>2. w.cpu * Unit > 0 /\ w.mem * Unit > 0
      BY <2>3, <2>4 DEF Quantity, w
    <3>3. w.cpu # 0 /\ w.mem # 0
      BY <3>2, UnitAssumption
    <3>4. QED
      BY <3>1, <3>3
  <2>7. w # NoResource /\ FromHint(w) = w
    BY <2>6 DEF NoResource, FromHint, Resource
  <2>8. f = w
    BY <1>1, <2>5, <2>7
  <2>9. QED
    BY <1>0, <1>3, <2>4, <2>8 DEF w, h
<1>4. QED
  BY <1>2, <1>3

\* Unless the model spoke, a task with a plain hint requests what it would with
\* the in-process baseline, through all outages and restarts.
THEOREM ColdStarts == Spec => []ColdStartIsBaseline
<1> DEFINE Base(t) == Amount(GoResolve([pred |-> NoPredictions, base |-> hint], t).req)
<1>1. Init => ColdStartIsBaseline
  BY TaskOKFacts DEF Init, ColdStartIsBaseline, Started
<1>2. TypeOK /\ ColdStartIsBaseline /\ [Next]_vars => ColdStartIsBaseline'
  <2> SUFFICES ASSUME TypeOK, ColdStartIsBaseline, [Next]_vars, NEW t \in TaskNames,
                      Started(t)', (task[t].by # "model")', PlainHint(hint[t])'
               PROVE  Amount(task'[t].alloc.req) = Base(t)'
    BY DEF ColdStartIsBaseline
  <2>0. hint' = hint /\ PlainHint(hint[t]) /\ Base(t)' = Base(t)
    BY TaskSteps DEF PlainHint
  <2>1. CASE Keeps(t)
    BY <2>0, <2>1 DEF Keeps, ColdStartIsBaseline, Started
  <2>2. CASE StartsPredicted(t)
    <3>1. PICK f \in Forecasts(t) :
             /\ task'[t].alloc = [req |-> Quantity(f), lim |-> Quantity(Headroom(f))]
             /\ task'[t].by = IF engine.model /\ EngineHistory(Image[t]).n > 0 THEN "model" ELSE "engine"
      BY <2>2 DEF StartsPredicted, StartedWith
    <3>2. IsRequirement(hint[t])
      BY FeedbackAssumption DEF TypeOK
    <3>3. ~(engine.model /\ EngineHistory(Image[t]).n > 0)
      BY <3>1
    <3>4. Quantity(f) = Base(t)
      BY <2>0, <3>2, <3>3, ColdForecast
    <3>5. Amount(Quantity(f)) = Quantity(f)
      <4>1. f \in Resource
        BY <3>2, ForecastsPositive
      <4>2. QED
        BY <4>1, QuantityFacts
    <3>6. task'[t].alloc.req = Quantity(f)
      BY <3>1
    <3> HIDE DEF Base
    <3>7. QED
      BY <2>0, <3>4, <3>5, <3>6
  <2>3. CASE StartsUnpredicted(t)
    <3>1. task'[t].alloc = GoResolve([pred |-> NoPredictions, base |-> hint], t)
      BY <2>3 DEF StartsUnpredicted, StartedWith
    <3>2. Amount(task'[t].alloc.req) = Base(t)
      BY <3>1
    <3> HIDE DEF Base
    <3>3. QED
      BY <2>0, <3>2
  <2>4. CASE Ends(t)
    BY <2>0, <2>4 DEF Ends, ColdStartIsBaseline, Started
  <2>5. CASE Leaves(t)
    BY <2>5 DEF Leaves, Started
  <2>6. QED
    BY <2>1, <2>2, <2>3, <2>4, <2>5, TaskSteps
<1>3. QED
  BY <1>1, <1>2, TypeCorrect, PTL DEF Spec
-----------------------------------------------------------------------------
(***************************************************************************)
(* History.                                                                *)
(***************************************************************************)

\* The recorded value, in whole units, is that of the resources but for less
\* than a unit.
Near(res, use) ==
    \A k \in Kinds : res[k] < Quantity(use)[k] + Unit /\ Quantity(use)[k] < res[k] + Unit

\* The conversion of RecordExecution's caller is off by less than a unit, that of
\* a report by nothing.
LEMMA ConversionsNear ==
    /\ \A l : IsList(l) => Near(Amount(l), Wire(l))
    /\ \A use \in Resource : Near(Quantity(use), use)
<1>1. ASSUME NEW l, IsList(l) PROVE Near(Amount(l), Wire(l))
  <2> DEFINE a == Amount(l)
             q == Quantity(Wire(l))
  <2>1. a \in Resource /\ a.cpu \in Nat /\ a.mem \in Nat
    BY <1>1, AmountFacts DEF Resource
  <2>2. q.cpu = ((a.cpu + Unit - 1) \div Unit) * Unit /\ q.mem = (a.mem \div Unit) * Unit
    BY DEF Quantity, Wire
  <2> DEFINE u == Unit
  <2>3. u \in Nat /\ u # 0
    BY UnitAssumption
  <2> HIDE DEF u, a
  <2>4. /\ a.cpu <= ((a.cpu + u - 1) \div u) * u /\ ((a.cpu + u - 1) \div u) * u < a.cpu + u
        /\ (a.mem \div u) * u <= a.mem /\ a.mem < (a.mem \div u) * u + u
        /\ ((a.cpu + u - 1) \div u) * u \in Nat /\ (a.mem \div u) * u \in Nat
    BY <2>1, <2>3
  <2>5. a.cpu < q.cpu + Unit /\ q.cpu < a.cpu + Unit /\ a.mem < q.mem + Unit /\ q.mem < a.mem + Unit
    <3>1. /\ a.cpu <= q.cpu /\ q.cpu < a.cpu + Unit /\ q.mem <= a.mem /\ a.mem < q.mem + Unit
          /\ q.cpu \in Nat /\ q.mem \in Nat
      BY <2>2, <2>4 DEF u
    <3> HIDE DEF q
    <3>2. QED
      BY <2>1, <2>3, <3>1 DEF u
  <2>6. /\ a["cpu"] < q["cpu"] + Unit /\ q["cpu"] < a["cpu"] + Unit
        /\ a["mem"] < q["mem"] + Unit /\ q["mem"] < a["mem"] + Unit
    BY <2>5
  <2> HIDE DEF q
  <2>7. \A k \in Kinds : a[k] < q[k] + Unit /\ q[k] < a[k] + Unit
    BY <2>6 DEF Kinds
  <2>8. QED
    BY <2>7 DEF Near, a, q
<1>2. ASSUME NEW use \in Resource PROVE Near(Quantity(use), use)
  <2> DEFINE q == Quantity(use)
  <2>1. q["cpu"] \in Nat /\ q["mem"] \in Nat
    BY QuantityFacts DEF Resource
  <2> HIDE DEF q
  <2>2. \A k \in Kinds : q[k] < q[k] + Unit
    BY <2>1, UnitAssumption DEF Kinds
  <2>3. QED
    BY <2>2 DEF Near, q
<1>3. QED
  BY <1>1, <1>2

\* The rows of successes, and the pods about to be recorded as such, were granted
\* to successful runs of that image.
RowsKept ==
    /\ \A i \in DOMAIN rows : rows[i].succeeded =>
          \E g \in granted : g.image = rows[i].image /\ Near(g.res, rows[i].use)
    /\ \A t \in TaskNames : task[t].phase = "Ended" => Grant(Image[t], Amount(task[t].alloc.req)) \in granted

\* This is kept when a retried pass records a run twice, reports come in batches
\* that break off, rows expire and inserts are lost.
LEMMA RowsOfGrants == Spec => []RowsKept
<1> DEFINE Backed(row) == \E g \in granted : g.image = row.image /\ Near(g.res, row.use)
           Rows == \A i \in DOMAIN rows : rows[i].succeeded => Backed(rows[i])
           Pods == \A t \in TaskNames : task[t].phase = "Ended" => Grant(Image[t], Amount(task[t].alloc.req)) \in granted
<1>1. Init => RowsKept
  BY TaskOKFacts DEF Init, RowsKept
<1>2. TypeOK /\ RowsKept /\ [Next]_vars => RowsKept'
  <2> SUFFICES ASSUME TypeOK, RowsKept, [Next]_vars PROVE Rows' /\ Pods'
    BY DEF RowsKept
  <2>0. Rows /\ Pods /\ rows \in Seq(Row) /\ Len(rows) <= MaxRows
    BY DEF RowsKept, TypeOK, Row
  <2>1. Pods'
    <3> SUFFICES ASSUME NEW t \in TaskNames, task'[t].phase = "Ended"
                 PROVE  Grant(Image[t], Amount(task'[t].alloc.req)) \in granted'
      OBVIOUS
    <3>1. CASE Keeps(t)
      <4>1. task[t].phase = "Ended" /\ task'[t].alloc = task[t].alloc /\ granted \subseteq granted'
        BY <3>1, TaskSteps DEF Keeps
      <4>2. Grant(Image[t], Amount(task[t].alloc.req)) \in granted
        BY <2>0, <4>1
      <4>3. QED
        BY <4>1, <4>2
    <3>2. CASE StartsPredicted(t) \/ StartsUnpredicted(t)
      <4>1. task'[t].phase = "Active"
        <5>1. \A r, who : StartedWith(t, r, who) => task'[t].phase = "Active"
          BY DEF StartedWith
        <5>2. \E r, who : StartedWith(t, r, who)
          BY <3>2, Zenon DEF StartsPredicted, StartsUnpredicted
        <5>3. QED
          BY <5>1, <5>2
      <4>2. QED
        BY <4>1
    <3>3. CASE Ends(t)
      BY <3>3 DEF Ends
    <3>4. CASE Leaves(t)
      BY <3>4 DEF Leaves
    <3>5. QED
      BY <3>1, <3>2, <3>3, <3>4, TaskSteps
  <2>2. Rows'
    <3>0. TaskNames = {} \/ granted \subseteq granted'
      BY TaskSteps
    <3>1. ASSUME rows' = rows, granted \subseteq granted' PROVE Rows'
      BY <2>0, <3>1
    <3>2. ASSUME NEW some \in SUBSET TaskNames, StartPredicted(some) \/ StartUnpredicted(some) PROVE Rows'
      BY <3>1, <3>2, PredictedFacts, UnpredictedFacts
    <3>3. ASSUME NEW t \in TaskNames, PodEnds(t) \/ Again(t) PROVE Rows'
      BY <3>1, <3>3 DEF PodEnds, Again
    <3>4. ASSUME NEW t \in TaskNames, NEW saved \in BOOLEAN, Sync(t, saved) PROVE Rows'
      <4> DEFINE row == [image |-> Image[t], use |-> Wire(task[t].alloc.req), succeeded |-> TRUE]
      <4>1. granted' = granted /\ (rows' = rows \/ (task[t].phase = "Ended" /\ rows' = Recorded(row)))
        BY <3>4 DEF Sync
      <4>2. CASE rows' = rows
        BY <3>1, <4>1, <4>2
      <4>3. CASE task[t].phase = "Ended" /\ rows' = Recorded(row)
        <5>1. row \in Row
          BY AmountFacts DEF TypeOK, IsRequirement, Images, Row
        <5>2. Backed(row)
          <6>1. Grant(Image[t], Amount(task[t].alloc.req)) \in granted
            BY <2>0, <4>3
          <6>2. Near(Amount(task[t].alloc.req), Wire(task[t].alloc.req))
            BY ConversionsNear DEF TypeOK, IsRequirement
          <6>3. QED
            BY <6>1, <6>2 DEF Grant
        <5> HIDE DEF row
        <5>3. \A i \in DOMAIN rows' : rows'[i] = row \/ \E j \in DOMAIN rows : rows'[i] = rows[j]
          BY <2>0, <4>3, <5>1, RecordedFacts
        <5>4. QED
          BY <2>0, <4>1, <5>2, <5>3
      <4>4. QED
        BY <4>1, <4>2, <4>3
    <3>5. ASSUME NEW S \in SUBSET TaskNames, NEW batch \in SetToSeqs(S), NEW uses \in [S -> Measured],
                 NEW stored \in 0..Len(batch), ReportMetrics(batch, uses, stored)
          PROVE  Rows'
      <4> DEFINE metrics == Metrics(batch, uses)
                 some == Stored(batch, uses, stored)
      <4>1. some \in Seq(Row) /\ DOMAIN some = 1..stored /\ \A i \in 1..stored : some[i] = metrics[i]
        BY MetricsFacts
      <4>2. /\ rows' = Insert(rows, some)
            /\ granted' = granted \cup {Grant(metrics[i].image, Quantity(metrics[i].use)) :
                                           i \in {j \in 1..stored : metrics[j].succeeded}}
        BY <3>5 DEF ReportMetrics, Metrics, Stored
      <4> HIDE DEF metrics, some
      <4>3. \A j \in DOMAIN some : some[j].succeeded =>
               \E g \in granted' : g.image = some[j].image /\ Near(g.res, some[j].use)
        <5> TAKE j \in DOMAIN some
        <5> HAVE some[j].succeeded
        <5>1. some[j] = metrics[j] /\ some[j] \in Row
          BY <4>1
        <5>2. some[j].use \in Resource
          BY <5>1 DEF Row
        <5> DEFINE g == Grant(some[j].image, Quantity(some[j].use))
        <5>3. g \in granted'
          BY <4>1, <4>2, <5>1
        <5>4. g.image = some[j].image /\ g.res = Quantity(some[j].use)
          BY DEF Grant
        <5>5. Near(g.res, some[j].use)
          BY <5>2, <5>4, ConversionsNear
        <5> HIDE DEF g
        <5>6. QED
          BY <5>3, <5>4, <5>5
      <4>4. \A i \in DOMAIN rows' : (\E j \in DOMAIN rows : rows'[i] = rows[j]) \/ (\E j \in DOMAIN some : rows'[i] = some[j])
        BY <2>0, <4>1, <4>2, InsertFacts
      <4>5. granted \subseteq granted'
        BY <4>2
      <4>6. QED
        BY <2>0, <4>3, <4>4, <4>5
    <3>6. CASE DatabaseDown \/ DatabaseUp \/ EngineStops \/ EngineStarts \/ ManagerRestarts
      BY <3>1, <3>6 DEF DatabaseDown, DatabaseUp, EngineStops, EngineStarts, ManagerRestarts
    <3>7. CASE Expire
      <4>1. rows # <<>> /\ rows' = Tail(rows) /\ granted' = granted
        BY <3>7 DEF Expire
      <4>2. \A i \in DOMAIN rows' : i + 1 \in DOMAIN rows /\ rows'[i] = rows[i + 1]
        BY <2>0, <4>1
      <4>3. QED
        BY <2>0, <4>1, <4>2
    <3>8. CASE UNCHANGED vars
      BY <3>1, <3>8 DEF vars
    <3> HIDE DEF Rows
    <3>9. QED
      BY <3>2, <3>3, <3>4, <3>5, <3>6, <3>7, <3>8 DEF Next
  <2>3. QED
    BY <2>1, <2>2
<1>3. QED
  BY <1>1, <1>2, TypeCorrect, PTL DEF Spec

\* Of finitely many naturals, one is the least and one the greatest.
LEMMA Extremes ==
    ASSUME NEW I, IsFiniteSet(I), I # {}, NEW v, \A i \in I : v[i] \in Nat
    PROVE  \E l, h \in I : \A i \in I : v[l] <= v[i] /\ v[i] <= v[h]
<1> DEFINE G == {T \in SUBSET I : T # {} => \E l, h \in T : \A i \in T : v[l] <= v[i] /\ v[i] <= v[h]}
<1>1. ASSUME NEW T \in SUBSET I, \A U \in (SUBSET T) \ {T} : U \in G
      PROVE  T \in G
  <2> SUFFICES ASSUME T # {} PROVE \E l, h \in T : \A i \in T : v[l] <= v[i] /\ v[i] <= v[h]
    OBVIOUS
  <2>1. PICK x \in T : TRUE
    OBVIOUS
  <2>2. T \ {x} \in G
    BY <1>1, <2>1
  <2>3. CASE T \ {x} = {}
    <3>1. \A i \in T : i = x /\ v[i] \in Nat
      BY <2>3
    <3>2. QED
      BY <2>1, <3>1
  <2>4. CASE T \ {x} # {}
    <3>1. PICK l \in T \ {x}, h \in T \ {x} : \A i \in T \ {x} : v[l] <= v[i] /\ v[i] <= v[h]
      BY <2>2, <2>4
    <3> DEFINE a == IF v[x] <= v[l] THEN x ELSE l
               b == IF v[h] <= v[x] THEN x ELSE h
    <3>2. a \in T /\ b \in T
      BY <2>1
    <3>3. \A i \in T : v[i] \in Nat
      OBVIOUS
    <3>4. \A i \in T : v[a] <= v[i] /\ v[i] <= v[b]
      BY <2>1, <3>1, <3>3
    <3> HIDE DEF a, b
    <3>5. QED
      BY <3>2, <3>4
  <2>5. QED
    BY <2>3, <2>4
<1>2. \A T \in SUBSET I : T \in G
  <2> HIDE DEF G
  <2>1. QED
    BY <1>1, SubsetInduction
<1>3. QED
  BY <1>2

\* The average of numbers between two bounds is between them.
LEMMA AverageBetween ==
    ASSUME NEW n \in Nat, n # 0, NEW sum \in Nat, NEW lo \in Nat, NEW hi \in Nat,
           lo * n <= sum, sum <= hi * n
    PROVE  lo <= sum \div n /\ sum \div n <= hi
<1>1. sum \div n \in Nat /\ (sum \div n) * n <= sum /\ sum < (sum \div n) * n + n
  OBVIOUS
<1> DEFINE a == sum \div n
<1> HIDE DEF a
<1>2. a \in Nat /\ a * n <= sum /\ sum < a * n + n
  BY <1>1 DEF a
<1>3. a * n <= hi * n /\ lo * n < a * n + n
  BY <1>2
<1>4. \A x, y \in Nat : x * n <= y * n => x <= y
  OBVIOUS
<1>5. a * n + n = (a + 1) * n
  BY <1>2
<1>6. \A x, y \in Nat : x * n < y * n => x < y
  OBVIOUS
<1>7. lo < a + 1 /\ a <= hi
  BY <1>2, <1>3, <1>4, <1>5, <1>6
<1>8. QED
  BY <1>2, <1>7 DEF a

\* What is learned of an image lies, but for the rounding of one value, between
\* the least and the most that its successful runs were given or reported with,
\* whatever was recorded twice, lost or failed.
THEOREM LearnsGrants == Spec => []HistoryOfGrants
<1>1. TypeOK /\ RowsKept => HistoryOfGrants
  <2> SUFFICES ASSUME TypeOK, RowsKept, NEW image \in Images, HistoryOf(image).n > 0
               PROVE  \A k \in Kinds : \E lo, hi \in {g.res : g \in {q \in granted : q.image = image}} :
                         /\ lo[k] < Quantity(HistoryOf(image).avg)[k] + Unit
                         /\ Quantity(HistoryOf(image).avg)[k] < hi[k] + Unit
    BY DEF HistoryOfGrants
  <2> DEFINE given == {g.res : g \in {q \in granted : q.image = image}}
             I == {i \in DOMAIN rows : rows[i].image = image /\ rows[i].succeeded}
             use == [i \in DOMAIN rows |-> rows[i].use]
             n == Cardinality(I)
             sum == Total(use, I)
             avg == HistoryOf(image).avg
  <2>1. rows \in Seq(Row) /\ Len(rows) \in Nat /\ DOMAIN rows = 1..Len(rows)
    BY DEF TypeOK, Row
  <2>2. IsFiniteSet(I)
    <3>1. IsFiniteSet(1..Len(rows))
      BY <2>1, FS_Interval
    <3>2. QED
      BY <2>1, <3>1, FS_Subset
  <2>3. \A i \in I : /\ use[i] = rows[i].use /\ use[i] \in Resource
                    /\ \E res \in given : Near(res, use[i])
    <3> TAKE i \in I
    <3>1. rows[i] \in Row /\ use[i] = rows[i].use /\ rows[i].image = image
      BY <2>1
    <3>2. PICK g \in granted : g.image = rows[i].image /\ Near(g.res, rows[i].use)
      BY DEF RowsKept
    <3>3. g.res \in given /\ Near(g.res, use[i])
      BY <3>1, <3>2
    <3>4. QED
      BY <3>1, <3>3 DEF Row
  <2>4. n \in Nat
    BY <2>2, FS_CardinalityType
  <2>5. n # 0 /\ avg = [cpu |-> sum.cpu \div n, mem |-> sum.mem \div n]
    <3>1. HistoryOf(image) = [n |-> n, avg |-> IF n = 0 THEN NoResource
                                               ELSE [cpu |-> sum.cpu \div n, mem |-> sum.mem \div n]]
      BY DEF HistoryOf, Averages
    <3> HIDE DEF n, sum
    <3>2. QED
      BY <2>4, <3>1
  <2>6. I # {}
    BY <2>2, <2>5, FS_EmptySet
  <2> HIDE DEF I, use, given
  <2>7. PICK lc \in I, hc \in I : \A i \in I : use[lc].cpu <= use[i].cpu /\ use[i].cpu <= use[hc].cpu
    <3> DEFINE v == [i \in I |-> use[i].cpu]
    <3>1. \A i \in I : v[i] \in Nat /\ v[i] = use[i].cpu
      BY <2>3 DEF Resource
    <3> HIDE DEF v
    <3>2. PICK l \in I, h \in I : \A i \in I : v[l] <= v[i] /\ v[i] <= v[h]
      BY <2>2, <2>6, <3>1, Extremes
    <3>3. QED
      BY <3>1, <3>2
  <2>8. PICK lm \in I, hm \in I : \A i \in I : use[lm].mem <= use[i].mem /\ use[i].mem <= use[hm].mem
    <3> DEFINE v == [i \in I |-> use[i].mem]
    <3>1. \A i \in I : v[i] \in Nat /\ v[i] = use[i].mem
      BY <2>3 DEF Resource
    <3> HIDE DEF v
    <3>2. PICK l \in I, h \in I : \A i \in I : v[l] <= v[i] /\ v[i] <= v[h]
      BY <2>2, <2>6, <3>1, Extremes
    <3>3. QED
      BY <3>1, <3>2
  <2> DEFINE lo == [cpu |-> use[lc].cpu, mem |-> use[lm].mem]
             hi == [cpu |-> use[hc].cpu, mem |-> use[hm].mem]
  <2>9. lo \in Resource /\ hi \in Resource
    BY <2>3 DEF Resource
  <2>10. \A i \in I : AtMost(lo, use[i]) /\ AtMost(use[i], hi)
    BY <2>7, <2>8 DEF AtMost
  <2>11. AllResources(use, I)
    BY <2>3 DEF AllResources
  <2>12. sum \in Resource
    BY <2>2, <2>11, TotalType
  <2>13. AtMost(Times(lo, n), sum) /\ AtMost(sum, Times(hi, n))
    <3>1. I \in SUBSET I
      OBVIOUS
    <3> HIDE DEF lo, hi
    <3>2. QED
      BY <2>2, <2>9, <2>10, <2>11, <3>1, TotalBetween
  <2> HIDE DEF n, sum
  <2>14. /\ lo.cpu * n <= sum.cpu /\ sum.cpu <= hi.cpu * n
         /\ lo.mem * n <= sum.mem /\ sum.mem <= hi.mem * n
    BY <2>13 DEF AtMost, Times
  <2>15. /\ sum.cpu \in Nat /\ sum.mem \in Nat /\ lo.cpu \in Nat /\ lo.mem \in Nat
         /\ hi.cpu \in Nat /\ hi.mem \in Nat
    <3> HIDE DEF lo, hi
    <3>1. QED
      BY <2>9, <2>12 DEF Resource
  <2>16. /\ lo.cpu <= avg.cpu /\ avg.cpu <= hi.cpu /\ lo.mem <= avg.mem /\ avg.mem <= hi.mem
    <3> HIDE DEF lo, hi, avg
    <3>1. lo.cpu <= sum.cpu \div n /\ sum.cpu \div n <= hi.cpu
      BY <2>4, <2>5, <2>14, <2>15, AverageBetween
    <3>2. lo.mem <= sum.mem \div n /\ sum.mem \div n <= hi.mem
      BY <2>4, <2>5, <2>14, <2>15, AverageBetween
    <3>3. QED
      BY <2>5, <3>1, <3>2
  <2>17. /\ avg.cpu \in Nat /\ avg.mem \in Nat
    BY <2>4, <2>5, <2>15
  <2> HIDE DEF avg
  <2>18. \A i \in I : /\ use[i].cpu \in Nat /\ use[i].mem \in Nat
                     /\ Quantity(use[i])["cpu"] = use[i].cpu * Unit /\ Quantity(use[i])["mem"] = use[i].mem * Unit
    BY <2>3 DEF Resource, Quantity
  <2>19. Quantity(avg)["cpu"] = avg.cpu * Unit /\ Quantity(avg)["mem"] = avg.mem * Unit
    BY DEF Quantity
  <2>20. \A x, y \in Nat : x <= y => x * Unit <= y * Unit
    BY UnitAssumption
  <2>21. /\ Quantity(use[lc])["cpu"] <= Quantity(avg)["cpu"] /\ Quantity(avg)["cpu"] <= Quantity(use[hc])["cpu"]
         /\ Quantity(use[lm])["mem"] <= Quantity(avg)["mem"] /\ Quantity(avg)["mem"] <= Quantity(use[hm])["mem"]
    BY <2>16, <2>17, <2>18, <2>19, <2>20
  <2>22. \A res \in given : res["cpu"] \in Nat /\ res["mem"] \in Nat
    BY DEF given, TypeOK, Resource
  <2>23. /\ Quantity(avg)["cpu"] \in Nat /\ Quantity(avg)["mem"] \in Nat
         /\ \A i \in I : Quantity(use[i])["cpu"] \in Nat /\ Quantity(use[i])["mem"] \in Nat
    BY <2>17, <2>18, <2>19, UnitAssumption
  <2>24. \E l, h \in given : l["cpu"] < Quantity(avg)["cpu"] + Unit /\ Quantity(avg)["cpu"] < h["cpu"] + Unit
    <3>1. PICK l \in given, h \in given : Near(l, use[lc]) /\ Near(h, use[hc])
      BY <2>3
    <3>2. l["cpu"] < Quantity(use[lc])["cpu"] + Unit /\ Quantity(use[hc])["cpu"] < h["cpu"] + Unit
      BY <3>1 DEF Near, Kinds
    <3>3. QED
      BY <2>21, <2>22, <2>23, <3>2, UnitAssumption
  <2>25. \E l, h \in given : l["mem"] < Quantity(avg)["mem"] + Unit /\ Quantity(avg)["mem"] < h["mem"] + Unit
    <3>1. PICK l \in given, h \in given : Near(l, use[lm]) /\ Near(h, use[hm])
      BY <2>3
    <3>2. l["mem"] < Quantity(use[lm])["mem"] + Unit /\ Quantity(use[hm])["mem"] < h["mem"] + Unit
      BY <3>1 DEF Near, Kinds
    <3>3. QED
      BY <2>21, <2>22, <2>23, <3>2, UnitAssumption
  <2>26. QED
    BY <2>24, <2>25 DEF given, avg, Kinds
<1>2. QED
  BY <1>1, TypeCorrect, RowsOfGrants, PTL
=============================================================================
