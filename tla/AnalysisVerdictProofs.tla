----------------------- MODULE AnalysisVerdictProofs ------------------------
(***************************************************************************)
(* Machine-checked proofs about AnalysisVerdict, SystemSettings, Engines   *)
(* and Severity, for any administrators, changes, media and checkpoints.   *)
(***************************************************************************)
EXTENDS AnalysisVerdict, FiniteSetTheorems, TLAPS

Severities == {None} \union Names
Media == Seq({None} \union Intensities)
Smokeless(m) == \A i \in DOMAIN m : m[i] = None

(* Clamp lands in its interval.                                            *)
LEMMA ClampBounds ==
  ASSUME NEW n \in Int, NEW low \in Int, NEW high \in Int, low <= high
  PROVE  Clamp(n, low, high) \in low..high
BY DEF Clamp

(* MLConfig.validate gives bands, in order, whatever it is given.          *)
THEOREM ValidBandsAreOrdered ==
  ASSUME NEW b, b.low \in Int, b.moderate \in Int
  PROVE  ValidBands(b) \in Bands /\ ValidBands(b).low < ValidBands(b).moderate
<1> DEFINE low == Clamp(b.low, 1, 98)
<1>1. low \in 1..98
  BY DEF Clamp
<1> HIDE DEF low
<1>2. Clamp(b.moderate, low + 1, 99) \in (low + 1)..99
  BY <1>1 DEF Clamp
<1> DEFINE moderate == Clamp(b.moderate, low + 1, 99)
<1> HIDE DEF moderate
<1>3. moderate \in (low + 1)..99
  BY <1>2 DEF moderate
<1>4. ValidBands(b) = [low |-> low, moderate |-> moderate]
  BY DEF ValidBands, low, moderate
<1>5. QED
  BY <1>1, <1>3, <1>4 DEF Bands

(* The counts of any finite list are counts, and they are zero exactly     *)
(* when no entry has a name.                                               *)
LEMMA CountsOfAList ==
  ASSUME NEW ranks, IsFiniteSet(DOMAIN ranks)
  PROVE  /\ Counts(ranks) \in [Names -> Nat]
         /\ (\A n \in Names : Counts(ranks)[n] = 0) <=>
              (\A i \in DOMAIN ranks : ranks[i] \notin Names)
<1> DEFINE Of(n) == {i \in DOMAIN ranks : ranks[i] = n}
<1>1. ASSUME NEW n \in Names
      PROVE  Cardinality(Of(n)) \in Nat /\ (Cardinality(Of(n)) = 0 <=> Of(n) = {})
  <2>1. Of(n) \in SUBSET DOMAIN ranks
    OBVIOUS
  <2>2. IsFiniteSet(Of(n))
    BY <2>1, FS_Subset
  <2>3. QED
    BY <2>2, FS_CardinalityType, FS_EmptySet
<1>2. Counts(ranks) = [n \in Names |-> Cardinality(Of(n))]
  BY DEF Counts
<1>3. \A n \in Names : Of(n) = {} <=> \A i \in DOMAIN ranks : ranks[i] # n
  OBVIOUS
<1> HIDE DEF Of
<1>4. \A n \in Names : Counts(ranks)[n] = 0 <=> \A i \in DOMAIN ranks : ranks[i] # n
  BY <1>1, <1>2, <1>3
<1>5. QED
  BY <1>1, <1>2, <1>4

(* The worst of some counts is a severity, and none only for empty counts. *)
LEMMA WorstOfCounts ==
  ASSUME NEW counts \in [Names -> Nat]
  PROVE  /\ Worst(counts) \in Severities
         /\ Worst(counts) = None <=> \A n \in Names : counts[n] = 0
<1> DEFINE S == {None} \union {n \in Names : counts[n] > 0}
<1>1. S \subseteq 0..3 /\ 0 \in S /\ \A n \in Names : n \in S <=> counts[n] # 0
  BY DEF None, Names
<1> HIDE DEF S
<1>2. \E x \in S : \A y \in S : x >= y
  <2>1. CASE 3 \in S
    BY <1>1, <2>1
  <2>2. CASE 3 \notin S /\ 2 \in S
    BY <1>1, <2>2
  <2>3. CASE 3 \notin S /\ 2 \notin S /\ 1 \in S
    BY <1>1, <2>3
  <2>4. CASE 3 \notin S /\ 2 \notin S /\ 1 \notin S
    BY <1>1, <2>4
  <2>5. QED
    BY <2>1, <2>2, <2>3, <2>4
<1>3. Worst(counts) = Max(S)
  BY DEF Worst, S
<1>4. Max(S) \in S /\ \A y \in S : Max(S) >= y
  BY <1>2 DEF Max
<1>5. ASSUME NEW m \in S, \A y \in S : m >= y
      PROVE  m \in 0..3 /\ (m = 0 <=> \A y \in S : y = 0)
  BY <1>1, <1>5
<1>6. (\A y \in S : y = 0) <=> \A n \in Names : counts[n] = 0
  BY <1>1 DEF S, None, Names
<1>7. QED
  BY <1>3, <1>4, <1>5, <1>6 DEF Severities, None, Names

(* Both bandings give a severity, and none exactly where there is no smoke. *)
LEMMA BandedIntensity ==
  ASSUME NEW n \in {None} \union Intensities, NEW b, b.low \in Int, b.moderate \in Int
  PROVE  /\ Classify(n, b) \in Severities /\ (Classify(n, b) \in Names <=> n # None)
         /\ SeverityFor(n, b) \in Severities /\ (SeverityFor(n, b) \in Names <=> n # None)
         /\ n \notin {b.low, b.moderate} => Classify(n, b) = SeverityFor(n, b)
BY DEF Classify, SeverityFor, Severities, Names, None, Intensities

(* A media's list, banded either way.                                      *)
LEMMA BandedMedia ==
  ASSUME NEW m \in Media, NEW b, b.low \in Int, b.moderate \in Int
  PROVE  /\ Counts(Classified(m, b)) \in [Names -> Nat]
         /\ (\A n \in Names : Counts(Classified(m, b))[n] = 0) <=>
              (\A i \in DOMAIN m : m[i] = None)
         /\ Counts([i \in DOMAIN m |-> SeverityFor(m[i], b)]) \in [Names -> Nat]
         /\ (\A n \in Names : Counts([i \in DOMAIN m |-> SeverityFor(m[i], b)])[n] = 0) <=>
              (\A i \in DOMAIN m : m[i] = None)
         /\ (\A i \in DOMAIN m : m[i] \notin {b.low, b.moderate}) =>
              Classified(m, b) = [i \in DOMAIN m |-> SeverityFor(m[i], b)]
<1> DEFINE inline == Classified(m, b)
           outline == [i \in DOMAIN m |-> SeverityFor(m[i], b)]
<1>1. /\ DOMAIN m = 1..Len(m) /\ Len(m) \in Nat
      /\ \A i \in DOMAIN m : m[i] \in {None} \union Intensities
  BY DEF Media
<1>2. IsFiniteSet(DOMAIN m)
  BY <1>1, FS_Interval
<1>3. /\ DOMAIN inline = DOMAIN m /\ \A i \in DOMAIN m : inline[i] = Classify(m[i], b)
      /\ DOMAIN outline = DOMAIN m /\ \A i \in DOMAIN m : outline[i] = SeverityFor(m[i], b)
  BY DEF Classified
<1>4. \A i \in DOMAIN m : /\ inline[i] \in Names <=> m[i] # None
                          /\ outline[i] \in Names <=> m[i] # None
  <2> SUFFICES ASSUME NEW i \in DOMAIN m
               PROVE  /\ (inline[i] \in Names <=> m[i] # None)
                      /\ (outline[i] \in Names <=> m[i] # None)
    OBVIOUS
  <2>1. m[i] \in {None} \union Intensities
    BY <1>1
  <2>2. (Classify(m[i], b) \in Names <=> m[i] # None)
        /\ (SeverityFor(m[i], b) \in Names <=> m[i] # None)
    BY <2>1, BandedIntensity
  <2>3. QED
    BY <1>3, <2>2
<1>5. (\A i \in DOMAIN m : m[i] \notin {b.low, b.moderate}) => inline = outline
  BY <1>1, BandedIntensity DEF Classified
<1> HIDE DEF inline, outline
<1>6. /\ Counts(inline) \in [Names -> Nat]
      /\ (\A n \in Names : Counts(inline)[n] = 0) <=> (\A i \in DOMAIN m : m[i] = None)
  BY <1>2, <1>3, <1>4, CountsOfAList
<1>7. /\ Counts(outline) \in [Names -> Nat]
      /\ (\A n \in Names : Counts(outline)[n] = 0) <=> (\A i \in DOMAIN m : m[i] = None)
  BY <1>2, <1>3, <1>4, CountsOfAList
<1>8. QED
  BY <1>5, <1>6, <1>7 DEF inline, outline

----------------------------------------------------------------------------
(* A change laid over a row is a row.                                      *)
LEMMA LaidIsARow ==
  ASSUME NEW draft \in [Fields -> 0..100], NEW body \in Bodies \union {<<>>}
  PROVE  Laid(draft, body) \in [Fields -> 0..100]
<1>1. \A field \in DOMAIN body : body[field] \in 0..100
  <2>1. CASE body \in Bodies
    BY <2>1, SettingsAssumption
  <2>2. CASE body = <<>>
    <3>1. DOMAIN body = {}
      BY <2>2
    <3>2. QED
      BY <3>1
  <2>3. QED
    BY <2>1, <2>2
<1>2. QED
  BY <1>1 DEF Laid

(* The defaults are a row, and a request that is over, or not begun, is a   *)
(* request.                                                                *)
LEMMA BlankIsARequest ==
  /\ Defaults \in [Fields -> 0..100]
  /\ \A step \in {"idle", "over"} :
       Blank(step) \in [pc : {"idle", "fetched", "over"}, channel : {"api", "form"},
                        body : Bodies \union {<<>>}, draft : [Fields -> 0..100]]
<1>1. Defaults \in [Fields -> 0..100]
  BY SettingsAssumption DEF Fields
<1>2. QED
  BY <1>1 DEF Blank

(* The configuration row keeps its type and, but for the form, its order.  *)
LEMMA SettingsStep ==
  ASSUME SettingsTypeOK, OrderedBands, SettingsNext
  PROVE  SettingsTypeOK' /\ OrderedBands'
<1> DEFINE Request == [pc : {"idle", "fetched", "over"}, channel : {"api", "form"},
                       body : Bodies \union {<<>>}, draft : [Fields -> 0..100]]
<1>0. /\ request \in [Admins -> Request] /\ row \in [Fields -> 0..100]
      /\ updatedBy \in Admins \union {NoOne} /\ formSaved \in BOOLEAN
  BY DEF SettingsTypeOK
<1>1. PICK a \in Admins : \/ \E channel \in Channels, body \in Bodies : Fetch(a, channel, body)
                          \/ Refuse(a)
                          \/ Save(a)
  BY DEF SettingsNext
<1>2. CASE \E channel \in Channels, body \in Bodies : Fetch(a, channel, body)
  <2>1. PICK channel \in Channels, body \in Bodies : Fetch(a, channel, body)
    BY <1>2
  <2>2. [pc |-> "fetched", channel |-> channel, body |-> body, draft |-> row] \in Request
    BY <1>0, SettingsAssumption
  <2>3. request' \in [Admins -> Request]
    BY <1>0, <2>1, <2>2 DEF Fetch
  <2>4. QED
    BY <1>0, <2>1, <2>3 DEF Fetch, SettingsTypeOK, OrderedBands
<1>3. Blank("over") \in Request
  BY BlankIsARequest
<1>4. ASSUME Over(a)
      PROVE  request' \in [Admins -> Request]
  BY <1>0, <1>3, <1>4 DEF Over
<1>5. CASE Refuse(a)
  BY <1>0, <1>4, <1>5 DEF Refuse, SettingsTypeOK, OrderedBands
<1>6. CASE Save(a)
  <2>1. request[a] \in Request
    BY <1>0
  <2>2. row' \in [Fields -> 0..100]
    BY <1>6, <2>1, LaidIsARow DEF Save
  <2>3. formSaved' \in BOOLEAN /\ (formSaved' \/ row'.low < row'.moderate)
    BY <1>0, <1>6 DEF Save, Valid
  <2>4. QED
    BY <1>4, <1>6, <2>2, <2>3 DEF Save, SettingsTypeOK, OrderedBands
<1>7. QED
  BY <1>1, <1>2, <1>5, <1>6

(* The settings start typed, and ordered.                                  *)
LEMMA SettingsStart ==
  ASSUME SettingsInit
  PROVE  SettingsTypeOK /\ OrderedBands
<1>1. Defaults.low < Defaults.moderate
  BY SettingsAssumption
<1>2. request \in [Admins -> [pc : {"idle", "fetched", "over"}, channel : {"api", "form"},
                              body : Bodies \union {<<>>}, draft : [Fields -> 0..100]]]
  BY BlankIsARequest DEF SettingsInit
<1>3. QED
  BY <1>1, <1>2, BlankIsARequest DEF SettingsInit, SettingsTypeOK, OrderedBands

----------------------------------------------------------------------------
EnginesInv == EnginesTypeOK /\ EnginesAgree

(* What the two networks' constants are.                                   *)
LEMMA FilesAreNatural ==
  /\ Sizes \subseteq Nat /\ ConfigSize \in Sizes /\ Nothing \notin Sizes /\ Unset \notin Files
  /\ Nothing \in Files
BY EnginesAssumption DEF Files, Nothing, Unset

(* Empty caches and new objects agree.                                     *)
LEMMA EnginesStart ==
  ASSUME EnginesInit
  PROVE  EnginesInv
BY FilesAreNatural DEF EnginesInit, EnginesInv, EnginesTypeOK, EnginesAgree, NewDetector,
   NewSegmenter

(* A new scan starts with nothing, whatever is cached.                     *)
LEMMA NewAnalyzerKeeps ==
  ASSUME EnginesInv, NewAnalyzer
  PROVE  EnginesInv'
BY FilesAreNatural DEF NewAnalyzer, EnginesInv, EnginesTypeOK, EnginesAgree, NewDetector,
   NewSegmenter

(* A filled cache keeps its net; an empty one takes the one it is given.   *)
LEMMA FilledCache ==
  ASSUME EnginesTypeOK, NEW model \in BOOLEAN, NEW net \in Files \union {Unset}
  PROVE  /\ Filled(model, net) \in [model : BOOLEAN, net : Files \union {Unset}]
         /\ Filled(model, net).net = IF cached.net = Unset THEN net ELSE cached.net
BY DEF EnginesTypeOK, Filled

(* The net a scan uses is filled, and is the one the cache then has.       *)
LEMMA NetOfAScan ==
  ASSUME EnginesInv, NEW file \in Files
  PROVE  /\ NetOf(file) \in [loaded : BOOLEAN, net : Files, size : Sizes, first : BOOLEAN]
         /\ NetOf(file).loaded
         /\ NetOf(file).net = IF cached.net = Unset THEN NetOf(file).net ELSE cached.net
         /\ NetOf(file).net # Unset
         /\ NetOf(file).first /\ NetOf(file).net # Nothing => NetOf(file).size = NetOf(file).net
         /\ IF segmenter.loaded THEN NetOf(file) = segmenter ELSE used = {}
<1>1. CASE segmenter.loaded
  BY <1>1, FilesAreNatural DEF NetOf, EnginesInv, EnginesTypeOK, EnginesAgree
<1>2. CASE ~segmenter.loaded /\ cached.net # Unset
  BY <1>2, FilesAreNatural DEF NetOf, EnginesInv, EnginesTypeOK, EnginesAgree, NewSegmenter
<1>3. CASE ~segmenter.loaded /\ cached.net = Unset
  BY <1>3, FilesAreNatural DEF NetOf, EnginesInv, EnginesTypeOK, EnginesAgree, Files
<1>4. QED
  BY <1>1, <1>2, <1>3

(* The warm-up fills what is empty, and so does a scan of another upload.  *)
LEMMA WarmupKeeps ==
  ASSUME EnginesInv, NEW present \in BOOLEAN, NEW file \in Files, Warmup(present, file)
  PROVE  EnginesInv'
<1>1. /\ cached' \in [model : BOOLEAN, net : Files \union {Unset}]
      /\ cached'.net = IF cached.net = Unset THEN file ELSE cached.net
  BY FilledCache DEF Warmup, EnginesInv
<1>2. EnginesTypeOK'
  BY <1>1 DEF Warmup, EnginesInv, EnginesTypeOK
<1>3. EnginesAgree'
  BY <1>1 DEF Warmup, EnginesInv, EnginesAgree, NewSegmenter
<1>4. QED
  BY <1>2, <1>3 DEF EnginesInv

(* A frame without vehicles leaves the segmenter alone.                    *)
LEMMA SeeNothingKeeps ==
  ASSUME EnginesInv, NEW present \in BOOLEAN, SeeNothing(present)
  PROVE  EnginesInv'
<1>1. ModelOf(present) \in BOOLEAN
  BY DEF ModelOf, EnginesInv, EnginesTypeOK
<1>2. /\ detector' = [loaded |-> TRUE, model |-> ModelOf(present)]
      /\ detector'.model = ModelOf(present)
  BY DEF SeeNothing
<1>3. cached' = Filled(ModelOf(present), Unset)
  BY <1>2 DEF SeeNothing
<1>4. /\ cached' \in [model : BOOLEAN, net : Files \union {Unset}]
      /\ cached'.net = IF cached.net = Unset THEN Unset ELSE cached.net
  BY <1>1, <1>3, FilledCache DEF EnginesInv
<1>5. EnginesTypeOK'
  BY <1>1, <1>2, <1>4 DEF SeeNothing, EnginesInv, EnginesTypeOK
<1>6. EnginesAgree'
  BY <1>4 DEF SeeNothing, EnginesInv, EnginesAgree, NewSegmenter
<1>7. QED
  BY <1>5, <1>6 DEF EnginesInv

(* The net looked up, for a batch or for the mode at the end, agrees.      *)
LEMMA SegmenterIsFilled ==
  ASSUME EnginesInv, NEW model \in BOOLEAN, NEW file \in Files,
         segmenter' = NetOf(file), cached' = Filled(model, segmenter'.net)
  PROVE  /\ cached' \in [model : BOOLEAN, net : Files \union {Unset}]
         /\ segmenter' \in [loaded : BOOLEAN, net : Files, size : Sizes, first : BOOLEAN]
         /\ segmenter'.loaded /\ cached'.net # Unset /\ segmenter'.net = cached'.net
         /\ segmenter'.first /\ segmenter'.net # Nothing => segmenter'.size = segmenter'.net
<1>1. /\ segmenter' \in [loaded : BOOLEAN, net : Files, size : Sizes, first : BOOLEAN]
      /\ segmenter'.loaded
      /\ segmenter'.net = IF cached.net = Unset THEN segmenter'.net ELSE cached.net
      /\ segmenter'.net # Unset
      /\ segmenter'.first /\ segmenter'.net # Nothing => segmenter'.size = segmenter'.net
  BY NetOfAScan
<1>2. segmenter'.net \in Files
  BY <1>1
<1>3. /\ cached' \in [model : BOOLEAN, net : Files \union {Unset}]
      /\ cached'.net = IF cached.net = Unset THEN segmenter'.net ELSE cached.net
  BY <1>2, FilledCache DEF EnginesInv
<1>4. QED
  BY <1>1, <1>3

(* A batch is segmented with the net of the cache, or by the heuristic:    *)
(* without a net, or by mishap.                                            *)
LEMMA SeeVehiclesKeeps ==
  ASSUME EnginesInv, NEW present \in BOOLEAN, NEW file \in Files, SeeVehicles(present, file)
  PROVE  EnginesInv'
<1>1. /\ cached' \in [model : BOOLEAN, net : Files \union {Unset}]
      /\ segmenter' \in [loaded : BOOLEAN, net : Files, size : Sizes, first : BOOLEAN]
      /\ segmenter'.loaded /\ cached'.net # Unset /\ segmenter'.net = cached'.net
      /\ segmenter'.first /\ segmenter'.net # Nothing => segmenter'.size = segmenter'.net
  BY SegmenterIsFilled DEF SeeVehicles
<1>2. IF segmenter.loaded THEN segmenter' = segmenter ELSE used = {}
  BY NetOfAScan DEF SeeVehicles
<1>3. used \subseteq {Nothing} \union (IF segmenter'.net = Nothing THEN {} ELSE {segmenter'.size})
  BY <1>2 DEF EnginesInv, EnginesAgree
<1>4. Nothing \in used /\ segmenter'.net # Nothing => mishaps
  BY <1>2 DEF EnginesInv, EnginesAgree
<1>5. segmenter'.size \in Sizes /\ segmenter'.size # Nothing /\ segmenter'.size \in Files
  BY <1>1, FilesAreNatural DEF Files
<1>6. CASE /\ used' = used \union {IF segmenter'.net = Nothing THEN Nothing ELSE segmenter'.size}
           /\ UNCHANGED mishaps
  <2>1. used' \subseteq Files /\ mishaps' \in BOOLEAN
    BY <1>5, <1>6, FilesAreNatural DEF EnginesInv, EnginesTypeOK
  <2>2. /\ used' \subseteq {Nothing} \union
                       (IF segmenter'.net = Nothing THEN {} ELSE {segmenter'.size})
        /\ Nothing \in used' /\ segmenter'.net # Nothing => mishaps'
    BY <1>3, <1>4, <1>5, <1>6
  <2>3. QED
    BY <1>1, <2>1, <2>2 DEF SeeVehicles, EnginesInv, EnginesTypeOK, EnginesAgree
<1>7. CASE /\ segmenter'.net # Nothing
           /\ used' = used \union {Nothing} /\ mishaps' = TRUE
  <2>1. used' \subseteq Files /\ mishaps' \in BOOLEAN
    BY <1>7, FilesAreNatural DEF EnginesInv, EnginesTypeOK
  <2>2. /\ used' \subseteq {Nothing} \union
                       (IF segmenter'.net = Nothing THEN {} ELSE {segmenter'.size})
        /\ Nothing \in used' /\ segmenter'.net # Nothing => mishaps'
    BY <1>3, <1>7
  <2>3. QED
    BY <1>1, <2>1, <2>2 DEF SeeVehicles, EnginesInv, EnginesTypeOK, EnginesAgree
<1>8. QED
  BY <1>6, <1>7 DEF SeeVehicles, Segment

(* The mode is resolved with the net of the cache.                         *)
LEMMA ResolveKeeps ==
  ASSUME EnginesInv, NEW file \in Files, Resolve(file)
  PROVE  EnginesInv' /\ segmenter'.loaded
<1>1. /\ cached' \in [model : BOOLEAN, net : Files \union {Unset}]
      /\ segmenter' \in [loaded : BOOLEAN, net : Files, size : Sizes, first : BOOLEAN]
      /\ segmenter'.loaded /\ cached'.net # Unset /\ segmenter'.net = cached'.net
      /\ segmenter'.first /\ segmenter'.net # Nothing => segmenter'.size = segmenter'.net
  BY SegmenterIsFilled DEF Resolve
<1>2. IF segmenter.loaded THEN segmenter' = segmenter ELSE used = {}
  BY NetOfAScan DEF Resolve
<1>3. EnginesTypeOK'
  BY <1>1 DEF Resolve, EnginesInv, EnginesTypeOK
<1>4. EnginesAgree'
  BY <1>1, <1>2 DEF Resolve, EnginesInv, EnginesAgree
<1>5. QED
  BY <1>1, <1>3, <1>4 DEF EnginesInv

----------------------------------------------------------------------------
(* The analysis's own part of the invariant.                               *)
RunTyped ==
  /\ stage \in {"none", "admitted", "running", "persisting", "done", "failed"}
  /\ phase \in {"waiting", "running", "answered", "failed"}
  /\ percent \in 0..100 /\ progress \in 0..percent
  /\ bands \in Bands
  /\ snapshot \in [Fields -> 0..100] /\ live \in [Fields -> 0..100]
  /\ stored.counts \in [Names -> Nat] /\ stored.overall \in {None} \union Names

SettingsInv == SettingsTypeOK /\ OrderedBands

(* The invariant, part by part.                                            *)
LEMMA VerdictInvParts ==
  /\ VerdictInv <=> SettingsInv /\ EnginesInv /\ RunTyped /\ ScanAgrees /\ StoredAgrees
  /\ VerdictInv' <=> SettingsInv' /\ EnginesInv' /\ RunTyped' /\ ScanAgrees' /\ StoredAgrees'
BY DEF VerdictInv, SettingsInv, EnginesInv, RunTyped, TypeOK

runVars == <<scanVars, stage, snapshot, progress, live, stored>>

(* The bands of a row are numbers.                                         *)
LEMMA RowHasBands ==
  ASSUME NEW r \in [Fields -> 0..100]
  PROVE  r.low \in Int /\ r.moderate \in Int
BY SettingsAssumption DEF Fields

(* What leaves the settings alone keeps them.                              *)
LEMMA SettingsFrame ==
  ASSUME SettingsInv, UNCHANGED settingsVars
  PROVE  SettingsInv'
BY DEF SettingsInv, SettingsTypeOK, OrderedBands, settingsVars

(* What leaves the engines alone keeps them.                               *)
LEMMA EnginesFrame ==
  ASSUME EnginesInv, UNCHANGED engineVars
  PROVE  EnginesInv'
BY DEF EnginesInv, EnginesTypeOK, EnginesAgree, engineVars

(* What leaves the analysis alone, and a filled segmenter filled and with  *)
(* its net, keeps the analysis.                                            *)
LEMMA RunFrame ==
  ASSUME RunTyped, ScanAgrees, StoredAgrees, UNCHANGED runVars,
         phase = "answered" => UNCHANGED segmenter
  PROVE  RunTyped' /\ ScanAgrees' /\ StoredAgrees'
<1>1. RunTyped'
  BY DEF RunTyped, runVars, scanVars
<1>2. ScanAgrees'
  BY DEF ScanAgrees, runVars, scanVars
<1>3. stage' = "done" => phase = "answered"
  BY DEF ScanAgrees, runVars
<1>4. StoredAgrees'
  BY <1>3 DEF StoredAgrees, Rebanded, Mode, runVars, scanVars
<1>5. QED
  BY <1>1, <1>2, <1>4

(* A media without vehicles.                                               *)
LEMMA EmptySeq == <<>> \in Seq({None} \union Intensities)
OBVIOUS

(* The first state.                                                        *)
LEMMA VerdictStart ==
  ASSUME Init
  PROVE  VerdictInv
<1>1. SettingsInv
  BY SettingsStart DEF Init, SettingsInv
<1>2. EnginesInv
  BY EnginesStart DEF Init
<1>3. RunTyped
  <2>1. stored.counts \in [Names -> Nat] /\ stored.overall \in {None} \union Names
    BY DEF Init
  <2>2. bands = [low |-> 0, moderate |-> 0] /\ percent = 0 /\ progress = 0
    BY DEF Init
  <2>3. bands \in Bands /\ percent \in 0..100 /\ progress \in 0..percent
    BY <2>2 DEF Bands
  <2>4. snapshot \in [Fields -> 0..100] /\ live \in [Fields -> 0..100]
    BY BlankIsARequest DEF Init
  <2>5. QED
    BY <2>1, <2>3, <2>4 DEF Init, RunTyped
<1>4. ScanAgrees
  <2>1. answer.vehicles \in Seq({None} \union Intensities)
    BY EmptySeq DEF Init, NoAnswer
  <2>2. QED
    BY <2>1 DEF Init, ScanAgrees
<1>5. StoredAgrees
  BY DEF Init, StoredAgrees
<1>6. QED
  BY <1>1, <1>2, <1>3, <1>4, <1>5, VerdictInvParts

(* What is frozen is a row.                                                *)
LEMMA FrozenIsARow ==
  ASSUME row \in [Fields -> 0..100], NEW slider \in Sliders \union {NoSlider}
  PROVE  Freeze(slider) \in [Fields -> 0..100]
<1>1. {"confidence", "mask"} \subseteq Fields /\ row.confidence \in Int /\ row.mask \in Int
  BY SettingsAssumption DEF Fields
<1>2. slider # NoSlider => slider \in Int
  BY VerdictAssumption
<1>3. ASSUME slider # NoSlider
      PROVE  MaskThreshold(slider) \div 100 \in Int
  <2>1. MaskThreshold(slider) \in Int
    BY <1>2, <1>3 DEF MaskThreshold, Clamp
  <2>2. QED
    BY <2>1
<1>4. (IF slider = NoSlider THEN row.mask ELSE MaskThreshold(slider) \div 100) \in Int
  BY <1>1, <1>3
<1>5. /\ Clamp(row.confidence, 5, 95) \in 0..100
      /\ Clamp(IF slider = NoSlider THEN row.mask ELSE MaskThreshold(slider) \div 100, 5, 95)
           \in 0..100
  BY <1>1, <1>4 DEF Clamp
<1>6. QED
  BY <1>1, <1>5 DEF Freeze

(* An analysis is admitted with the settings frozen.                       *)
LEMMA AdmitKeeps ==
  ASSUME VerdictInv, NEW slider \in Sliders \union {NoSlider}, Admit(slider)
  PROVE  VerdictInv'
<1>1. SettingsInv /\ EnginesInv /\ RunTyped /\ ScanAgrees /\ StoredAgrees
  BY VerdictInvParts
<1>2. SettingsInv' /\ EnginesInv'
  BY <1>1, SettingsFrame, EnginesFrame DEF Admit
<1>3. snapshot' \in [Fields -> 0..100]
  BY <1>1, FrozenIsARow DEF Admit, SettingsInv, SettingsTypeOK
<1>4. RunTyped'
  BY <1>1, <1>3 DEF Admit, RunTyped, scanVars
<1>5. ScanAgrees'
  BY <1>1 DEF Admit, ScanAgrees, scanVars, engineVars
<1>6. StoredAgrees'
  BY DEF Admit, StoredAgrees
<1>7. QED
  BY <1>2, <1>4, <1>5, <1>6, VerdictInvParts

(* A claimed analysis runs with the frozen bands, corrected.               *)
LEMMA BeginKeeps ==
  ASSUME VerdictInv, Begin
  PROVE  VerdictInv'
<1>1. SettingsInv /\ EnginesInv /\ RunTyped /\ ScanAgrees /\ StoredAgrees
  BY VerdictInvParts
<1>2. SettingsInv' /\ EnginesInv'
  BY <1>1, SettingsFrame, NewAnalyzerKeeps DEF Begin
<1>3. bands' \in Bands
  <2>1. snapshot.low \in Int /\ snapshot.moderate \in Int
    BY <1>1, RowHasBands DEF RunTyped
  <2>2. QED
    BY <2>1, ValidBandsAreOrdered DEF Begin
<1>4. RunTyped'
  BY <1>1, <1>3 DEF Begin, RunTyped
<1>5. ScanAgrees'
  BY <1>1 DEF Begin, ScanAgrees
<1>6. StoredAgrees'
  BY DEF Begin, StoredAgrees
<1>7. QED
  BY <1>2, <1>4, <1>5, <1>6, VerdictInvParts

(* A reported percentage, written or dropped.                              *)
LEMMA ScanReportsKeeps ==
  ASSUME VerdictInv, ScanReports
  PROVE  VerdictInv'
<1>1. SettingsInv /\ EnginesInv /\ RunTyped /\ ScanAgrees /\ StoredAgrees
  BY VerdictInvParts
<1>2. SettingsInv' /\ EnginesInv'
  BY <1>1, SettingsFrame, EnginesFrame DEF ScanReports
<1>3. percent' \in percent..99 /\ percent' \in Int /\ progress' \in {progress, percent'}
  BY <1>1 DEF ScanReports, Report, WriteProgress, RunTyped
<1>4. percent' \in 0..100 /\ progress' \in 0..percent'
  BY <1>1, <1>3 DEF RunTyped
<1>5. RunTyped'
  BY <1>1, <1>4 DEF ScanReports, Report, RunTyped
<1>6. ScanAgrees'
  BY <1>1 DEF ScanReports, Report, ScanAgrees, engineVars
<1>7. StoredAgrees'
  BY DEF ScanReports, StoredAgrees
<1>8. QED
  BY <1>2, <1>5, <1>6, <1>7, VerdictInvParts

(* Another scan fills the caches, and a frame is looked at.                *)
LEMMA FramesKeep ==
  ASSUME VerdictInv, NEW present \in BOOLEAN, NEW file \in Files,
         OthersScan(present, file) \/ ScanFrame(present, file)
  PROVE  VerdictInv'
<1>1. SettingsInv /\ EnginesInv /\ RunTyped /\ ScanAgrees /\ StoredAgrees
  BY VerdictInvParts
<1>2. SettingsInv'
  BY <1>1, SettingsFrame DEF OthersScan, ScanFrame
<1>3. EnginesInv'
  BY <1>1, WarmupKeeps, SeeNothingKeeps, SeeVehiclesKeeps DEF OthersScan, ScanFrame
<1>4. UNCHANGED runVars
  BY DEF OthersScan, ScanFrame, runVars
<1>5. phase = "answered" => UNCHANGED segmenter
  BY DEF OthersScan, ScanFrame, Warmup
<1>6. QED
  BY <1>1, <1>2, <1>3, <1>4, <1>5, RunFrame, VerdictInvParts

(* The verdict of a media is a severity, and none without smoke.           *)
LEMMA VerdictIsASeverity ==
  ASSUME NEW m \in Media, NEW b \in Bands
  PROVE  /\ Worst(Counts(Classified(m, b))) \in {None} \union Names
         /\ Worst(Counts(Classified(m, b))) = None <=> Smokeless(m)
<1>1. b.low \in Int /\ b.moderate \in Int
  BY DEF Bands
<1> DEFINE counts == Counts(Classified(m, b))
<1>2. counts \in [Names -> Nat] /\ ((\A n \in Names : counts[n] = 0) <=> Smokeless(m))
  BY <1>1, BandedMedia DEF Smokeless
<1> HIDE DEF counts
<1>3. Worst(counts) \in Severities /\ (Worst(counts) = None <=> \A n \in Names : counts[n] = 0)
  BY <1>2, WorstOfCounts
<1>4. QED
  BY <1>2, <1>3 DEF Severities, counts

(* The answer lists what was seen, and is worth its worst.                 *)
LEMMA ScanAnswersKeeps ==
  ASSUME VerdictInv, NEW r \in Readings, NEW file \in Files, ScanAnswers(r, file)
  PROVE  VerdictInv'
<1>1. SettingsInv /\ EnginesInv /\ RunTyped /\ ScanAgrees /\ StoredAgrees
  BY VerdictInvParts
<1>2. SettingsInv'
  BY <1>1, SettingsFrame DEF ScanAnswers
<1>3. EnginesInv' /\ segmenter'.loaded
  BY <1>1, ResolveKeeps DEF ScanAnswers
<1>4. phase' = "answered" /\ percent' = 100 /\ UNCHANGED <<bands, stage, snapshot, live, stored>>
  BY DEF ScanAnswers, GiveAnswer
<1>5. progress' \in 0..percent'
  BY <1>1, <1>4 DEF ScanAnswers, WriteProgress, RunTyped
<1>6. RunTyped'
  BY <1>1, <1>4, <1>5 DEF RunTyped
<1>7. /\ answer'.vehicles \in Seq({None} \union Intensities)
      /\ answer'.overall = Worst(Counts(Classified(answer'.vehicles, bands')))
  <2>1. r \in Seq({None} \union Intensities)
    BY VerdictAssumption
  <2>2. answer' = [vehicles |-> r, overall |-> Worst(Counts(Classified(r, bands)))]
    BY DEF ScanAnswers, Answer
  <2>3. QED
    BY <1>4, <2>1, <2>2
<1>8. ScanAgrees'
  BY <1>1, <1>3, <1>4, <1>7 DEF ScanAnswers, ScanAgrees
<1>9. StoredAgrees'
  BY DEF ScanAnswers, StoredAgrees
<1>10. QED
  BY <1>2, <1>3, <1>6, <1>8, <1>9, VerdictInvParts

(* A failing scan, and a failing write, end the analysis.                  *)
LEMMA FailuresKeep ==
  ASSUME VerdictInv, ScanFails \/ PersistFails
  PROVE  VerdictInv'
<1>1. SettingsInv /\ EnginesInv /\ RunTyped /\ ScanAgrees /\ StoredAgrees
  BY VerdictInvParts
<1>2. SettingsInv' /\ EnginesInv'
  BY <1>1, SettingsFrame, EnginesFrame DEF ScanFails, PersistFails
<1>3. RunTyped'
  BY <1>1 DEF ScanFails, GiveUp, PersistFails, RunTyped, scanVars
<1>4. ScanAgrees'
  BY <1>1 DEF ScanFails, GiveUp, PersistFails, ScanAgrees, scanVars, engineVars
<1>5. StoredAgrees'
  BY DEF ScanFails, PersistFails, StoredAgrees
<1>6. QED
  BY <1>2, <1>3, <1>4, <1>5, VerdictInvParts

(* _persist reads the settings of the moment.                              *)
LEMMA ReadSettingsKeeps ==
  ASSUME VerdictInv, ReadSettings
  PROVE  VerdictInv'
<1>1. SettingsInv /\ EnginesInv /\ RunTyped /\ ScanAgrees /\ StoredAgrees
  BY VerdictInvParts
<1>2. SettingsInv' /\ EnginesInv'
  BY <1>1, SettingsFrame, EnginesFrame DEF ReadSettings
<1>3. live' \in [Fields -> 0..100]
  BY <1>1 DEF ReadSettings, RunTyped, SettingsInv, SettingsTypeOK
<1>4. RunTyped'
  BY <1>1, <1>3 DEF ReadSettings, RunTyped, scanVars
<1>5. ScanAgrees'
  BY <1>1 DEF ReadSettings, ScanAgrees, scanVars, engineVars
<1>6. StoredAgrees'
  BY DEF ReadSettings, StoredAgrees
<1>7. QED
  BY <1>2, <1>4, <1>5, <1>6, VerdictInvParts

(* _persist stores counts, verdict and mode.                               *)
LEMMA PersistKeeps ==
  ASSUME VerdictInv, Persist
  PROVE  VerdictInv'
<1>1. SettingsInv /\ EnginesInv /\ RunTyped /\ ScanAgrees /\ StoredAgrees
  BY VerdictInvParts
<1>2. SettingsInv' /\ EnginesInv'
  BY <1>1, SettingsFrame, EnginesFrame DEF Persist
<1>3. phase = "answered" /\ percent = 100 /\ answer.vehicles \in Media
  BY <1>1 DEF Persist, ScanAgrees, Media
<1>4. Rebanded \in [Names -> Nat]
  <2>1. live.low \in Int /\ live.moderate \in Int
    BY <1>1, RowHasBands DEF RunTyped
  <2>2. QED
    BY <1>3, <2>1, BandedMedia DEF Rebanded
<1>5. answer.overall \in {None} \union Names
  BY <1>1, <1>3, VerdictIsASeverity DEF ScanAgrees, RunTyped
<1>6. stored' = [counts |-> Rebanded, overall |-> answer.overall, mode |-> Mode(segmenter)]
  BY DEF Persist
<1>7. stored'.counts \in [Names -> Nat] /\ stored'.overall \in {None} \union Names
  BY <1>4, <1>5, <1>6
<1>8. RunTyped'
  BY <1>1, <1>3, <1>7 DEF Persist, RunTyped, scanVars
<1>9. ScanAgrees'
  BY <1>1 DEF Persist, ScanAgrees, scanVars, engineVars
<1>10. StoredAgrees'
  BY <1>6 DEF Persist, StoredAgrees, Rebanded, Mode, scanVars, engineVars
<1>11. QED
  BY <1>2, <1>8, <1>9, <1>10, VerdictInvParts

(* Every step keeps the invariant.                                         *)
LEMMA VerdictStep ==
  ASSUME VerdictInv, [Next]_vars
  PROVE  VerdictInv'
<1>1. SettingsInv /\ EnginesInv /\ RunTyped /\ ScanAgrees /\ StoredAgrees
  BY VerdictInvParts
<1>2. CASE Settings
  <2>1. SettingsInv'
    BY <1>1, <1>2, SettingsStep DEF Settings, SettingsInv
  <2>2. EnginesInv' /\ UNCHANGED runVars /\ UNCHANGED segmenter
    BY <1>1, <1>2, EnginesFrame DEF Settings, runVars, engineVars
  <2>3. QED
    BY <1>1, <2>1, <2>2, RunFrame, VerdictInvParts
<1>3. CASE UNCHANGED vars
  <2>1. SettingsInv' /\ EnginesInv' /\ UNCHANGED runVars /\ UNCHANGED segmenter
    BY <1>1, <1>3, SettingsFrame, EnginesFrame DEF vars, runVars, engineVars
  <2>2. QED
    BY <1>1, <2>1, RunFrame, VerdictInvParts
<1>4. QED
  BY <1>2, <1>3, AdmitKeeps, BeginKeeps, ScanReportsKeeps, FramesKeep, ScanAnswersKeeps,
     FailuresKeep, ReadSettingsKeeps, PersistKeeps DEF Next

(* The invariant the rest follows from.                                    *)
THEOREM VerdictInvariance == Spec => []VerdictInv
<1>1. Init => VerdictInv
  BY VerdictStart
<1>2. VerdictInv /\ [Next]_vars => VerdictInv'
  BY VerdictStep
<1>3. QED
  BY <1>1, <1>2, PTL DEF Spec

(***************************************************************************)
(* Settings, engines, run and row keep their types and the stored bands    *)
(* their order, whatever changes overlap, but for a change by the form.    *)
(***************************************************************************)
THEOREM VerdictTypes == Spec => []TypeOK
BY VerdictInvariance, PTL DEF VerdictInv

(* The stored mode, and the ghosts of the scan, follow from the agreement. *)
LEMMA InvNamesTheEngine ==
  ASSUME VerdictInv
  PROVE  EngineIsNamed
<1> SUFFICES ASSUME stage = "done"
             PROVE  /\ (stored.mode = "unet") = (cached.net \notin {Unset, Nothing})
                    /\ stored.mode = "classical" => used \subseteq {Nothing}
                    /\ stored.mode = "unet" /\ Nothing \in used => mishaps
                    /\ segmenter.first => used \subseteq {Nothing, cached.net}
  BY DEF EngineIsNamed
<1>1. /\ segmenter.loaded /\ cached.net # Unset /\ segmenter.net = cached.net
      /\ stored.mode = Mode(segmenter)
  BY DEF VerdictInv, ScanAgrees, StoredAgrees, EnginesAgree
<1>2. stored.mode = IF cached.net = Nothing THEN "classical" ELSE "unet"
  BY <1>1 DEF Mode
<1>3. QED
  BY <1>1, <1>2 DEF VerdictInv, EnginesAgree

(* Where the settings did not move and no intensity lies on a threshold,   *)
(* both bandings give the same list.                                       *)
LEMMA InvExplainsTheDrift ==
  ASSUME VerdictInv, stage = "done"
  PROVE  DriftIsExplained
<1> SUFFICES ASSUME live.low = snapshot.low, live.moderate = snapshot.moderate,
                    \A i \in DOMAIN answer.vehicles :
                      answer.vehicles[i] \notin {live.low, live.moderate},
                    ValidBands(snapshot) = [low |-> snapshot.low, moderate |-> snapshot.moderate]
             PROVE  stored.overall = Worst(stored.counts)
  BY DEF DriftIsExplained
<1>1. /\ answer.vehicles \in Media /\ live \in [Fields -> 0..100]
      /\ bands = ValidBands([low |-> snapshot.low, moderate |-> snapshot.moderate])
      /\ answer.overall = Worst(Counts(Classified(answer.vehicles, bands)))
      /\ stored.counts = Rebanded /\ stored.overall = answer.overall
  BY DEF VerdictInv, ScanAgrees, StoredAgrees, Media, TypeOK
<1>2. ValidBands([low |-> snapshot.low, moderate |-> snapshot.moderate]) = ValidBands(snapshot)
  BY DEF ValidBands
<1>3. bands.low = live.low /\ bands.moderate = live.moderate
  BY <1>1, <1>2
<1>4. live.low \in Int /\ live.moderate \in Int
  BY <1>1, RowHasBands
<1>5. Classified(answer.vehicles, bands) =
        [i \in DOMAIN answer.vehicles |-> SeverityFor(answer.vehicles[i], live)]
  <2>1. Classified(answer.vehicles, bands) = Classified(answer.vehicles, live)
    BY <1>3 DEF Classified, Classify
  <2>2. QED
    BY <1>1, <1>4, <2>1, BandedMedia
<1>6. QED
  BY <1>1, <1>5 DEF Rebanded

(* The stored verdict, and its emptiness, follow from the agreement.       *)
LEMMA InvExplainsTheVerdict ==
  ASSUME VerdictInv
  PROVE  VerdictIsExplained
<1> SUFFICES ASSUME stage = "done"
             PROVE  /\ stored.overall =
                         Worst(Counts(Classified(answer.vehicles, ValidBands(snapshot))))
                    /\ (stored.overall = None) = (\A n \in Names : stored.counts[n] = 0)
                    /\ DriftIsExplained
  BY DEF VerdictIsExplained
<1>1. /\ answer.vehicles \in Media /\ live \in [Fields -> 0..100] /\ bands \in Bands
      /\ bands = ValidBands([low |-> snapshot.low, moderate |-> snapshot.moderate])
      /\ answer.overall = Worst(Counts(Classified(answer.vehicles, bands)))
      /\ stored.counts = Rebanded /\ stored.overall = answer.overall
  BY DEF VerdictInv, ScanAgrees, StoredAgrees, Media, TypeOK
<1>2. ValidBands([low |-> snapshot.low, moderate |-> snapshot.moderate]) = ValidBands(snapshot)
  BY DEF ValidBands
<1>3. /\ live.low \in Int /\ live.moderate \in Int
      /\ bands.low \in Int /\ bands.moderate \in Int
  BY <1>1, RowHasBands DEF Bands
<1>4. (\A n \in Names : Rebanded[n] = 0) <=> Smokeless(answer.vehicles)
  BY <1>1, <1>3, BandedMedia DEF Rebanded, Smokeless
<1>5. answer.overall = None <=> Smokeless(answer.vehicles)
  BY <1>1, VerdictIsASeverity
<1>6. (stored.overall = None) = (\A n \in Names : stored.counts[n] = 0)
  BY <1>1, <1>4, <1>5
<1>7. QED
  BY <1>1, <1>2, <1>6, InvExplainsTheDrift

(***************************************************************************)
(* Whatever an administrator changes while an analysis runs, its verdict   *)
(* is the worst of its stored intensities by the bands frozen on it, and   *)
(* what the stored counts say otherwise has one of three reasons.          *)
(***************************************************************************)
THEOREM VerdictsAreExplained == Spec => []VerdictIsExplained
BY VerdictInvariance, InvExplainsTheVerdict, PTL

(***************************************************************************)
(* Whoever fills the caches, and whatever becomes of the files, the stored *)
(* mode names the engine of the process, and of the run but for a mishap.  *)
(***************************************************************************)
THEOREM EnginesAreNamed == Spec => []EngineIsNamed
BY VerdictInvariance, InvNamesTheEngine, PTL
=============================================================================
