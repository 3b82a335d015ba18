-------------------------- MODULE OfflineSyncProofs --------------------------
(***************************************************************************)
(* OfflineSync for any number of pages and any bounds: types, that no      *)
(* save, however late or often it is sent, removes what the server holds,  *)
(* and that no change is forgotten.                                        *)
(***************************************************************************)
EXTENDS OfflineSync, FiniteSetTheorems, TLAPS

LEMMA Designs ==
  /\ {} \in Design
  /\ \A d, e, f \in Design : d \cup e \in Design /\ Merged(d, e, f) \in Design
  /\ \A n \in 1..MaxSchedules : {n} \in Design
  /\ \A k \in 1..MaxForeign : {-k} \in Design
  BY DEF Design, Merged

LEMMA Constants == NoDraft \in Draft /\ NoFlight \in Flight /\ NewPage \in PageState
  <1>1. NoDraft \in Draft
    BY Designs, EditorAssumption DEF NoDraft, Draft, NoBase
  <1>2. NoFlight \in Flight
    BY Designs DEF NoFlight, Flight, NoBase
  <1>. QED BY <1>1, <1>2, Designs, EditorAssumption DEF NewPage, PageState, NoBase

(* What a request does to the versions on the server. *)
LEMMA PatchedTypes ==
  ASSUME saved \in Seq(Design), saved # <<>>, NEW base, NEW d \in Design, NEW result,
         Patched(base, d, result)
  PROVE  saved' \in Seq(Design) /\ saved' # <<>>
  BY DEF Patched

LEMMA LoadedTypes ==
  ASSUME saved \in Seq(Design), saved # <<>>, NEW d \in Draft
  PROVE  Loaded(d) \in PageState
  <1>1. Latest \in Design /\ revision \in Revision
    BY DEF Latest, revision, Revision
  <1>2. d.design \in Design /\ d.base \in {NoBase} \cup Revision /\ d.blocked \in BOOLEAN /\ d.stamp \in 0..MaxSchedules
    BY DEF Draft
  <1>. QED BY <1>1, <1>2, Constants DEF Loaded, PageState, NewPage

LEMMA FromCacheTypes ==
  ASSUME cache \in Copy, NEW it \in PageState
  PROVE  FromCache(it) \in PageState
  BY DEF FromCache, PageState, Copy

(* Each change of a page's state keeps its type. *)
LEMMA PageMoves ==
  ASSUME NEW it \in PageState, saved \in Seq(Design), saved # <<>>, stamp \in 0..MaxSchedules
  PROVE  /\ \A d \in Draft, t \in {"off", "auto", "explicit"} : Showing(it, d, t) \in PageState
         /\ Sent(it) \in Draft /\ Sending(it) \in PageState
         /\ [it EXCEPT !.timer = "off"] \in PageState
         /\ \A r \in {"saved", "conflict", "refused"} : Served(it, r) \in PageState
         /\ Rest(it) \in Draft /\ Acknowledged(it) \in PageState
         /\ \A b \in BOOLEAN : /\ Kept(it, b) \in Draft
                               /\ Ended(it, b) \in PageState
                               /\ [Ended(it, b) EXCEPT !.latest = Kept(it, b)] \in PageState
         /\ [it EXCEPT !.latest = NoDraft, !.timer = "off"] \in PageState
  <1>0. it.latest \in Draft /\ it.flight \in Flight
    BY DEF PageState
  <1>1. \A d \in Draft, t \in {"off", "auto", "explicit"} : Showing(it, d, t) \in PageState
    <2>. TAKE d \in Draft, t \in {"off", "auto", "explicit"}
    <2>1. [it.flight EXCEPT !.current = FALSE] \in Flight
      BY <1>0 DEF Flight
    <2>2. d.design \in Design /\ d.blocked \in BOOLEAN
      BY DEF Draft
    <2>. QED BY <2>1, <2>2 DEF Showing, PageState
  <1>2. Sent(it) \in Draft
    BY <1>0 DEF Sent, PageState, Draft
  <1>3. Sending(it) \in PageState
    <2>1. Sent(it).design \in Design /\ Sent(it).base \in {NoBase} \cup Revision
      BY <1>2 DEF Draft
    <2>2. [at |-> "sent", design |-> Sent(it).design, base |-> Sent(it).base, current |-> TRUE] \in Flight
      BY <2>1 DEF Flight
    <2>. QED BY <1>2, <2>2 DEF Sending, PageState
  <1>4. [it EXCEPT !.timer = "off"] \in PageState
    BY DEF PageState
  <1>5. \A r \in {"saved", "conflict", "refused"} : Served(it, r) \in PageState
    <2>. TAKE r \in {"saved", "conflict", "refused"}
    <2>1. [it.flight EXCEPT !.at = r] \in Flight
      BY <1>0 DEF Flight
    <2>. QED BY <2>1 DEF Served, PageState
  <1>6. Rest(it) \in Draft
    <2>1. it.flight.base + 1 \in Revision /\ it.flight.design \in Design
      BY <1>0 DEF Flight, Revision, NoBase
    <2>2. [it.latest EXCEPT !.base = it.flight.base + 1, !.baseDesign = it.flight.design] \in Draft
      BY <1>0, <2>1 DEF Draft
    <2>. QED BY <1>0, <2>2, Constants DEF Rest
  <1>7. Acknowledged(it) \in PageState
    <2>1. it.flight.base + 1 \in Revision /\ it.flight.design \in Design
      BY <1>0 DEF Flight, Revision, NoBase
    <2>2. it.origin \in 0..MaxSchedules /\ 0 \in 0..MaxSchedules
      BY EditorAssumption DEF PageState
    <2>3. (IF it.flight.current THEN 0 ELSE it.origin) \in 0..MaxSchedules
      BY <2>2, Zenon
    <2>4. \A o \in 0..MaxSchedules, d \in Draft, n \in Revision, f \in Design :
            [it EXCEPT !.rev = n, !.pending = NoBase, !.blocked = FALSE, !.acknowledged = f,
                       !.latest = d, !.flight = NoFlight, !.origin = o] \in PageState
      BY Constants DEF PageState
    <2>. QED BY <1>6, <2>1, <2>3, <2>4, Zenon DEF Acknowledged
  <1>8. \A b \in BOOLEAN : /\ Kept(it, b) \in Draft
                           /\ Ended(it, b) \in PageState
                           /\ [Ended(it, b) EXCEPT !.latest = Kept(it, b)] \in PageState
    <2>. TAKE b \in BOOLEAN
    <2>1. Kept(it, b) \in Draft
      BY <1>0 DEF Kept, Draft
    <2>2. it.flight.base \in {NoBase} \cup Revision
      BY <1>0 DEF Flight
    <2>3. Ended(it, b) \in PageState
      BY <2>2, Constants DEF Ended, PageState
    <2>4. \A x \in PageState, d \in Draft : [x EXCEPT !.latest = d] \in PageState
      BY DEF PageState
    <2>. QED BY <2>1, <2>3, <2>4
  <1>9. [it EXCEPT !.latest = NoDraft, !.timer = "off"] \in PageState
    BY Constants DEF PageState
  <1>. QED BY <1>1, <1>2, <1>3, <1>4, <1>5, <1>6, <1>7, <1>8, <1>9

(* The drafts that are scheduled. *)
LEMMA DraftMoves ==
  ASSUME NEW it \in PageState, saved \in Seq(Design), saved # <<>>, stamp \in 0..MaxSchedules,
         stamp < MaxSchedules
  PROVE  Edited(it) \in Draft /\ Retried(it) \in Draft /\ Reviewed(it) \in Draft
  <1>0. it.latest \in Draft /\ it.shown \in Design /\ it.acknowledged \in Design
    BY DEF PageState
  <1>1. stamp + 1 \in 1..MaxSchedules /\ stamp + 1 \in 0..MaxSchedules
    BY EditorAssumption
  <1>2. it.latest.baseDesign \in Design /\ it.latest.design \in Design
    BY <1>0 DEF Draft
  <1>3. Latest \in Design /\ revision \in Revision
    BY DEF Latest, revision, Revision
  <1>4. it.shown \cup {stamp + 1} \in Design
    BY <1>0, <1>1, Designs
  <1>5. Edited(it) \in Draft
    BY <1>0, <1>1, <1>2, <1>4 DEF Edited, Draft, PageState
  <1>6. Retried(it) \in Draft
    BY <1>0, <1>1 DEF Retried, Draft
  <1>7. Merged(it.latest.baseDesign, it.latest.design, Latest) \in Design
    BY <1>2, <1>3, Designs
  <1>8. Reviewed(it) \in Draft
    BY <1>1, <1>3, <1>7 DEF Reviewed, Draft
  <1>. QED BY <1>5, <1>6, <1>8

-----------------------------------------------------------------------------
(* The invariant.  Whatever may be saved contains the design of the        *)
(* revision it will be sent with, for every way the page has of choosing   *)
(* that revision later.                                                    *)

Includes(s, design, base) == base # NoBase => base \in 1..Len(s) /\ s[base] \subseteq design

(* The save of this design on this base has been accepted. *)
Accepted(s, design, base) == base + 1 \in 1..Len(s) /\ s[base + 1] = design

DraftSound(s, d) ==
  /\ d # NoDraft => d.base # NoBase
  /\ Includes(s, d.design, d.base)
  /\ d.baseDesign \subseteq d.design

FlightSound(s, it) ==
  IF it.flight.at = "none"
  THEN it.flight.base = NoBase
  ELSE /\ it.phase = "open" /\ it.latest # NoDraft
       /\ it.flight.base # NoBase /\ Includes(s, it.flight.design, it.flight.base)
       /\ it.flight.design \subseteq it.shown
       /\ it.flight.current => it.timer = "off"
       /\ it.flight.at = "saved" => Accepted(s, it.flight.design, it.flight.base)

BasisSound(s, it) ==
  it.phase = "open" =>
    /\ it.rev \in 1..Len(s) /\ s[it.rev] = it.acknowledged
    /\ it.pending = NoBase => it.acknowledged \subseteq it.shown

LatestSound(s, it) ==
  /\ DraftSound(s, it.latest)
  /\ it.latest # NoDraft => it.latest.design = it.shown
  /\ it.latest = NoDraft => it.pending = NoBase
  /\ it.timer # "off" => it.phase = "open" /\ it.latest # NoDraft

PageSound(s, it) ==
  /\ BasisSound(s, it) /\ LatestSound(s, it) /\ FlightSound(s, it)
  /\ Includes(s, it.shown, it.pending)

Monotone(s) == \A q, r \in 1..Len(s) : q =< r => s[q] \subseteq s[r]

EditorSound ==
  /\ \A p \in Pages : DraftSound(saved, drafts[p]) /\ PageSound(saved, page[p])
  /\ \A request \in wire : request.base # NoBase /\ Includes(saved, request.design, request.base)
  /\ Includes(saved, cache.design, cache.rev)
  /\ Monotone(saved)

ItemSound(s, item) ==
  /\ Includes(s, item.design, item.base)
  /\ item.status = "completed" => Accepted(s, item.design, item.base)

EnqueueSound(s, e) == e.at # "none" => e.base # NoBase /\ Includes(s, e.design, e.base)

ManagerSound(s, items, m) ==
  m.at \in {"saved", "cached"} => Accepted(s, items[m.item].design, items[m.item].base)

QueueSound ==
  /\ \A i \in Ids : ItemSound(saved, queue[i])
  /\ \A p \in Pages : EnqueueSound(saved, enqueue[p]) /\ ManagerSound(saved, queue, sync[p])

Inv == TypeOK /\ EditorSound /\ QueueSound

-----------------------------------------------------------------------------
(* A step leaves the versions alone or adds one that contains the latest.  *)

Grows(s, t) ==
  \/ t = s
  \/ \E d \in Design : t = Append(s, d) /\ s[Len(s)] \subseteq d

LEMMA Growth ==
  ASSUME NEW s \in Seq(Design), s # <<>>, NEW t, Grows(s, t)
  PROVE  /\ t \in Seq(Design) /\ t # <<>>
         /\ \A d, b : Includes(s, d, b) => Includes(t, d, b)
         /\ \A d, b : Accepted(s, d, b) => Accepted(t, d, b)
         /\ \A r \in 1..Len(s) : r \in 1..Len(t) /\ t[r] = s[r]
         /\ Monotone(s) => Monotone(t)
  <1>1. CASE t = s
    BY <1>1
  <1>2. CASE \E d \in Design : t = Append(s, d) /\ s[Len(s)] \subseteq d
    <2>1. PICK d \in Design : t = Append(s, d) /\ s[Len(s)] \subseteq d
      BY <1>2
    <2>2. /\ t \in Seq(Design) /\ t # <<>> /\ Len(s) \in Nat \ {0} /\ Len(t) = Len(s) + 1
          /\ \A r \in 1..Len(s) : t[r] = s[r]
          /\ t[Len(s) + 1] = d
      BY <2>1
    <2>3. \A r \in 1..Len(t) : r \in 1..Len(s) \/ r = Len(s) + 1
      BY <2>2
    <2>4. ASSUME Monotone(s), NEW q \in 1..Len(t), NEW r \in 1..Len(t), q =< r
          PROVE  t[q] \subseteq t[r]
      <3>1. CASE r \in 1..Len(s)
        <4>1. q \in 1..Len(s)
          BY <3>1, <2>4, <2>2
        <4>. QED BY <3>1, <4>1, <2>2, <2>4 DEF Monotone
      <3>2. CASE r = Len(s) + 1 /\ q \in 1..Len(s)
        <4>1. s[q] \subseteq s[Len(s)]
          BY <3>2, <2>2, <2>4 DEF Monotone
        <4>. QED BY <3>2, <4>1, <2>1, <2>2
      <3>3. CASE r = Len(s) + 1 /\ q = Len(s) + 1
        BY <3>3
      <3>. QED BY <2>3, <3>1, <3>2, <3>3
    <2>. QED BY <2>2, <2>4 DEF Includes, Accepted, Monotone
  <1>. QED BY <1>1, <1>2 DEF Grows

LEMMA SoundGrowth ==
  ASSUME NEW s \in Seq(Design), s # <<>>, NEW t, Grows(s, t)
  PROVE  /\ \A d : DraftSound(s, d) => DraftSound(t, d)
         /\ \A it : PageSound(s, it) => PageSound(t, it)
         /\ \A item : ItemSound(s, item) => ItemSound(t, item)
  <1>1. \A d : DraftSound(s, d) => DraftSound(t, d)
    BY Growth DEF DraftSound
  <1>2. \A it : PageSound(s, it) => PageSound(t, it)
    BY <1>1, Growth DEF PageSound, FlightSound, LatestSound, BasisSound
  <1>3. \A item : ItemSound(s, item) => ItemSound(t, item)
    BY Growth DEF ItemSound
  <1>. QED BY <1>1, <1>2, <1>3

(* A request that includes the design of its base makes the versions grow. *)
LEMMA PatchedGrows ==
  ASSUME saved \in Seq(Design), saved # <<>>, NEW base, NEW d \in Design, NEW result,
         base # NoBase, Includes(saved, d, base), Patched(base, d, result)
  PROVE  /\ Grows(saved, saved')
         /\ result \in {"saved", "conflict", "refused"}
         /\ result = "saved" => Accepted(saved', d, base)
  <1>1. CASE result = "saved"
    <2>1. base = revision /\ saved' = Append(saved, d)
      BY <1>1 DEF Patched
    <2>2. Len(saved) \in Nat \ {0} /\ saved'[Len(saved) + 1] = d /\ Len(saved') = Len(saved) + 1
      BY <2>1
    <2>. QED BY <1>1, <2>1, <2>2 DEF Includes, Grows, Accepted, revision
  <1>2. CASE result # "saved"
    BY <1>2 DEF Patched, Grows
  <1>. QED BY <1>1, <1>2

(* Without a network no page is loaded from the offline copy: the case in  *)
(* which what is shown, its revision and the pending base can disagree.    *)
Connected == "offline start" \notin Offered /\ "offline reload" \notin Offered

LEMMA LoadedSound ==
  ASSUME saved \in Seq(Design), saved # <<>>, NEW d \in Draft, DraftSound(saved, d)
  PROVE  PageSound(saved, Loaded(d))
  <1>1. Len(saved) \in Nat \ {0} /\ revision = Len(saved) /\ Latest = saved[revision]
    BY DEF revision, Latest
  <1>2. PICK it \in PageState : it = Loaded(d)
    BY LoadedTypes
  <1>3. /\ it.phase = "open" /\ it.acknowledged = Latest /\ it.rev = revision /\ it.pending = d.base
        /\ it.latest = d /\ it.timer = "off" /\ it.flight = NoFlight
        /\ it.shown = IF d = NoDraft THEN Latest ELSE d.design
    BY <1>2 DEF Loaded, NewPage
  <1>4. NoDraft.base = NoBase /\ NoFlight.at = "none" /\ NoFlight.base = NoBase
    BY DEF NoDraft, NoFlight
  <1>5. BasisSound(saved, it)
    BY <1>1, <1>3, <1>4 DEF BasisSound, DraftSound
  <1>6. LatestSound(saved, it)
    BY <1>3, <1>4 DEF LatestSound
  <1>7. FlightSound(saved, it)
    BY <1>3, <1>4 DEF FlightSound
  <1>8. Includes(saved, it.shown, it.pending)
    BY <1>3, <1>4 DEF DraftSound, Includes
  <1>. QED BY <1>2, <1>5, <1>6, <1>7, <1>8 DEF PageSound

(* The drafts that are scheduled are sound, and extend what was shown in   *)
(* the revisions it is based on.                                           *)
LEMMA ScheduledSound ==
  ASSUME saved \in Seq(Design), saved # <<>>, Monotone(saved), stamp \in 0..MaxSchedules,
         NEW it \in PageState, PageSound(saved, it), it.phase = "open",
         NEW d, \/ d = Edited(it)
                \/ d = Retried(it) /\ it.latest # NoDraft /\ it.flight.at = "none"
                \/ d = Reviewed(it) /\ it.latest # NoDraft /\ it.flight.at = "none"
  PROVE  /\ DraftSound(saved, d) /\ d.base # NoBase
         /\ it.flight.at # "none" => it.shown \subseteq d.design
         /\ \A b : Includes(saved, it.shown, b) => Includes(saved, d.design, b)
         /\ it.pending = NoBase => it.acknowledged \subseteq d.design
  <1>0. /\ Len(saved) \in Nat \ {0} /\ revision = Len(saved) /\ Latest = saved[revision]
        /\ \A b \in 1..Len(saved) : saved[b] \subseteq Latest
        /\ NoDraft.base = NoBase /\ NoBase = 0
    BY DEF revision, Latest, Monotone, NoDraft, NoBase
  <1>1. CASE d = Edited(it)
    <2>1. /\ d.design = it.shown \cup {stamp + 1}
          /\ d.base = IF it.pending # NoBase THEN it.pending ELSE it.rev
          /\ d.baseDesign = IF it.latest # NoDraft THEN it.latest.baseDesign ELSE it.acknowledged
      BY <1>1 DEF Edited
    <2>2. d.base # NoBase /\ Includes(saved, d.design, d.base)
      BY <1>0, <2>1 DEF PageSound, BasisSound, Includes
    <2>3. d.baseDesign \subseteq d.design
      BY <2>1 DEF PageSound, LatestSound, BasisSound, DraftSound
    <2>. QED BY <2>1, <2>2, <2>3 DEF DraftSound, Includes, PageSound, BasisSound
  <1>2. CASE d = Retried(it) /\ it.latest # NoDraft /\ it.flight.at = "none"
    <2>0. it.latest \in Draft
      BY DEF PageState
    <2>1. d.design = it.latest.design /\ d.base = it.latest.base /\ d.baseDesign = it.latest.baseDesign
      BY <1>2, <2>0 DEF Retried, Draft
    <2>. QED BY <1>2, <2>1 DEF DraftSound, Includes, PageSound, LatestSound, BasisSound
  <1>3. CASE d = Reviewed(it) /\ it.latest # NoDraft /\ it.flight.at = "none"
    <2>1. /\ d.design = Merged(it.latest.baseDesign, it.latest.design, Latest)
          /\ d.base = revision /\ d.baseDesign = Latest
      BY <1>3 DEF Reviewed
    <2>2. it.latest.baseDesign \subseteq it.latest.design
      BY DEF PageSound, LatestSound, DraftSound
    <2>3. Latest \subseteq d.design
      BY <2>1, <2>2 DEF Merged
    <2>4. DraftSound(saved, d) /\ d.base # NoBase
      BY <1>0, <2>1, <2>3 DEF DraftSound, Includes
    <2>5. \A b : Includes(saved, it.shown, b) => Includes(saved, d.design, b)
      BY <1>0, <2>3 DEF Includes
    <2>6. it.acknowledged \subseteq d.design
      BY <1>0, <2>3 DEF PageSound, BasisSound
    <2>. QED BY <1>3, <2>4, <2>5, <2>6
  <1>. QED BY <1>1, <1>2, <1>3

(* Each change of a page's state keeps it sound. *)
LEMMA ShowingSound ==
  ASSUME saved \in Seq(Design), NEW it \in PageState, PageSound(saved, it), it.phase = "open",
         NEW d \in Draft, DraftSound(saved, d), d.base # NoBase,
         it.flight.at # "none" => it.shown \subseteq d.design,
         \A b : Includes(saved, it.shown, b) => Includes(saved, d.design, b),
         it.pending = NoBase => it.acknowledged \subseteq d.design,
         NEW t \in {"off", "auto", "explicit"}
  PROVE  PageSound(saved, Showing(it, d, t))
  <1>1. PICK x \in PageState : x = Showing(it, d, t)
    <2>1. Showing(it, d, t) \in PageState
      BY DEF Showing, PageState, Draft, Flight
    <2>. QED BY <2>1
  <1>2. /\ x.phase = "open" /\ x.acknowledged = it.acknowledged /\ x.rev = it.rev
        /\ x.pending = it.pending /\ x.latest = d /\ x.timer = t /\ x.shown = d.design
    BY <1>1 DEF Showing, PageState
  <1>3. x.flight = [it.flight EXCEPT !.current = FALSE]
    BY <1>1 DEF Showing, PageState
  <1>4. /\ x.flight.at = it.flight.at /\ x.flight.design = it.flight.design
        /\ x.flight.base = it.flight.base
    BY <1>3 DEF PageState, Flight
  <1>5. x.flight.current = FALSE
    BY <1>3 DEF PageState, Flight
  <1>6. d # NoDraft
    BY DEF NoDraft
  <1>7. BasisSound(saved, x)
    BY <1>2 DEF BasisSound, PageSound
  <1>8. LatestSound(saved, x)
    BY <1>2, <1>6 DEF LatestSound
  <1>9. FlightSound(saved, x)
    <2>1. ~x.flight.current
      BY <1>5
    <2>2. it.flight.at # "none" => it.flight.design \subseteq d.design
      BY DEF FlightSound, PageSound
    <2>. QED BY <1>2, <1>4, <1>6, <2>1, <2>2 DEF FlightSound, PageSound
  <1>10. Includes(saved, x.shown, x.pending)
    BY <1>2 DEF PageSound
  <1>. QED BY <1>1, <1>7, <1>8, <1>9, <1>10 DEF PageSound

LEMMA SentSound ==
  ASSUME saved \in Seq(Design), NEW it \in PageState, PageSound(saved, it),
         it.phase = "open", it.timer # "off"
  PROVE  /\ DraftSound(saved, Sent(it)) /\ Sent(it) # NoDraft /\ Sent(it).base # NoBase
         /\ Sent(it).design = it.shown
  <1>1. /\ it.latest \in Draft /\ it.latest # NoDraft /\ it.latest.design = it.shown
        /\ it.latest.base # NoBase /\ DraftSound(saved, it.latest)
    BY DEF PageSound, LatestSound, DraftSound, PageState
  <1>2. CASE Rebases(it)
    <2>1. PICK d : d = Sent(it)
      OBVIOUS
    <2>2. d.base = it.rev /\ d.baseDesign = it.acknowledged /\ d.design = it.shown
      BY <1>1, <1>2, <2>1 DEF Sent, Draft
    <2>3. it.pending = NoBase
      BY <1>2 DEF Rebases
    <2>4. it.rev \in 1..Len(saved) /\ saved[it.rev] = it.acknowledged /\ it.acknowledged \subseteq it.shown
      BY <2>3 DEF PageSound, BasisSound
    <2>5. d.base # NoBase /\ NoDraft.base = NoBase
      BY <2>2, <2>4 DEF NoBase, NoDraft
    <2>. QED BY <2>1, <2>2, <2>4, <2>5 DEF DraftSound, Includes
  <1>3. CASE ~Rebases(it)
    BY <1>1, <1>3 DEF Sent
  <1>. QED BY <1>2, <1>3

LEMMA SendingSound ==
  ASSUME saved \in Seq(Design), NEW it \in PageState, PageSound(saved, it),
         it.phase = "open", it.timer # "off"
  PROVE  PageSound(saved, Sending(it))
  <1>1. PICK d : d = Sent(it)
    OBVIOUS
  <1>2. DraftSound(saved, d) /\ d # NoDraft /\ d.base # NoBase /\ d.design = it.shown
    BY <1>1, SentSound
  <1>3. PICK x : x = Sending(it)
    OBVIOUS
  <1>4. /\ x.phase = "open" /\ x.acknowledged = it.acknowledged /\ x.rev = it.rev
        /\ x.pending = it.pending /\ x.latest = d /\ x.timer = "off" /\ x.shown = it.shown
        /\ x.flight.at = "sent" /\ x.flight.design = d.design /\ x.flight.base = d.base
    BY <1>1, <1>3 DEF Sending, PageState
  <1>5. BasisSound(saved, x) /\ Includes(saved, x.shown, x.pending)
    BY <1>4 DEF BasisSound, PageSound
  <1>6. LatestSound(saved, x)
    BY <1>2, <1>4 DEF LatestSound
  <1>7. FlightSound(saved, x)
    BY <1>2, <1>4 DEF FlightSound, DraftSound
  <1>. QED BY <1>3, <1>5, <1>6, <1>7 DEF PageSound

LEMMA ServedSound ==
  ASSUME NEW s, NEW it \in PageState, PageSound(s, it), it.flight.at = "sent",
         NEW result \in {"saved", "conflict", "refused"},
         result = "saved" => Accepted(s, it.flight.design, it.flight.base)
  PROVE  PageSound(s, Served(it, result))
  <1>1. PICK x : x = Served(it, result)
    OBVIOUS
  <1>2. /\ x.phase = it.phase /\ x.acknowledged = it.acknowledged /\ x.rev = it.rev
        /\ x.pending = it.pending /\ x.latest = it.latest /\ x.timer = it.timer /\ x.shown = it.shown
    BY <1>1 DEF Served, PageState
  <1>3. x.flight = [it.flight EXCEPT !.at = result]
    BY <1>1 DEF Served, PageState
  <1>4. x.flight.at = result /\ x.flight.design = it.flight.design /\ x.flight.base = it.flight.base
    BY <1>3 DEF PageState, Flight
  <1>5. x.flight.current = it.flight.current
    BY <1>3 DEF PageState, Flight
  <1>6. BasisSound(s, x) /\ Includes(s, x.shown, x.pending) /\ LatestSound(s, x)
    BY <1>2 DEF BasisSound, LatestSound, PageSound
  <1>7. x.flight.current => x.timer = "off"
    <2>1. it.flight.current => it.timer = "off"
      BY DEF PageSound, FlightSound
    <2>. QED BY <1>2, <1>5, <2>1, Zenon
  <1>8. FlightSound(s, x)
    BY <1>2, <1>4, <1>7 DEF FlightSound, PageSound
  <1>. QED BY <1>1, <1>6, <1>8 DEF PageSound

(* After an acknowledged save the page goes on from the saved revision. *)
LEMMA RestSound ==
  ASSUME NEW s, NEW it \in PageState, PageSound(s, it), it.flight.at = "saved"
  PROVE  /\ DraftSound(s, Rest(it))
         /\ Rest(it) # NoDraft => Rest(it).design = it.shown
         /\ ~it.flight.current => Rest(it) # NoDraft
  <1>1. /\ it.latest \in Draft /\ it.latest # NoDraft /\ it.latest.design = it.shown
        /\ DraftSound(s, it.latest)
    BY DEF PageSound, LatestSound, FlightSound, PageState
  <1>2. /\ it.flight.base \in Nat /\ Accepted(s, it.flight.design, it.flight.base)
        /\ it.flight.design \subseteq it.shown
    BY DEF PageSound, FlightSound, PageState, Flight, NoBase, Revision
  <1>3. NoDraft.base = NoBase /\ NoDraft.baseDesign = {} /\ NoDraft.design = {} /\ NoBase = 0
    BY DEF NoDraft, NoBase
  <1>4. CASE it.flight.current
    <2>1. Rest(it) = NoDraft
      BY <1>4, Zenon DEF Rest
    <2>2. DraftSound(s, NoDraft)
      BY <1>3 DEF DraftSound, Includes
    <2>. QED BY <1>4, <2>1, <2>2
  <1>5. CASE ~it.flight.current /\ it.latest.base = it.flight.base
    <2>1. PICK d : d = Rest(it)
      OBVIOUS
    <2>2. d = [it.latest EXCEPT !.base = it.flight.base + 1, !.baseDesign = it.flight.design]
      BY <1>5, <2>1 DEF Rest
    <2>3. d.base = it.flight.base + 1 /\ d.baseDesign = it.flight.design /\ d.design = it.shown
      BY <1>1, <2>2 DEF Draft
    <2>4. d # NoDraft
      BY <1>2, <1>3, <2>3
    <2>5. DraftSound(s, d)
      BY <1>2, <1>3, <2>3 DEF DraftSound, Includes, Accepted
    <2>. QED BY <2>1, <2>3, <2>4, <2>5
  <1>6. CASE ~it.flight.current /\ it.latest.base # it.flight.base
    BY <1>1, <1>6 DEF Rest
  <1>. QED BY <1>4, <1>5, <1>6

LEMMA AcknowledgedSound ==
  ASSUME NEW s, NEW it \in PageState, PageSound(s, it), it.flight.at = "saved"
  PROVE  PageSound(s, Acknowledged(it))
  <1>1. PICK d : d = Rest(it)
    OBVIOUS
  <1>2. /\ DraftSound(s, d) /\ (d # NoDraft => d.design = it.shown)
        /\ it.timer # "off" => d # NoDraft
    <2>1. it.flight.current => it.timer = "off"
      BY DEF PageSound, FlightSound
    <2>. QED BY <1>1, <2>1, RestSound
  <1>3. PICK x : x = Acknowledged(it)
    OBVIOUS
  <1>4. /\ x.phase = it.phase /\ x.acknowledged = it.flight.design /\ x.rev = it.flight.base + 1
        /\ x.pending = NoBase /\ x.latest = d /\ x.timer = it.timer /\ x.shown = it.shown
        /\ x.flight = NoFlight
    BY <1>1, <1>3 DEF Acknowledged, PageState
  <1>5. BasisSound(s, x)
    BY <1>4 DEF BasisSound, PageSound, FlightSound, Accepted
  <1>6. LatestSound(s, x)
    BY <1>2, <1>4 DEF LatestSound, PageSound
  <1>7. FlightSound(s, x)
    BY <1>4 DEF FlightSound, NoFlight
  <1>8. Includes(s, x.shown, x.pending)
    BY <1>4 DEF Includes
  <1>. QED BY <1>3, <1>5, <1>6, <1>7, <1>8 DEF PageSound

(* After a failed one it keeps its draft and its base. *)
LEMMA EndedSound ==
  ASSUME NEW s, NEW it \in PageState, PageSound(s, it), it.flight.at # "none", NEW b \in BOOLEAN
  PROVE  /\ PageSound(s, Ended(it, b))
         /\ DraftSound(s, Kept(it, b))
         /\ PageSound(s, [Ended(it, b) EXCEPT !.latest = Kept(it, b)])
  <1>1. /\ it.latest \in Draft /\ it.latest # NoDraft /\ it.latest.design = it.shown
        /\ DraftSound(s, it.latest) /\ it.latest.base # NoBase
    BY DEF PageSound, LatestSound, FlightSound, PageState, DraftSound
  <1>2. it.flight.base # NoBase /\ Includes(s, it.shown, it.flight.base)
    BY DEF PageSound, FlightSound, Includes
  <1>3. PICK d : d = Kept(it, b)
    OBVIOUS
  <1>4. d.design = it.shown /\ d.base = it.latest.base /\ d.baseDesign = it.latest.baseDesign
    BY <1>1, <1>3 DEF Kept, Draft
  <1>5. DraftSound(s, d) /\ d # NoDraft
    BY <1>1, <1>4 DEF DraftSound, NoDraft
  <1>6. ASSUME NEW x, x = Ended(it, b) \/ x = [Ended(it, b) EXCEPT !.latest = d]
        PROVE  PageSound(s, x)
    <2>1. /\ x.phase = it.phase /\ x.acknowledged = it.acknowledged /\ x.rev = it.rev
          /\ x.pending = it.flight.base /\ x.timer = it.timer /\ x.shown = it.shown
          /\ x.flight = NoFlight /\ (x.latest = it.latest \/ x.latest = d)
      BY <1>6 DEF Ended, PageState
    <2>2. BasisSound(s, x)
      BY <1>2, <2>1 DEF BasisSound, PageSound
    <2>3. LatestSound(s, x)
      BY <1>1, <1>4, <1>5, <2>1 DEF LatestSound, PageSound
    <2>4. FlightSound(s, x)
      BY <2>1 DEF FlightSound, NoFlight
    <2>. QED BY <1>2, <2>1, <2>2, <2>3, <2>4 DEF PageSound
  <1>. QED BY <1>3, <1>5, <1>6

LEMMA UntimedSound ==
  ASSUME NEW s, NEW it \in PageState, PageSound(s, it)
  PROVE  PageSound(s, [it EXCEPT !.timer = "off"])
  <1>1. PICK x : x = [it EXCEPT !.timer = "off"]
    OBVIOUS
  <1>2. /\ x.phase = it.phase /\ x.acknowledged = it.acknowledged /\ x.rev = it.rev
        /\ x.pending = it.pending /\ x.latest = it.latest /\ x.timer = "off" /\ x.shown = it.shown
        /\ x.flight = it.flight
    BY <1>1 DEF PageState
  <1>. QED BY <1>1, <1>2 DEF PageSound, BasisSound, LatestSound, FlightSound

(* A page that is not open, and an absent draft. *)
LEMMA RestingSound ==
  ASSUME NEW s
  PROVE  /\ DraftSound(s, NoDraft)
         /\ PageSound(s, NewPage) /\ PageSound(s, [NewPage EXCEPT !.phase = "closed"])
  <1>1. DraftSound(s, NoDraft)
    BY DEF DraftSound, NoDraft, Includes
  <1>2. ASSUME NEW x, x = NewPage \/ x = [NewPage EXCEPT !.phase = "closed"]
        PROVE  PageSound(s, x)
    <2>1. /\ x.phase # "open" /\ x.pending = NoBase /\ x.latest = NoDraft /\ x.timer = "off"
          /\ x.flight.at = "none" /\ x.flight.base = NoBase
      BY <1>2 DEF NewPage, NoFlight
    <2>. QED BY <1>1, <2>1 DEF PageSound, BasisSound, LatestSound, FlightSound, Includes
  <1>. QED BY <1>1, <1>2

-----------------------------------------------------------------------------
(* The steps of the editor pages.  *)

EditorInv == EditorTypeOK /\ EditorSound

PagesSound(s, pages) ==
  pages \in [Pages -> PageState] /\ \A q \in Pages : PageSound(s, pages[q])

DraftsSound(s, stored) ==
  stored \in [Pages -> Draft] /\ \A q \in Pages : DraftSound(s, stored[q])

WireSound(s, requests) ==
  /\ requests \subseteq Request
  /\ \A request \in requests : request.base # NoBase /\ Includes(s, request.design, request.base)

CacheSound(s, copy) == copy \in Copy /\ Includes(s, copy.design, copy.rev)

(* The invariant, component by component. *)
LEMMA ByParts ==
  /\ EditorInv <=> /\ saved \in Seq(Design) /\ saved # <<>> /\ Monotone(saved)
                   /\ PagesSound(saved, page) /\ DraftsSound(saved, drafts)
                   /\ WireSound(saved, wire) /\ CacheSound(saved, cache)
                   /\ stamp \in 0..MaxSchedules /\ lost \in 0..MaxLost
                   /\ edits \subseteq 1..MaxSchedules /\ discarded \in Design
  /\ EditorInv' <=> /\ saved' \in Seq(Design) /\ saved' # <<>> /\ Monotone(saved')
                    /\ PagesSound(saved', page') /\ DraftsSound(saved', drafts')
                    /\ WireSound(saved', wire') /\ CacheSound(saved', cache')
                    /\ stamp' \in 0..MaxSchedules /\ lost' \in 0..MaxLost
                    /\ edits' \subseteq 1..MaxSchedules /\ discarded' \in Design
  BY DEF EditorInv, EditorTypeOK, EditorSound, PagesSound, DraftsSound, WireSound, CacheSound

(* When the versions grow every component stays sound. *)
LEMMA PartsGrow ==
  ASSUME NEW s \in Seq(Design), s # <<>>, NEW t, Grows(s, t)
  PROVE  /\ \A x : PagesSound(s, x) => PagesSound(t, x)
         /\ \A x : DraftsSound(s, x) => DraftsSound(t, x)
         /\ \A x : WireSound(s, x) => WireSound(t, x)
         /\ \A x : CacheSound(s, x) => CacheSound(t, x)
  BY Growth, SoundGrowth DEF PagesSound, DraftsSound, WireSound, CacheSound

LEMMA OnePage ==
  ASSUME NEW s, NEW pages, PagesSound(s, pages), NEW p \in Pages,
         NEW it \in PageState, PageSound(s, it)
  PROVE  PagesSound(s, [pages EXCEPT ![p] = it])
  BY DEF PagesSound

LEMMA OneDraft ==
  ASSUME NEW s, NEW stored, DraftsSound(s, stored), NEW p \in Pages,
         NEW d \in Draft, DraftSound(s, d)
  PROVE  DraftsSound(s, [stored EXCEPT ![p] = d])
  BY DEF DraftsSound

LEMMA ClearedSound ==
  ASSUME NEW s, DraftsSound(s, drafts), NEW p \in Pages, NEW origin
  PROVE  DraftsSound(s, Cleared(p, origin))
  <1>1. NoDraft \in Draft /\ DraftSound(s, NoDraft)
    BY Constants, RestingSound
  <1>. QED BY <1>1 DEF DraftsSound, Cleared

LEMMA LeftSound ==
  ASSUME NEW s, NEW it \in PageState, PageSound(s, it)
  PROVE  WireSound(s, Left(it.flight))
  <1>1. CASE it.flight.at = "sent"
    <2>1. /\ it.flight.design \in Design /\ it.flight.base \in Revision
          /\ it.flight.base # NoBase /\ Includes(s, it.flight.design, it.flight.base)
      BY <1>1 DEF PageSound, FlightSound, PageState, Flight
    <2>. QED BY <1>1, <2>1 DEF Left, WireSound, Request
  <1>2. CASE it.flight.at # "sent"
    BY <1>2 DEF Left, WireSound
  <1>. QED BY <1>1, <1>2

(* The page that saves is open, and what it saves is a sound copy. *)
LEMMA SavingPage ==
  ASSUME EditorInv, NEW p \in Pages
  PROVE  /\ page[p] \in PageState /\ PageSound(saved, page[p])
         /\ Saving(p) => IsOpen(p)
         /\ page[p].timer # "off" => IsOpen(p)
         /\ Saving(p) => CacheSound(saved, [design |-> page[p].flight.design, rev |-> page[p].flight.base])
         /\ page[p].flight.at = "saved" =>
              CacheSound(saved, [design |-> page[p].flight.design, rev |-> page[p].flight.base + 1])
  <1>1. PICK it \in PageState : it = page[p] /\ PageSound(saved, it)
    BY DEF EditorInv, EditorTypeOK, EditorSound
  <1>2. it.flight \in Flight
    BY DEF PageState
  <1>3. it.flight.at # "none" =>
          /\ it.phase = "open" /\ it.flight.design \in Design /\ it.flight.base \in Revision
          /\ Includes(saved, it.flight.design, it.flight.base)
          /\ it.flight.at = "saved" => Accepted(saved, it.flight.design, it.flight.base)
    BY <1>1, <1>2 DEF PageSound, FlightSound, Flight
  <1>4. it.timer # "off" => it.phase = "open"
    BY <1>1 DEF PageSound, LatestSound
  <1>. QED BY <1>1, <1>3, <1>4 DEF Saving, IsOpen, CacheSound, Copy, Accepted, Includes, Revision, NoBase

LEMMA EditorStart == EditorInit => EditorInv
  <1>. SUFFICES ASSUME EditorInit PROVE EditorInv
    OBVIOUS
  <1>. USE DEF EditorInit
  <1>1. saved \in Seq(Design) /\ saved # <<>> /\ Len(saved) = 1 /\ saved[1] = {}
    BY Designs
  <1>2. Monotone(saved)
    BY <1>1 DEF Monotone
  <1>4. PagesSound(saved, page)
    BY Constants, RestingSound DEF PagesSound
  <1>5. DraftsSound(saved, drafts)
    BY Constants, RestingSound DEF DraftsSound
  <1>6. WireSound(saved, wire)
    BY DEF WireSound
  <1>7. CacheSound(saved, cache)
    BY <1>1, Designs DEF CacheSound, Copy, Includes, Revision
  <1>8. /\ stamp \in 0..MaxSchedules /\ lost \in 0..MaxLost
        /\ edits \subseteq 1..MaxSchedules /\ discarded \in Design
    BY Designs, EditorAssumption
  <1>. QED BY <1>1, <1>2, <1>4, <1>5, <1>6, <1>7, <1>8, ByParts

(* The project is loaded over the newest draft: Open, and Discard when connected. *)
LEMMA LoadingSteps ==
  ASSUME EditorInv, NEW p \in Pages, NEW d \in Draft, DraftSound(saved, d)
  PROVE  /\ PagesSound(saved, [page EXCEPT ![p] = Loaded(d)])
         /\ CacheSound(saved, [design |-> Latest, rev |-> revision])
  <1>1. saved \in Seq(Design) /\ saved # <<>> /\ PagesSound(saved, page)
    BY ByParts
  <1>2. Loaded(d) \in PageState /\ PageSound(saved, Loaded(d))
    BY <1>1, LoadedTypes, LoadedSound
  <1>3. PagesSound(saved, [page EXCEPT ![p] = Loaded(d)])
    BY <1>1, <1>2, OnePage
  <1>4. CacheSound(saved, [design |-> Latest, rev |-> revision])
    BY <1>1 DEF CacheSound, Copy, Latest, revision, Revision, Includes
  <1>. QED BY <1>3, <1>4

LEMMA OpenStep ==
  ASSUME EditorInv, NEW p \in Pages, Open(p)
  PROVE  EditorInv' /\ saved' = saved
  <1>1. PICK q \in Pages : page' = [page EXCEPT ![p] = Loaded(drafts[q])]
    BY DEF Open
  <1>2. drafts[q] \in Draft /\ DraftSound(saved, drafts[q])
    BY ByParts DEF DraftsSound
  <1>3. PagesSound(saved, page') /\ CacheSound(saved, cache')
    BY <1>1, <1>2, LoadingSteps DEF Open
  <1>. QED BY <1>3, ByParts DEF Open

LEMMA DiscardStep ==
  ASSUME EditorInv, Connected, NEW p \in Pages, Discard(p)
  PROVE  EditorInv' /\ saved' = saved
  <1>1. /\ drafts' = Cleared(p, page[p].origin) /\ discarded' = discarded \cup GivenUp(p)
        /\ cache' = [design |-> Latest, rev |-> revision]
        /\ \E q \in Pages : page' = [page EXCEPT ![p] = Loaded(drafts'[q])]
        /\ UNCHANGED <<saved, wire, stamp, lost, edits>>
    BY DEF Discard, Connected
  <1>2. PICK q \in Pages : page' = [page EXCEPT ![p] = Loaded(drafts'[q])]
    BY <1>1
  <1>3. DraftsSound(saved, drafts')
    BY <1>1, ByParts, ClearedSound
  <1>4. PagesSound(saved, page') /\ CacheSound(saved, cache')
    BY <1>1, <1>2, <1>3, LoadingSteps DEF DraftsSound
  <1>5. GivenUp(p) \in Design
    <2>1. page[p].latest.design \in Design
      BY DEF EditorInv, EditorTypeOK, PageState, Draft
    <2>2. \A r \in Pages : drafts[r].design \in Design
      BY DEF EditorInv, EditorTypeOK, Draft
    <2>. QED BY <2>1, <2>2 DEF GivenUp, Design
  <1>6. discarded' \in Design
    BY <1>1, <1>5, ByParts, Designs
  <1>. QED BY <1>1, <1>3, <1>4, <1>6, ByParts

(* An edit, a retry or a reviewed merge schedules a sound draft. *)
LEMMA ScheduledStep ==
  ASSUME EditorInv, NEW p \in Pages, NEW d, NEW t \in {"off", "auto", "explicit"},
         Scheduled(p, d, t), edits' \subseteq 1..MaxSchedules,
         \/ d = Edited(page[p])
         \/ d = Retried(page[p]) /\ page[p].latest # NoDraft /\ ~Saving(p)
         \/ d = Reviewed(page[p]) /\ page[p].latest # NoDraft /\ ~Saving(p)
  PROVE  EditorInv' /\ saved' = saved
  <1>0. /\ saved \in Seq(Design) /\ saved # <<>> /\ Monotone(saved) /\ stamp \in 0..MaxSchedules
        /\ stamp < MaxSchedules /\ stamp' = stamp + 1
        /\ UNCHANGED <<saved, wire, cache, lost, discarded>>
    BY ByParts DEF Scheduled
  <1>1. PICK it \in PageState : it = page[p] /\ PageSound(saved, it) /\ it.phase = "open"
    BY SavingPage DEF Scheduled
  <1>2. /\ d \in Draft
        /\ DraftSound(saved, d) /\ d.base # NoBase
        /\ it.flight.at # "none" => it.shown \subseteq d.design
        /\ \A b : Includes(saved, it.shown, b) => Includes(saved, d.design, b)
        /\ it.pending = NoBase => it.acknowledged \subseteq d.design
    BY <1>0, <1>1, DraftMoves, ScheduledSound DEF Saving
  <1>3. Showing(it, d, t) \in PageState /\ PageSound(saved, Showing(it, d, t))
    BY <1>0, <1>1, <1>2, PageMoves, ShowingSound
  <1>4. page' = [page EXCEPT ![p] = Showing(it, d, t)] /\ drafts' = [drafts EXCEPT ![p] = d]
    BY <1>1 DEF Scheduled
  <1>5. PagesSound(saved, page') /\ DraftsSound(saved, drafts')
    BY <1>2, <1>3, <1>4, ByParts, OnePage, OneDraft
  <1>6. stamp' \in 0..MaxSchedules
    BY <1>0, EditorAssumption
  <1>. QED BY <1>0, <1>5, <1>6, ByParts

LEMMA EditingSteps ==
  ASSUME EditorInv, NEW p \in Pages, Edit(p) \/ Retry(p) \/ Merge(p)
  PROVE  EditorInv' /\ saved' = saved
  <1>0. edits \subseteq 1..MaxSchedules /\ stamp \in 0..MaxSchedules
    BY ByParts
  <1>1. CASE Edit(p)
    <2>1. PICK t : t = IF page[p].blocked THEN "off" ELSE "auto"
      OBVIOUS
    <2>2. t \in {"off", "auto", "explicit"}
      BY <2>1, Zenon
    <2>3. Scheduled(p, Edited(page[p]), t) /\ edits' = edits \cup {stamp + 1} /\ stamp < MaxSchedules
      BY <1>1, <2>1 DEF Edit, Scheduled
    <2>4. edits' \subseteq 1..MaxSchedules
      BY <1>0, <2>3, EditorAssumption
    <2>. QED BY <2>2, <2>3, <2>4, ScheduledStep
  <1>2. CASE Retry(p)
    BY <1>0, <1>2, ScheduledStep DEF Retry
  <1>3. CASE Merge(p)
    BY <1>0, <1>3, ScheduledStep DEF Merge
  <1>. QED BY <1>1, <1>2, <1>3

LEMMA AttemptStep ==
  ASSUME EditorInv, NEW p \in Pages, Attempt(p)
  PROVE  EditorInv' /\ saved' = saved
  <1>0. /\ saved \in Seq(Design) /\ saved # <<>> /\ stamp \in 0..MaxSchedules
        /\ PagesSound(saved, page) /\ DraftsSound(saved, drafts)
        /\ UNCHANGED <<saved, wire, stamp, cache, lost, edits, discarded>>
    BY ByParts DEF Attempt
  <1>1. PICK it \in PageState : it = page[p] /\ PageSound(saved, it)
    BY SavingPage
  <1>2. it.timer # "off" /\ it.phase = "open"
    BY <1>1, SavingPage DEF Attempt, IsOpen
  <1>3. \/ page' = [page EXCEPT ![p] = [it EXCEPT !.timer = "off"]] /\ drafts' = drafts
        \/ /\ page' = [page EXCEPT ![p] = Sending(it)]
           /\ drafts' = drafts \/ drafts' = [drafts EXCEPT ![p] = Sent(it)]
    BY <1>1 DEF Attempt
  <1>4. /\ [it EXCEPT !.timer = "off"] \in PageState /\ PageSound(saved, [it EXCEPT !.timer = "off"])
        /\ Sending(it) \in PageState /\ PageSound(saved, Sending(it))
        /\ Sent(it) \in Draft /\ DraftSound(saved, Sent(it))
    BY <1>0, <1>1, <1>2, PageMoves, UntimedSound, SendingSound, SentSound
  <1>5. PagesSound(saved, page')
    BY <1>0, <1>3, <1>4, OnePage
  <1>6. DraftsSound(saved, drafts')
    BY <1>0, <1>3, <1>4, OneDraft
  <1>. QED BY <1>0, <1>5, <1>6, ByParts

LEMMA ServeStep ==
  ASSUME EditorInv, NEW p \in Pages, Serve(p)
  PROVE  EditorInv' /\ Grows(saved, saved')
  <1>0. /\ saved \in Seq(Design) /\ saved # <<>> /\ stamp \in 0..MaxSchedules
        /\ UNCHANGED <<wire, stamp, drafts, cache, lost, edits, discarded>>
    BY ByParts DEF Serve
  <1>1. PICK it \in PageState : it = page[p] /\ PageSound(saved, it)
    BY SavingPage
  <1>2. it.flight.at = "sent"
    BY <1>1 DEF Serve
  <1>3. PICK result : /\ Patched(it.flight.base, it.flight.design, result)
                      /\ page' = [page EXCEPT ![p] = Served(it, result)]
    BY <1>1 DEF Serve
  <1>4. /\ it.flight.design \in Design
        /\ it.flight.base # NoBase /\ Includes(saved, it.flight.design, it.flight.base)
    BY <1>2, <1>1 DEF PageSound, FlightSound, PageState, Flight
  <1>5. /\ Grows(saved, saved') /\ result \in {"saved", "conflict", "refused"}
        /\ result = "saved" => Accepted(saved', it.flight.design, it.flight.base)
    BY <1>0, <1>3, <1>4, PatchedGrows
  <1>6. saved' \in Seq(Design) /\ saved' # <<>> /\ Monotone(saved')
    BY <1>0, <1>5, Growth, ByParts
  <1>7. /\ PagesSound(saved', page) /\ DraftsSound(saved', drafts)
        /\ WireSound(saved', wire) /\ CacheSound(saved', cache)
    BY <1>0, <1>5, ByParts, PartsGrow
  <1>8. Served(it, result) \in PageState
    BY <1>0, <1>5, PageMoves
  <1>9. PageSound(saved', it)
    BY <1>0, <1>1, <1>5, SoundGrowth
  <1>10. PageSound(saved', Served(it, result))
    BY <1>2, <1>5, <1>9, ServedSound
  <1>11. PagesSound(saved', page')
    BY <1>3, <1>7, <1>8, <1>10, OnePage
  <1>. QED BY <1>0, <1>5, <1>6, <1>7, <1>11, ByParts

LEMMA AcknowledgeStep ==
  ASSUME EditorInv, NEW p \in Pages, Acknowledge(p)
  PROVE  EditorInv' /\ saved' = saved
  <1>0. /\ saved \in Seq(Design) /\ saved # <<>> /\ stamp \in 0..MaxSchedules
        /\ PagesSound(saved, page) /\ DraftsSound(saved, drafts)
        /\ UNCHANGED <<saved, wire, stamp, lost, edits, discarded>>
    BY ByParts DEF Acknowledge
  <1>1. PICK it \in PageState : it = page[p] /\ PageSound(saved, it)
    BY SavingPage
  <1>2. it.flight.at = "saved"
    BY <1>1 DEF Acknowledge
  <1>3. /\ page' = [page EXCEPT ![p] = Acknowledged(it)]
        /\ drafts' = Cleared(p, it.origin) \/ drafts' = [drafts EXCEPT ![p] = Rest(it)]
        /\ cache' = [design |-> it.flight.design, rev |-> it.flight.base + 1]
    BY <1>1 DEF Acknowledge
  <1>4. /\ Acknowledged(it) \in PageState /\ PageSound(saved, Acknowledged(it))
        /\ Rest(it) \in Draft /\ DraftSound(saved, Rest(it))
    BY <1>0, <1>1, <1>2, PageMoves, AcknowledgedSound, RestSound
  <1>5. PagesSound(saved, page')
    BY <1>0, <1>3, <1>4, OnePage
  <1>6. DraftsSound(saved, drafts')
    BY <1>0, <1>3, <1>4, OneDraft, ClearedSound
  <1>7. CacheSound(saved, cache')
    BY <1>1, <1>2, <1>3, SavingPage
  <1>. QED BY <1>0, <1>5, <1>6, <1>7, ByParts

LEMMA FailedStep ==
  ASSUME EditorInv, NEW p \in Pages, Saving(p), NEW b \in BOOLEAN, Failed(p, b)
  PROVE  PagesSound(saved, page') /\ DraftsSound(saved, drafts')
  <1>0. /\ saved \in Seq(Design) /\ saved # <<>> /\ stamp \in 0..MaxSchedules
        /\ PagesSound(saved, page) /\ DraftsSound(saved, drafts)
    BY ByParts
  <1>1. PICK it \in PageState : it = page[p] /\ PageSound(saved, it)
    BY SavingPage
  <1>2. /\ page' = [page EXCEPT ![p] = [Ended(it, b) EXCEPT !.latest = Kept(it, b)]]
        /\ drafts' = [drafts EXCEPT ![p] = Kept(it, b)]
    BY <1>1 DEF Failed
  <1>3. /\ [Ended(it, b) EXCEPT !.latest = Kept(it, b)] \in PageState /\ Kept(it, b) \in Draft
        /\ PageSound(saved, [Ended(it, b) EXCEPT !.latest = Kept(it, b)])
        /\ DraftSound(saved, Kept(it, b))
    BY <1>0, <1>1, PageMoves, EndedSound DEF Saving
  <1>. QED BY <1>0, <1>2, <1>3, OnePage, OneDraft

LEMMA EndingSteps ==
  ASSUME EditorInv, NEW p \in Pages, Refuse(p) \/ TimeOut(p)
  PROVE  EditorInv' /\ saved' = saved
  <1>1. CASE Refuse(p)
    <2>1. Saving(p)
      BY <1>1 DEF Refuse, Saving
    <2>2. PagesSound(saved, page') /\ DraftsSound(saved, drafts')
      BY <1>1, <2>1, FailedStep DEF Refuse
    <2>. QED BY <1>1, <2>2, ByParts DEF Refuse
  <1>2. CASE TimeOut(p)
    <2>1. PagesSound(saved, page') /\ DraftsSound(saved, drafts')
      BY <1>2, FailedStep DEF TimeOut
    <2>2. WireSound(saved, Left(page[p].flight))
      BY SavingPage, LeftSound
    <2>3. WireSound(saved, wire')
      BY <1>2, <2>2, ByParts DEF TimeOut, WireSound
    <2>4. lost' \in 0..MaxLost
      BY <1>2, ByParts, EditorAssumption DEF TimeOut
    <2>. QED BY <1>2, <2>1, <2>3, <2>4, ByParts DEF TimeOut
  <1>. QED BY <1>1, <1>2

LEMMA DisconnectStep ==
  ASSUME EditorInv, NEW p \in Pages, Disconnect(p)
  PROVE  /\ EditorInv' /\ saved' = saved
         /\ page[p].flight.design \in Design /\ page[p].flight.base \in Revision
         /\ Includes(saved, page[p].flight.design, page[p].flight.base)
  <1>0. /\ saved \in Seq(Design) /\ saved # <<>> /\ stamp \in 0..MaxSchedules
        /\ PagesSound(saved, page)
    BY ByParts
  <1>1. PICK it \in PageState : it = page[p] /\ PageSound(saved, it)
    BY SavingPage
  <1>2. /\ page' = [page EXCEPT ![p] = Ended(it, FALSE)] /\ it.flight.at # "none"
        /\ wire' = wire \cup Left(it.flight) /\ lost < MaxLost /\ lost' = lost + 1
        /\ cache' = [design |-> it.flight.design, rev |-> it.flight.base]
        /\ UNCHANGED <<saved, stamp, drafts, edits, discarded>>
    BY <1>1 DEF Disconnect, Saving
  <1>3. Ended(it, FALSE) \in PageState /\ PageSound(saved, Ended(it, FALSE))
    BY <1>0, <1>1, <1>2, PageMoves, EndedSound
  <1>4. PagesSound(saved, page')
    BY <1>0, <1>2, <1>3, OnePage
  <1>5. WireSound(saved, wire')
    BY <1>1, <1>2, LeftSound, ByParts DEF WireSound
  <1>6. CacheSound(saved, cache')
    BY <1>1, <1>2, SavingPage DEF Saving
  <1>7. lost' \in 0..MaxLost
    BY <1>2, ByParts, EditorAssumption
  <1>8. EditorInv'
    BY <1>2, <1>4, <1>5, <1>6, <1>7, ByParts
  <1>. QED BY <1>1, <1>2, <1>6, <1>8 DEF CacheSound, Copy

LEMMA CloseStep ==
  ASSUME EditorInv, NEW p \in Pages, NEW requests, WireSound(saved, requests), Close(p, requests)
  PROVE  EditorInv' /\ saved' = saved
  <1>0. PagesSound(saved, page) /\ WireSound(saved, wire) /\ WireSound(saved, Left(page[p].flight))
    BY ByParts, SavingPage, LeftSound
  <1>1. [NewPage EXCEPT !.phase = "closed"] \in PageState
    BY Constants DEF PageState
  <1>2. PagesSound(saved, page')
    BY <1>0, <1>1, RestingSound, OnePage DEF Close
  <1>3. WireSound(saved, wire')
    BY <1>0 DEF WireSound, Close
  <1>. QED BY <1>2, <1>3, ByParts DEF Close

(* Saves by others, and requests nobody waits for any more. *)
LEMMA ForeignStep ==
  ASSUME EditorInv, ForeignSave
  PROVE  EditorInv' /\ Grows(saved, saved')
  <1>0. saved \in Seq(Design) /\ saved # <<>>
    BY ByParts
  <1>1. Latest \in Design /\ Latest = saved[Len(saved)]
    BY <1>0 DEF Latest, revision
  <1>2. PICK k : k = Cardinality(Foreign) + 1
    OBVIOUS
  <1>3. Foreign \subseteq 1..MaxForeign /\ IsFiniteSet(Foreign)
    <2>1. Foreign \subseteq 1..MaxForeign
      BY DEF Foreign
    <2>2. IsFiniteSet(1..MaxForeign)
      BY EditorAssumption, FS_Interval
    <2>. QED BY <2>1, <2>2, FS_Subset
  <1>4. Cardinality(Foreign) \in Nat
    BY <1>3, FS_CardinalityType
  <1>5. k \in 1..MaxForeign
    BY <1>2, <1>4, EditorAssumption DEF ForeignSave
  <1>6. Latest \cup {-k} \in Design
    BY <1>1, <1>5, Designs
  <1>7. saved' = Append(saved, Latest \cup {-k}) /\ UNCHANGED <<wire, stamp, drafts, cache, page, lost, edits, discarded>>
    BY <1>2 DEF ForeignSave
  <1>8. Grows(saved, saved')
    BY <1>1, <1>6, <1>7 DEF Grows
  <1>9. saved' \in Seq(Design) /\ saved' # <<>> /\ Monotone(saved')
    BY <1>0, <1>8, Growth, ByParts
  <1>. QED BY <1>0, <1>7, <1>8, <1>9, PartsGrow, ByParts

LEMMA ArrivesStep ==
  ASSUME EditorInv, NEW request, Arrives(request)
  PROVE  EditorInv' /\ Grows(saved, saved')
  <1>0. /\ saved \in Seq(Design) /\ saved # <<>>
        /\ UNCHANGED <<stamp, drafts, cache, page, lost, edits, discarded>>
    BY ByParts DEF Arrives
  <1>1. /\ request.design \in Design /\ request.base # NoBase
        /\ Includes(saved, request.design, request.base)
    BY ByParts DEF Arrives, WireSound, Request
  <1>2. PICK result : Patched(request.base, request.design, result)
    BY DEF Arrives
  <1>3. Grows(saved, saved')
    BY <1>0, <1>1, <1>2, PatchedGrows
  <1>4. saved' \in Seq(Design) /\ saved' # <<>> /\ Monotone(saved')
    BY <1>0, <1>3, Growth, ByParts
  <1>5. WireSound(saved, wire')
    BY ByParts DEF Arrives, WireSound
  <1>. QED BY <1>0, <1>3, <1>4, <1>5, PartsGrow, ByParts

-----------------------------------------------------------------------------
(* The steps of the queue.  *)

ItemsKept(s, items) ==
  items \in Seq(Item) /\ \A i \in 1..Len(items) : ItemSound(s, items[i])

EnqueuesKept(s, items, enqueues) ==
  /\ enqueues \in [Pages -> Enqueue]
  /\ \A q \in Pages : enqueues[q].left \subseteq 1..Len(items) /\ EnqueueSound(s, enqueues[q])

ManagerTyped(items, m) ==
  m.todo \subseteq 1..Len(items) /\ (m.at \notin {"idle", "mark"} => m.item \in 1..Len(items))

ManagersKept(s, items, managers) ==
  /\ managers \in [Pages -> Manager]
  /\ \A q \in Pages : ManagerTyped(items, managers[q]) /\ ManagerSound(s, items, managers[q])

LEMMA InvByParts ==
  /\ Inv <=> /\ EditorInv /\ ItemsKept(saved, queue)
             /\ EnqueuesKept(saved, queue, enqueue) /\ ManagersKept(saved, queue, sync)
  /\ Inv' <=> /\ EditorInv' /\ ItemsKept(saved', queue')
              /\ EnqueuesKept(saved', queue', enqueue') /\ ManagersKept(saved', queue', sync')
  BY DEF Inv, TypeOK, EditorInv, QueueSound, ItemsKept, EnqueuesKept, ManagersKept, ManagerTyped, Ids

(* An item keeps its design and base; items are only added. *)
Extends(items, more) ==
  /\ Len(items) =< Len(more)
  /\ \A i \in 1..Len(items) : more[i].design = items[i].design /\ more[i].base = items[i].base

LEMMA QueueGrowth ==
  ASSUME NEW s \in Seq(Design), s # <<>>, NEW t, Grows(s, t),
         NEW items \in Seq(Item), NEW more \in Seq(Item), Extends(items, more)
  PROVE  /\ \A x : EnqueuesKept(s, items, x) => EnqueuesKept(t, more, x)
         /\ \A x : ManagersKept(s, items, x) => ManagersKept(t, more, x)
         /\ ItemsKept(s, items) => ItemsKept(t, items)
  <1>0. Len(items) \in Nat /\ Len(more) \in Nat /\ 1..Len(items) \subseteq 1..Len(more)
    BY DEF Extends
  <1>1. ASSUME NEW x, EnqueuesKept(s, items, x) PROVE EnqueuesKept(t, more, x)
    <2>1. \A q \in Pages : EnqueueSound(t, x[q])
      BY <1>1, Growth DEF EnqueuesKept, EnqueueSound
    <2>. QED BY <1>0, <1>1, <2>1 DEF EnqueuesKept
  <1>2. ASSUME NEW x, ManagersKept(s, items, x) PROVE ManagersKept(t, more, x)
    <2>. SUFFICES ASSUME NEW q \in Pages
                  PROVE  ManagerTyped(more, x[q]) /\ ManagerSound(t, more, x[q])
      BY <1>2 DEF ManagersKept
    <2>1. ManagerTyped(items, x[q]) /\ ManagerSound(s, items, x[q])
      BY <1>2 DEF ManagersKept
    <2>2. ManagerTyped(more, x[q])
      BY <1>0, <2>1 DEF ManagerTyped
    <2>3. ManagerSound(t, more, x[q])
      BY <2>1, Growth DEF ManagerTyped, ManagerSound, Extends
    <2>. QED BY <2>2, <2>3
  <1>3. ItemsKept(s, items) => ItemsKept(t, items)
    BY SoundGrowth DEF ItemsKept
  <1>. QED BY <1>1, <1>2, <1>3

LEMMA SameVersions == ASSUME NEW s PROVE Grows(s, s)
  BY DEF Grows

(* A step of a page or of the server that leaves the queue alone. *)
LEMMA QueueUntouched ==
  ASSUME Inv, EditorInv', Grows(saved, saved'), UNCHANGED <<queue, enqueue, sync>>
  PROVE  Inv'
  <1>1. saved \in Seq(Design) /\ saved # <<>> /\ queue \in Seq(Item) /\ Extends(queue, queue)
    BY InvByParts, ByParts DEF ItemsKept, Extends
  <1>. QED BY <1>1, QueueGrowth, InvByParts

LEMMA StatusSet ==
  ASSUME Inv, NEW i \in Ids, NEW status \in Status, SetStatus(i, status)
  PROVE  /\ queue' \in Seq(Item) /\ Extends(queue, queue') /\ Len(queue') = Len(queue)
         /\ \A k \in Ids : queue'[k].status \in {queue[k].status, status}
         /\ \A k \in Ids : k # i => queue'[k] = queue[k]
  <1>1. queue \in Seq(Item) /\ \A k \in 1..Len(queue) : queue[k] \in Item
    BY DEF Inv, TypeOK
  <1>2. CASE queue' = queue
    BY <1>1, <1>2 DEF Extends, Ids
  <1>3. CASE queue' = [queue EXCEPT ![i].status = status]
    <2>1. PICK item : item = [queue[i] EXCEPT !.status = status]
      OBVIOUS
    <2>2. /\ item \in Item /\ item.design = queue[i].design /\ item.base = queue[i].base
          /\ item.status = status
      BY <1>1, <2>1 DEF Item, Ids
    <2>3. queue' = [queue EXCEPT ![i] = item]
      BY <1>3, <2>1
    <2>4. /\ queue' \in Seq(Item) /\ Len(queue') = Len(queue) /\ queue'[i] = item
          /\ \A k \in 1..Len(queue) : k # i => queue'[k] = queue[k]
      BY <1>1, <2>2, <2>3 DEF Ids
    <2>. QED BY <1>1, <2>2, <2>4 DEF Extends, Ids
  <1>. QED BY <1>2, <1>3 DEF SetStatus

LEMMA StatusKept ==
  ASSUME Inv, NEW i \in Ids, NEW status \in Status, SetStatus(i, status),
         status = "completed" => Accepted(saved, queue[i].design, queue[i].base)
  PROVE  /\ ItemsKept(saved, queue') /\ Extends(queue, queue') /\ Len(queue') = Len(queue)
         /\ EnqueuesKept(saved, queue', enqueue) /\ ManagersKept(saved, queue', sync)
  <1>0. /\ saved \in Seq(Design) /\ saved # <<>> /\ queue \in Seq(Item)
        /\ ItemsKept(saved, queue)
    BY InvByParts, ByParts DEF ItemsKept
  <1>1. /\ queue' \in Seq(Item) /\ Extends(queue, queue') /\ Len(queue') = Len(queue)
        /\ \A k \in Ids : queue'[k].status \in {queue[k].status, status}
        /\ \A k \in Ids : k # i => queue'[k] = queue[k]
    BY StatusSet
  <1>2. ASSUME NEW k \in Ids PROVE ItemSound(saved, queue'[k])
    <2>1. /\ ItemSound(saved, queue[k])
          /\ queue'[k].design = queue[k].design /\ queue'[k].base = queue[k].base
      BY <1>0, <1>1 DEF ItemsKept, Extends, Ids
    <2>2. CASE k # i
      BY <1>1, <2>1, <2>2
    <2>3. CASE k = i
      BY <1>1, <2>1, <2>3 DEF ItemSound
    <2>. QED BY <2>2, <2>3
  <1>3. ItemsKept(saved, queue')
    BY <1>1, <1>2 DEF ItemsKept, Ids
  <1>4. EnqueuesKept(saved, queue', enqueue) /\ ManagersKept(saved, queue', sync)
    BY <1>0, <1>1, SameVersions, QueueGrowth, InvByParts
  <1>. QED BY <1>1, <1>3, <1>4

LEMMA OneEnqueue ==
  ASSUME NEW s, NEW items, NEW enqueues, EnqueuesKept(s, items, enqueues), NEW p \in Pages,
         NEW e \in Enqueue, e.left \subseteq 1..Len(items), EnqueueSound(s, e)
  PROVE  EnqueuesKept(s, items, [enqueues EXCEPT ![p] = e])
  BY DEF EnqueuesKept

LEMMA OneManager ==
  ASSUME NEW s, NEW items, NEW managers, ManagersKept(s, items, managers), NEW p \in Pages,
         NEW m \in Manager, ManagerTyped(items, m), ManagerSound(s, items, m)
  PROVE  ManagersKept(s, items, [managers EXCEPT ![p] = m])
  BY DEF ManagersKept

LEMMA RestingKept ==
  ASSUME NEW s, NEW items
  PROVE  /\ Resting \in Manager /\ ManagerTyped(items, Resting) /\ ManagerSound(s, items, Resting)
         /\ NotNow \in Enqueue /\ NotNow.left = {} /\ EnqueueSound(s, NotNow)
  <1>1. Resting \in Manager /\ ManagerTyped(items, Resting) /\ ManagerSound(s, items, Resting)
    BY DEF Resting, Manager, ManagerTyped, ManagerSound
  <1>2. NotNow \in Enqueue /\ NotNow.left = {} /\ EnqueueSound(s, NotNow)
    BY Designs DEF NotNow, Enqueue, EnqueueSound
  <1>. QED BY <1>1, <1>2

(* The manager in the middle of an item. *)
LEMMA WorkingManager ==
  ASSUME Inv, NEW p \in Pages, sync[p].at \notin {"idle", "mark"}
  PROVE  /\ Current(p) \in Ids /\ queue[Current(p)].design \in Design
         /\ queue[Current(p)].base \in Revision
         /\ Includes(saved, queue[Current(p)].design, queue[Current(p)].base)
  <1>1. Current(p) \in Ids
    BY DEF Inv, TypeOK, Current
  <1>2. queue[Current(p)] \in Item
    BY <1>1 DEF Inv, TypeOK, Ids
  <1>3. Includes(saved, queue[Current(p)].design, queue[Current(p)].base)
    BY <1>1 DEF Inv, QueueSound, ItemSound
  <1>. QED BY <1>1, <1>2, <1>3 DEF Item

LEMMA Advanced ==
  ASSUME Inv, NEW p \in Pages, NEW items, NEW s, ManagersKept(s, items, sync), Advance(p)
  PROVE  ManagersKept(s, items, sync')
  <1>1. PICK m \in Manager : m = sync[p] /\ ManagerTyped(items, m)
    BY DEF ManagersKept
  <1>2. PICK x : x = [m EXCEPT !.at = "mark", !.item = 0]
    OBVIOUS
  <1>3. x \in Manager /\ x.at = "mark" /\ x.todo = m.todo
    BY <1>1, <1>2 DEF Manager
  <1>4. ManagerTyped(items, x) /\ ManagerSound(s, items, x)
    BY <1>1, <1>3 DEF ManagerTyped, ManagerSound
  <1>5. sync' = [sync EXCEPT ![p] = Resting] \/ sync' = [sync EXCEPT ![p] = x]
    BY <1>1, <1>2 DEF Advance
  <1>. QED BY <1>3, <1>4, <1>5, OneManager, RestingKept

LEMMA Gone ==
  ASSUME Inv, NEW p \in Pages, NEW s, NEW items, ManagersKept(s, items, sync),
         sync[p].at \notin {"idle", "mark"},
         NEW at \in {"check", "send", "saved", "cached", "conflict", "refused"}, Goes(p, at),
         at \in {"saved", "cached"} => Accepted(s, items[Current(p)].design, items[Current(p)].base)
  PROVE  ManagersKept(s, items, sync')
  <1>1. PICK m \in Manager : m = sync[p] /\ ManagerTyped(items, m)
    BY DEF ManagersKept
  <1>2. PICK x : x = [m EXCEPT !.at = at]
    OBVIOUS
  <1>3. x \in Manager /\ x.at = at /\ x.todo = m.todo /\ x.item = m.item
    BY <1>1, <1>2 DEF Manager
  <1>4. ManagerTyped(items, x)
    BY <1>1, <1>3 DEF ManagerTyped
  <1>5. ManagerSound(s, items, x)
    BY <1>1, <1>3 DEF ManagerSound, Current
  <1>6. sync' = [sync EXCEPT ![p] = x]
    BY <1>1, <1>2 DEF Goes
  <1>. QED BY <1>3, <1>4, <1>5, <1>6, OneManager

LEMMA StartStep ==
  ASSUME Inv, NEW p \in Pages, StartSync(p)
  PROVE  Inv'
  <1>1. PICK m : m = [at |-> "mark", item |-> 0, todo |-> {i \in Ids : Pending(i)}]
    OBVIOUS
  <1>2. m \in Manager /\ ManagerTyped(queue, m) /\ ManagerSound(saved, queue, m)
    BY <1>1 DEF Manager, ManagerTyped, ManagerSound, Ids
  <1>3. ManagersKept(saved, queue, sync')
    BY <1>1, <1>2, InvByParts, OneManager DEF StartSync
  <1>4. EditorInv'
    BY InvByParts, ByParts DEF StartSync, editorVars
  <1>. QED BY <1>3, <1>4, InvByParts DEF StartSync, editorVars

LEMMA MarkStep ==
  ASSUME Inv, NEW p \in Pages, MarkSyncing(p)
  PROVE  Inv'
  <1>0. UNCHANGED <<editorVars, enqueue>>
    BY DEF MarkSyncing
  <1>1. PICK i \in sync[p].todo :
          /\ SetStatus(i, "syncing")
          /\ sync' = [sync EXCEPT ![p] = [at |-> "check", item |-> i, todo |-> sync[p].todo \ {i}]]
    BY DEF MarkSyncing
  <1>2. i \in Ids /\ sync[p].todo \subseteq 1..Len(queue) /\ Ids = 1..Len(queue)
    BY <1>1 DEF Inv, TypeOK, Ids
  <1>3. /\ ItemsKept(saved, queue') /\ Len(queue') = Len(queue)
        /\ EnqueuesKept(saved, queue', enqueue) /\ ManagersKept(saved, queue', sync)
    BY <1>1, <1>2, StatusKept DEF Status
  <1>4. PICK m : m = [at |-> "check", item |-> i, todo |-> sync[p].todo \ {i}]
    OBVIOUS
  <1>5. m \in Manager /\ ManagerTyped(queue', m) /\ ManagerSound(saved, queue', m)
    BY <1>2, <1>3, <1>4 DEF Manager, ManagerTyped, ManagerSound
  <1>6. ManagersKept(saved, queue', sync')
    BY <1>1, <1>3, <1>4, <1>5, OneManager
  <1>7. EditorInv' /\ saved' = saved /\ enqueue' = enqueue
    BY <1>0, InvByParts, ByParts DEF editorVars
  <1>. QED BY <1>3, <1>6, <1>7, InvByParts

LEMMA CheckStep ==
  ASSUME Inv, NEW p \in Pages, Check(p)
  PROVE  Inv'
  <1>0. /\ EditorInv' /\ saved' = saved /\ enqueue' = enqueue
        /\ sync[p].at \notin {"idle", "mark"}
    BY InvByParts, ByParts DEF Check, editorVars
  <1>1. Current(p) \in Ids
    BY <1>0, WorkingManager
  <1>2. CASE Goes(p, "send") /\ queue' = queue
    BY <1>0, <1>2, Gone, InvByParts
  <1>3. ASSUME NEW status \in {"conflicted", "failed"}, SetStatus(Current(p), status), Advance(p)
        PROVE  Inv'
    <2>1. /\ ItemsKept(saved, queue') /\ EnqueuesKept(saved, queue', enqueue)
          /\ ManagersKept(saved, queue', sync)
      BY <1>1, <1>3, StatusKept DEF Status
    <2>2. ManagersKept(saved, queue', sync')
      BY <1>3, <2>1, Advanced
    <2>. QED BY <1>0, <2>1, <2>2, InvByParts
  <1>. QED BY <1>2, <1>3 DEF Check

LEMMA SendStep ==
  ASSUME Inv, NEW p \in Pages, Send(p)
  PROVE  Inv' /\ Grows(saved, saved')
  <1>0. /\ sync[p].at \notin {"idle", "mark"}
        /\ UNCHANGED <<wire, stamp, drafts, cache, page, lost, edits, discarded, queue, enqueue>>
        /\ saved \in Seq(Design) /\ saved # <<>> /\ queue \in Seq(Item)
    BY InvByParts, ByParts DEF Send, ItemsKept
  <1>1. PICK item : item = queue[Current(p)]
    OBVIOUS
  <1>2. item.design \in Design /\ item.base # NoBase /\ Includes(saved, item.design, item.base)
    BY <1>0, <1>1, WorkingManager DEF Revision, NoBase
  <1>3. PICK result : Patched(item.base, item.design, result) /\ Goes(p, result)
    BY <1>1 DEF Send
  <1>4. /\ Grows(saved, saved') /\ result \in {"saved", "conflict", "refused"}
        /\ result = "saved" => Accepted(saved', item.design, item.base)
    BY <1>0, <1>2, <1>3, PatchedGrows
  <1>5. saved' \in Seq(Design) /\ saved' # <<>> /\ Monotone(saved')
    BY <1>0, <1>4, Growth, InvByParts, ByParts
  <1>6. /\ PagesSound(saved', page) /\ DraftsSound(saved', drafts)
        /\ WireSound(saved', wire) /\ CacheSound(saved', cache)
    BY <1>0, <1>4, InvByParts, ByParts, PartsGrow
  <1>7. EditorInv'
    BY <1>0, <1>5, <1>6, InvByParts, ByParts
  <1>8. Extends(queue, queue)
    BY <1>0 DEF Extends
  <1>9. /\ ItemsKept(saved', queue) /\ EnqueuesKept(saved', queue, enqueue)
        /\ ManagersKept(saved', queue, sync)
    BY <1>0, <1>4, <1>8, QueueGrowth, InvByParts
  <1>10. ManagersKept(saved', queue, sync')
    BY <1>0, <1>1, <1>3, <1>4, <1>9, Gone
  <1>. QED BY <1>0, <1>4, <1>7, <1>9, <1>10, InvByParts

LEMMA CacheStep ==
  ASSUME Inv, NEW p \in Pages, CacheSaved(p)
  PROVE  Inv'
  <1>0. /\ sync[p].at = "saved" /\ Goes(p, "cached")
        /\ cache' = [design |-> queue[Current(p)].design, rev |-> queue[Current(p)].base + 1]
        /\ UNCHANGED <<saved, wire, stamp, drafts, page, lost, edits, discarded, queue, enqueue>>
    BY DEF CacheSaved
  <1>1. PICK item : item = queue[Current(p)]
    OBVIOUS
  <1>2. item.design \in Design /\ item.base \in Revision
    BY <1>0, <1>1, WorkingManager
  <1>3. Accepted(saved, item.design, item.base)
    BY <1>0, <1>1 DEF Inv, QueueSound, ManagerSound, Current
  <1>4. CacheSound(saved, cache')
    BY <1>0, <1>1, <1>2, <1>3 DEF CacheSound, Copy, Accepted, Includes, Revision
  <1>5. EditorInv'
    BY <1>0, <1>4, InvByParts, ByParts
  <1>6. ManagersKept(saved, queue, sync')
    BY <1>0, <1>1, <1>3, Gone, InvByParts
  <1>. QED BY <1>0, <1>5, <1>6, InvByParts

LEMMA SettleStep ==
  ASSUME Inv, NEW p \in Pages, Settle(p)
  PROVE  Inv'
  <1>0. /\ EditorInv' /\ saved' = saved /\ enqueue' = enqueue /\ Advance(p)
        /\ sync[p].at \in {"cached", "conflict", "refused"}
    BY InvByParts, ByParts DEF Settle, editorVars, Outcome
  <1>1. Current(p) \in Ids
    BY <1>0, WorkingManager
  <1>2. PICK status \in {"completed", "conflicted", "failed"} :
          /\ SetStatus(Current(p), status)
          /\ status = "completed" => sync[p].at = "cached"
    BY <1>0 DEF Settle, Outcome
  <1>3. status = "completed" => Accepted(saved, queue[Current(p)].design, queue[Current(p)].base)
    BY <1>2 DEF Inv, QueueSound, ManagerSound, Current
  <1>4. /\ ItemsKept(saved, queue') /\ EnqueuesKept(saved, queue', enqueue)
        /\ ManagersKept(saved, queue', sync)
    BY <1>1, <1>2, <1>3, StatusKept DEF Status
  <1>5. ManagersKept(saved, queue', sync')
    BY <1>0, <1>4, Advanced
  <1>. QED BY <1>0, <1>4, <1>5, InvByParts

LEMMA UnansweredSound ==
  ASSUME Inv, NEW p \in Pages
  PROVE  WireSound(saved, Unanswered(p))
  <1>1. CASE sync[p].at = "send"
    <2>1. PICK item : item = queue[Current(p)]
      OBVIOUS
    <2>2. /\ item.design \in Design /\ item.base \in Revision
          /\ Includes(saved, item.design, item.base)
      BY <1>1, <2>1, WorkingManager
    <2>. QED BY <1>1, <2>1, <2>2 DEF Unanswered, WireSound, Request, Revision, NoBase
  <1>2. CASE sync[p].at # "send"
    BY <1>2 DEF Unanswered, WireSound
  <1>. QED BY <1>1, <1>2

LEMMA SyncFailsStep ==
  ASSUME Inv, NEW p \in Pages, SyncFails(p)
  PROVE  Inv'
  <1>0. /\ sync[p].at \notin {"idle", "mark"}
        /\ lost < MaxLost /\ lost' = lost + 1 /\ wire' = wire \cup Unanswered(p)
        /\ SetStatus(Current(p), "queued") /\ sync' = [sync EXCEPT ![p] = Resting]
        /\ UNCHANGED <<saved, stamp, drafts, cache, page, edits, discarded, enqueue>>
    BY DEF SyncFails
  <1>1. Current(p) \in Ids
    BY <1>0, WorkingManager
  <1>2. /\ ItemsKept(saved, queue') /\ EnqueuesKept(saved, queue', enqueue)
        /\ ManagersKept(saved, queue', sync)
    BY <1>0, <1>1, StatusKept DEF Status
  <1>3. ManagersKept(saved, queue', sync')
    BY <1>0, <1>2, OneManager, RestingKept
  <1>4. WireSound(saved, wire')
    BY <1>0, UnansweredSound, InvByParts, ByParts DEF WireSound
  <1>5. lost' \in 0..MaxLost
    BY <1>0, InvByParts, ByParts, EditorAssumption
  <1>6. EditorInv'
    BY <1>0, <1>4, <1>5, InvByParts, ByParts
  <1>. QED BY <1>0, <1>2, <1>3, <1>6, InvByParts

LEMMA OfflineStep ==
  ASSUME Inv, NEW p \in Pages, GoOffline(p)
  PROVE  Inv'
  <1>1. PICK e : e = [at |-> "list", design |-> page[p].flight.design,
                      base |-> page[p].flight.base, left |-> {}]
    OBVIOUS
  <1>2. /\ enqueue' = [enqueue EXCEPT ![p] = e] /\ queue' = queue /\ sync' = sync
        /\ Disconnect(p)
    BY <1>1 DEF GoOffline
  <1>3. /\ EditorInv' /\ saved' = saved /\ e.design \in Design /\ e.base \in Revision
        /\ Includes(saved, e.design, e.base)
    BY <1>1, <1>2, DisconnectStep, InvByParts
  <1>4. e \in Enqueue /\ e.left = {} /\ EnqueueSound(saved, e)
    BY <1>1, <1>3 DEF Enqueue, EnqueueSound, Revision, NoBase
  <1>5. EnqueuesKept(saved, queue, enqueue')
    BY <1>2, <1>4, InvByParts, OneEnqueue
  <1>. QED BY <1>2, <1>3, <1>5, InvByParts

LEMMA ListStep ==
  ASSUME Inv, NEW p \in Pages, ListOlder(p)
  PROVE  Inv'
  <1>0. EditorInv' /\ saved' = saved /\ queue' = queue /\ sync' = sync
    BY InvByParts, ByParts DEF ListOlder, editorVars
  <1>1. PICK old \in Enqueue : old = enqueue[p] /\ EnqueueSound(saved, old) /\ old.at = "list"
    BY DEF Inv, TypeOK, QueueSound, ListOlder
  <1>2. PICK e : e = [old EXCEPT !.at = "supersede", !.left = {i \in Ids : queue[i].status = "queued"}]
    OBVIOUS
  <1>3. /\ e.at = "supersede" /\ e.design = old.design /\ e.base = old.base
        /\ e.left = {i \in Ids : queue[i].status = "queued"}
        /\ e = [at |-> "supersede", design |-> old.design, base |-> old.base, left |-> e.left]
    BY <1>1, <1>2 DEF Enqueue
  <1>4. e.left \subseteq 1..Len(queue) /\ e.left \subseteq Nat
    BY <1>3 DEF Ids
  <1>5. e \in Enqueue
    BY <1>1, <1>3, <1>4 DEF Enqueue
  <1>6. EnqueueSound(saved, e)
    BY <1>1, <1>3 DEF EnqueueSound
  <1>7. enqueue' = [enqueue EXCEPT ![p] = e]
    BY <1>1, <1>2 DEF ListOlder, Inv, TypeOK
  <1>. QED BY <1>0, <1>4, <1>5, <1>6, <1>7, InvByParts, OneEnqueue

LEMMA SupersedeStep ==
  ASSUME Inv, NEW p \in Pages, Supersede(p)
  PROVE  Inv'
  <1>0. EditorInv' /\ saved' = saved /\ sync' = sync
    BY InvByParts, ByParts DEF Supersede, editorVars
  <1>1. PICK old \in Enqueue : old = enqueue[p] /\ EnqueueSound(saved, old) /\ old.left \subseteq Ids
    BY DEF Inv, TypeOK, QueueSound
  <1>2. PICK i \in old.left :
          /\ SetStatus(i, "superseded")
          /\ enqueue' = [enqueue EXCEPT ![p].left = old.left \ {i}]
    BY <1>1 DEF Supersede
  <1>3. /\ ItemsKept(saved, queue') /\ Len(queue') = Len(queue)
        /\ EnqueuesKept(saved, queue', enqueue) /\ ManagersKept(saved, queue', sync)
    BY <1>1, <1>2, StatusKept DEF Status
  <1>4. PICK e : e = [old EXCEPT !.left = old.left \ {i}]
    OBVIOUS
  <1>5. e \in Enqueue /\ e.left \subseteq 1..Len(queue') /\ EnqueueSound(saved, e)
    BY <1>1, <1>3, <1>4 DEF Enqueue, EnqueueSound, Ids
  <1>6. enqueue' = [enqueue EXCEPT ![p] = e]
    BY <1>1, <1>2, <1>4 DEF Inv, TypeOK
  <1>. QED BY <1>0, <1>3, <1>5, <1>6, InvByParts, OneEnqueue

LEMMA PutStep ==
  ASSUME Inv, NEW p \in Pages, Put(p)
  PROVE  Inv'
  <1>0. /\ EditorInv' /\ saved' = saved /\ sync' = sync
        /\ saved \in Seq(Design) /\ saved # <<>> /\ queue \in Seq(Item)
    BY InvByParts, ByParts DEF Put, editorVars, ItemsKept
  <1>1. PICK e \in Enqueue : e = enqueue[p] /\ EnqueueSound(saved, e) /\ e.at = "supersede"
    BY DEF Inv, TypeOK, QueueSound, Put
  <1>2. e.design \in Design /\ e.base \in Revision /\ Includes(saved, e.design, e.base)
    BY <1>1 DEF Enqueue, EnqueueSound
  <1>3. PICK item : item = [design |-> e.design, base |-> e.base, status |-> "queued"]
    OBVIOUS
  <1>4. item \in Item /\ ItemSound(saved, item)
    BY <1>2, <1>3 DEF Item, Status, ItemSound
  <1>5. queue' = Append(queue, item) /\ enqueue' = [enqueue EXCEPT ![p] = NotNow]
    BY <1>1, <1>3 DEF Put
  <1>6. queue' \in Seq(Item) /\ Extends(queue, queue')
    BY <1>0, <1>4, <1>5 DEF Extends
  <1>7. ItemsKept(saved, queue')
    BY <1>0, <1>4, <1>5, <1>6, InvByParts DEF ItemsKept
  <1>8. EnqueuesKept(saved, queue', enqueue) /\ ManagersKept(saved, queue', sync)
    BY <1>0, <1>6, SameVersions, QueueGrowth, InvByParts
  <1>9. EnqueuesKept(saved, queue', enqueue')
    BY <1>5, <1>8, OneEnqueue, RestingKept
  <1>. QED BY <1>0, <1>7, <1>8, <1>9, InvByParts

LEMMA DismissStep ==
  ASSUME Inv, NEW i \in Ids, Dismiss(i)
  PROVE  Inv'
  <1>0. EditorInv' /\ saved' = saved /\ enqueue' = enqueue /\ sync' = sync
    BY InvByParts, ByParts DEF Dismiss, editorVars
  <1>1. SetStatus(i, "dismissed")
    BY DEF Dismiss, SetStatus
  <1>. QED BY <1>0, <1>1, StatusKept, InvByParts DEF Status

LEMMA ClosePageStep ==
  ASSUME Inv, NEW p \in Pages, ClosePage(p)
  PROVE  Inv'
  <1>0. /\ Close(p, Unanswered(p)) /\ queue' = queue
        /\ enqueue' = [enqueue EXCEPT ![p] = NotNow] /\ sync' = [sync EXCEPT ![p] = Resting]
    BY DEF ClosePage
  <1>1. EditorInv' /\ saved' = saved
    BY <1>0, InvByParts, CloseStep, UnansweredSound
  <1>2. EnqueuesKept(saved, queue, enqueue') /\ ManagersKept(saved, queue, sync')
    BY <1>0, InvByParts, OneEnqueue, OneManager, RestingKept
  <1>. QED BY <1>0, <1>1, <1>2, InvByParts

-----------------------------------------------------------------------------
(* The invariant holds in every reachable state.  *)

LEMMA InvStart == Init => Inv
  <1>. SUFFICES ASSUME Init PROVE Inv
    OBVIOUS
  <1>1. EditorInv
    BY EditorStart DEF Init
  <1>2. ItemsKept(saved, queue)
    BY DEF Init, ItemsKept
  <1>3. EnqueuesKept(saved, queue, enqueue) /\ ManagersKept(saved, queue, sync)
    BY RestingKept DEF Init, EnqueuesKept, ManagersKept
  <1>. QED BY <1>1, <1>2, <1>3, InvByParts

LEMMA EditsStep ==
  ASSUME Connected, Inv, NEW p \in Pages, Edits(p)
  PROVE  Inv'
  <1>0. EditorInv /\ UNCHANGED <<queue, enqueue, sync>> /\ EditorStep(p)
    BY InvByParts DEF Edits
  <1>1. ~OpenOffline(p)
    BY DEF OpenOffline, Connected
  <1>2. EditorInv' /\ Grows(saved, saved')
    BY <1>0, <1>1, OpenStep, DiscardStep, EditingSteps, AttemptStep, ServeStep, AcknowledgeStep,
       EndingSteps, SameVersions DEF EditorStep
  <1>. QED BY <1>0, <1>2, QueueUntouched

LEMMA InvStep == Connected /\ Inv /\ [Next]_vars => Inv'
  <1>. SUFFICES ASSUME Connected, Inv, [Next]_vars PROVE Inv'
    OBVIOUS
  <1>1. ASSUME NEW p \in Pages, Edits(p) PROVE Inv'
    BY <1>1, EditsStep
  <1>2. ASSUME NEW p \in Pages, GoOffline(p) \/ EnqueueStep(p) PROVE Inv'
    BY <1>2, OfflineStep, ListStep, SupersedeStep, PutStep DEF EnqueueStep
  <1>3. ASSUME NEW p \in Pages, StartSync(p) \/ SyncStep(p) \/ SyncFails(p) PROVE Inv'
    BY <1>3, StartStep, MarkStep, CheckStep, SendStep, CacheStep, SettleStep, SyncFailsStep DEF SyncStep
  <1>4. ASSUME NEW p \in Pages, ClosePage(p) PROVE Inv'
    BY <1>4, ClosePageStep
  <1>5. ASSUME NEW i \in Ids, Dismiss(i) PROVE Inv'
    BY <1>5, DismissStep
  <1>6. CASE Others
    BY <1>6, ForeignStep, ArrivesStep, QueueUntouched, InvByParts DEF Others
  <1>7. CASE UNCHANGED vars
    BY <1>7, InvByParts, ByParts DEF vars, editorVars
  <1>. QED BY <1>1, <1>2, <1>3, <1>4, <1>5, <1>6, <1>7 DEF Next

LEMMA Invariance == ASSUME Connected PROVE Spec => []Inv
  <1>1. Inv /\ [Next]_vars => Inv'
    BY InvStep
  <1>. QED BY <1>1, InvStart, PTL DEF Spec

(* The types, for any number of pages, with or without browser locks: the  *)
(* queue's revisions and the offline copy's exist, and a manager works on  *)
(* items that do.                                                          *)
THEOREM OfflineTypeCorrect == ASSUME Connected PROVE Spec => []TypeOK
  <1>1. Inv => TypeOK
    BY DEF Inv
  <1>. QED BY <1>1, Invariance, PTL

(* Editor.tsx scheduleSave, offlineSyncManager.ts syncProjectSave: as long  *)
(* as every page was loaded from the server, no autosave, recovered draft,  *)
(* merge or queued save removes what an earlier save put there, whatever    *)
(* answers are lost and requests arrive late.                               *)
THEOREM NoOverwrite == ASSUME Connected PROVE Spec => []NoSilentOverwrite
  <1>1. Inv => NoSilentOverwrite
    <2>. SUFFICES ASSUME Inv, NEW r \in 2..revision PROVE saved[r - 1] \subseteq saved[r]
      BY DEF NoSilentOverwrite
    <2>1. Monotone(saved) /\ saved \in Seq(Design)
      BY InvByParts, ByParts
    <2>2. r \in 1..Len(saved) /\ r - 1 \in 1..Len(saved) /\ r - 1 =< r
      BY <2>1 DEF revision
    <2>. QED BY <2>1, <2>2 DEF Monotone
  <1>. QED BY <1>1, Invariance, PTL

(* Every base revision that may still be sent exists, and its design is    *)
(* included in what would be saved over it (offlineQueue.ts                *)
(* enqueueProjectSave, offlineDraft.ts, offlineProjectStore.ts).           *)
THEOREM BasesCorrect == ASSUME Connected PROVE Spec => []BasesIncluded
  <1>1. Inv => BasesIncluded
    <2>. SUFFICES ASSUME Inv PROVE BasesIncluded
      OBVIOUS
    <2>0. /\ saved \in Seq(Design) /\ EditorInv /\ revision = Len(saved)
          /\ \A d, b : Includes(saved, d, b) => (b # NoBase => b =< revision /\ saved[b] \subseteq d)
      BY InvByParts, ByParts DEF revision, Includes
    <2>1. ASSUME NEW p \in Pages
          PROVE  /\ Includes(saved, drafts[p].design, drafts[p].base)
                 /\ Includes(saved, page[p].shown, page[p].pending)
      BY DEF Inv, EditorSound, DraftSound, PageSound
    <2>2. ASSUME NEW p \in Pages
          PROVE  Includes(saved, page[p].flight.design, page[p].flight.base)
      BY DEF Inv, EditorSound, PageSound, FlightSound, Includes
    <2>3. \A i \in Ids : Includes(saved, queue[i].design, queue[i].base)
      BY DEF Inv, QueueSound, ItemSound
    <2>4. /\ \A request \in wire : Includes(saved, request.design, request.base)
          /\ Includes(saved, cache.design, cache.rev)
      BY DEF Inv, EditorSound
    <2>. QED BY <2>0, <2>1, <2>2, <2>3, <2>4 DEF BasesIncluded
  <1>. QED BY <1>1, Invariance, PTL

(* offlineSyncManager.ts processItem: a queued save is called completed     *)
(* only when the server holds exactly its design after its base revision.   *)
THEOREM CompletedCorrect == ASSUME Connected PROVE Spec => []CompletedWasSaved
  <1>1. Inv => CompletedWasSaved
    <2>. SUFFICES ASSUME Inv, NEW i \in Ids, queue[i].status = "completed"
                  PROVE  revision > queue[i].base /\ saved[queue[i].base + 1] = queue[i].design
      BY DEF CompletedWasSaved
    <2>1. queue[i] \in Item
      BY DEF Inv, TypeOK, Ids
    <2>2. Accepted(saved, queue[i].design, queue[i].base) /\ queue[i].base \in Nat
      BY <2>1 DEF Inv, QueueSound, ItemSound, Item, Revision
    <2>3. Len(saved) \in Nat
      BY InvByParts, ByParts
    <2>. QED BY <2>2, <2>3 DEF Accepted, revision
  <1>. QED BY <1>1, Invariance, PTL

-----------------------------------------------------------------------------
(***************************************************************************)
(* No change is forgotten.  A stamp names one design, whichever page's      *)
(* draft or memory has it (D); a page shows at least the draft it was       *)
(* recovered from and its own; and what a draft was derived from is on the  *)
(* server, so a merge keeps the local changes.                             *)
(***************************************************************************)
DraftKept(D, n, top, d) ==
  /\ d.stamp =< n /\ (d.stamp # 0 => d.design = D[d.stamp])
  /\ d.baseDesign \subseteq top

PageKept(D, n, top, it) ==
  /\ DraftKept(D, n, top, it.latest)
  /\ it.origin =< n /\ (it.origin # 0 => D[it.origin] \subseteq it.shown)
  /\ it.flight.current => it.flight.design = it.shown

OwnKept(it, d) ==
  /\ it.phase = "new" => d.design = {}
  /\ it.phase = "open" => d.design \subseteq it.shown

AllKept(D, n, top, pages, stored) ==
  \A p \in Pages : /\ DraftKept(D, n, top, stored[p]) /\ PageKept(D, n, top, pages[p])
                   /\ OwnKept(pages[p], stored[p])

Named     == [1..MaxSchedules -> Design]
KeptInv   == \E D \in Named : AllKept(D, stamp, Latest, page, drafts)
Held(top, stored) == top \cup UNION {stored[p].design : p \in Pages}

LEMMA HeldMore ==
  ASSUME NEW top, NEW more, NEW stored, NEW others, NEW gone, top \subseteq more,
         \A p \in Pages : stored[p].design \subseteq more \cup others[p].design \cup gone
  PROVE  Held(top, stored) \subseteq Held(more, others) \cup gone
  BY DEF Held

LEMMA OneKept ==
  ASSUME NEW D, NEW n, NEW top, NEW pages \in [Pages -> PageState], NEW stored \in [Pages -> Draft],
         AllKept(D, n, top, pages, stored), NEW p \in Pages, NEW it, NEW d,
         DraftKept(D, n, top, d), PageKept(D, n, top, it), OwnKept(it, d)
  PROVE  AllKept(D, n, top, [pages EXCEPT ![p] = it], [stored EXCEPT ![p] = d])
  BY DEF AllKept

LEMMA PageOnly ==
  ASSUME NEW D, NEW n, NEW top, NEW pages \in [Pages -> PageState], NEW stored \in [Pages -> Draft],
         AllKept(D, n, top, pages, stored), NEW p \in Pages, NEW it,
         PageKept(D, n, top, it), OwnKept(it, stored[p])
  PROVE  AllKept(D, n, top, [pages EXCEPT ![p] = it], stored)
  BY DEF AllKept

LEMMA MoreKept ==
  ASSUME NEW D, NEW n, NEW top, NEW more, NEW pages, NEW stored,
         AllKept(D, n, top, pages, stored), top \subseteq more
  PROVE  AllKept(D, n, more, pages, stored)
  BY DEF AllKept, DraftKept, PageKept

LEMMA NoDraftKept ==
  ASSUME NEW D, NEW n \in Nat, NEW top
  PROVE  DraftKept(D, n, top, NoDraft) /\ NoDraft.design = {}
  BY DEF DraftKept, NoDraft

LEMMA ClearedKept ==
  ASSUME NEW D, NEW n \in Nat, NEW top, NEW pages,
         AllKept(D, n, top, pages, drafts), NEW p \in Pages, NEW origin
  PROVE  AllKept(D, n, top, pages, Cleared(p, origin))
  <1>1. ASSUME NEW q \in Pages
        PROVE  Cleared(p, origin)[q] = drafts[q] \/ Cleared(p, origin)[q] = NoDraft
    BY DEF Cleared
  <1>. QED BY <1>1, NoDraftKept DEF AllKept, OwnKept

(* What a page may be after a step. *)
LEMMA LoadedKept ==
  ASSUME NEW D, NEW n \in Nat, NEW d \in Draft, DraftKept(D, n, Latest, d),
         saved \in Seq(Design), saved # <<>>, NEW e, e.design = {}
  PROVE  PageKept(D, n, Latest, Loaded(d)) /\ OwnKept(Loaded(d), e)
  <1>1. PICK it \in PageState : it = Loaded(d)
    BY LoadedTypes
  <1>2. /\ it.phase = "open" /\ it.latest = d /\ it.flight = NoFlight /\ it.origin = d.stamp
        /\ it.shown = IF d = NoDraft THEN Latest ELSE d.design
    BY <1>1 DEF Loaded, NewPage
  <1>3. NoFlight.current = FALSE /\ NoDraft.stamp = 0
    BY DEF NoFlight, NoDraft
  <1>4. d.stamp # 0 => D[d.stamp] \subseteq it.shown
    BY <1>2, <1>3 DEF DraftKept
  <1>. QED BY <1>1, <1>2, <1>3, <1>4 DEF PageKept, OwnKept, DraftKept

LEMMA ShowingKept ==
  ASSUME NEW D, NEW n, NEW top, NEW it \in PageState, PageKept(D, n, top, it), it.phase = "open",
         NEW d, DraftKept(D, n, top, d), it.shown \subseteq d.design,
         NEW t
  PROVE  PageKept(D, n, top, Showing(it, d, t)) /\ OwnKept(Showing(it, d, t), d)
  <1>1. PICK x : x = Showing(it, d, t)
    OBVIOUS
  <1>2. /\ x.phase = "open" /\ x.latest = d /\ x.shown = d.design /\ x.origin = it.origin
        /\ x.flight = [it.flight EXCEPT !.current = FALSE]
    BY <1>1 DEF Showing, PageState
  <1>3. x.flight.current = FALSE
    BY <1>2 DEF PageState, Flight
  <1>4. it.origin # 0 => D[it.origin] \subseteq d.design
    BY DEF PageKept
  <1>5. PageKept(D, n, top, x)
    BY <1>2, <1>3, <1>4 DEF PageKept
  <1>6. OwnKept(x, d)
    BY <1>2 DEF OwnKept
  <1>. QED BY <1>1, <1>5, <1>6

LEMMA SendingKept ==
  ASSUME NEW D, NEW n, saved \in Seq(Design), NEW it \in PageState, PageSound(saved, it),
         it.phase = "open", it.timer # "off", it.acknowledged \subseteq Latest,
         PageKept(D, n, Latest, it)
  PROVE  /\ DraftKept(D, n, Latest, Sent(it)) /\ Sent(it).design = it.shown
         /\ PageKept(D, n, Latest, Sending(it))
         /\ \A e : OwnKept(it, e) => OwnKept(Sending(it), e)
         /\ OwnKept(Sending(it), Sent(it))
  <1>1. PICK d : d = Sent(it)
    OBVIOUS
  <1>2. d.design = it.shown
    BY <1>1, SentSound
  <1>3. d.stamp = it.latest.stamp /\ it.latest.design = it.shown
    <2>1. it.latest \in Draft /\ it.latest.design = it.shown
      BY DEF PageSound, LatestSound, PageState
    <2>. QED BY <1>1, <2>1 DEF Sent, Draft
  <1>4. d.baseDesign = it.acknowledged \/ d.baseDesign = it.latest.baseDesign
    <2>1. it.latest \in Draft
      BY DEF PageState
    <2>. QED BY <1>1, <2>1 DEF Sent, Draft
  <1>5. DraftKept(D, n, Latest, d)
    BY <1>2, <1>3, <1>4 DEF PageKept, DraftKept
  <1>6. PICK x : x = Sending(it)
    OBVIOUS
  <1>7. /\ x.phase = "open" /\ x.latest = d /\ x.shown = it.shown /\ x.origin = it.origin
        /\ x.flight.design = d.design
    BY <1>1, <1>6 DEF Sending, PageState
  <1>8. PageKept(D, n, Latest, x)
    BY <1>2, <1>5, <1>7 DEF PageKept
  <1>. QED BY <1>1, <1>2, <1>5, <1>6, <1>7, <1>8 DEF OwnKept

LEMMA ServedKept ==
  ASSUME NEW D, NEW n, NEW top, NEW it \in PageState, PageKept(D, n, top, it), NEW result
  PROVE  PageKept(D, n, top, Served(it, result)) /\ \A e : OwnKept(it, e) => OwnKept(Served(it, result), e)
  <1>1. PICK x : x = Served(it, result)
    OBVIOUS
  <1>2. /\ x.phase = it.phase /\ x.latest = it.latest /\ x.shown = it.shown /\ x.origin = it.origin
        /\ x.flight = [it.flight EXCEPT !.at = result]
    BY <1>1 DEF Served, PageState
  <1>3. x.flight.design = it.flight.design
    BY <1>2 DEF PageState, Flight
  <1>4. x.flight.current = it.flight.current
    BY <1>2 DEF PageState, Flight
  <1>5. x.flight.current => x.flight.design = x.shown
    <2>1. it.flight.current => it.flight.design = it.shown
      BY DEF PageKept
    <2>. QED BY <1>2, <1>3, <1>4, <2>1, Zenon
  <1>. QED BY <1>1, <1>2, <1>5 DEF PageKept, OwnKept

LEMMA AcknowledgedKept ==
  ASSUME NEW D, NEW n \in Nat, NEW top, NEW it \in PageState, PageSound(saved, it),
         it.flight.at = "saved", it.flight.design \subseteq top, PageKept(D, n, top, it)
  PROVE  /\ DraftKept(D, n, top, Rest(it)) /\ PageKept(D, n, top, Acknowledged(it))
         /\ \A e : OwnKept(it, e) => OwnKept(Acknowledged(it), e)
         /\ OwnKept(Acknowledged(it), Rest(it))
         /\ ~it.flight.current => Rest(it).design = it.shown
  <1>1. PICK d : d = Rest(it)
    OBVIOUS
  <1>2. d = NoDraft \/ (d.stamp = it.latest.stamp /\ d.design = it.latest.design
                          /\ d.baseDesign \in {it.latest.baseDesign, it.flight.design})
    <2>1. it.latest \in Draft
      BY DEF PageState
    <2>. QED BY <1>1, <2>1 DEF Rest, Draft
  <1>3. DraftKept(D, n, top, d)
    BY <1>2, NoDraftKept DEF PageKept, DraftKept
  <1>4. (d # NoDraft => d.design = it.shown) /\ (~it.flight.current => d.design = it.shown)
    BY <1>1, RestSound
  <1>5. PICK x : x = Acknowledged(it)
    OBVIOUS
  <1>6. /\ x.phase = it.phase /\ x.latest = d /\ x.shown = it.shown
        /\ x.origin \in {0, it.origin} /\ x.flight = NoFlight
    BY <1>1, <1>5 DEF Acknowledged, PageState
  <1>7. PageKept(D, n, top, x)
    BY <1>3, <1>6 DEF PageKept, NoFlight
  <1>8. it.phase = "open"
    BY DEF PageSound, FlightSound
  <1>9. NoDraft.design = {}
    BY DEF NoDraft
  <1>. QED BY <1>1, <1>3, <1>4, <1>5, <1>6, <1>7, <1>8, <1>9 DEF OwnKept

LEMMA EndedKept ==
  ASSUME NEW D, NEW n, NEW top, NEW it \in PageState, PageSound(saved, it),
         it.flight.at # "none", PageKept(D, n, top, it), NEW b \in BOOLEAN
  PROVE  /\ PageKept(D, n, top, Ended(it, b)) /\ \A e : OwnKept(it, e) => OwnKept(Ended(it, b), e)
         /\ PageKept(D, n, top, [Ended(it, b) EXCEPT !.latest = Kept(it, b)])
         /\ OwnKept([Ended(it, b) EXCEPT !.latest = Kept(it, b)], Kept(it, b))
         /\ DraftKept(D, n, top, Kept(it, b)) /\ Kept(it, b).design = it.shown
  <1>1. it.latest \in Draft /\ it.latest.design = it.shown /\ it.phase = "open"
    BY DEF PageSound, LatestSound, FlightSound, PageState
  <1>2. PICK d : d = Kept(it, b)
    OBVIOUS
  <1>3. d.design = it.shown /\ d.stamp = it.latest.stamp /\ d.baseDesign = it.latest.baseDesign
    BY <1>1, <1>2 DEF Kept, Draft
  <1>4. DraftKept(D, n, top, d)
    BY <1>1, <1>3 DEF PageKept, DraftKept
  <1>5. ASSUME NEW x, x = Ended(it, b) \/ x = [Ended(it, b) EXCEPT !.latest = d]
        PROVE  /\ x.phase = it.phase /\ x.shown = it.shown /\ PageKept(D, n, top, x)
    <2>1. /\ x.phase = it.phase /\ x.shown = it.shown /\ x.origin = it.origin
          /\ x.flight = NoFlight /\ (x.latest = it.latest \/ x.latest = d)
      BY <1>5 DEF Ended, PageState
    <2>. QED BY <1>4, <2>1 DEF PageKept, NoFlight
  <1>6. PICK x : x = Ended(it, b)
    OBVIOUS
  <1>7. PICK y : y = [Ended(it, b) EXCEPT !.latest = d]
    OBVIOUS
  <1>. QED BY <1>1, <1>2, <1>3, <1>4, <1>5, <1>6, <1>7 DEF OwnKept

LEMMA ClosedKept ==
  ASSUME NEW D, NEW n \in Nat, NEW top, NEW e
  PROVE  /\ PageKept(D, n, top, [NewPage EXCEPT !.phase = "closed"])
         /\ OwnKept([NewPage EXCEPT !.phase = "closed"], e)
  <1>1. PICK x : x = [NewPage EXCEPT !.phase = "closed"]
    OBVIOUS
  <1>2. x.phase = "closed" /\ x.latest = NoDraft /\ x.origin = 0 /\ x.flight = NoFlight
    BY <1>1 DEF NewPage
  <1>. QED BY <1>1, <1>2, NoDraftKept DEF PageKept, OwnKept, NoFlight

(* The step from one state to the next. *)
Remembers == NothingForgotten /\ KeptInv

LEMMA KeptParts ==
  ASSUME EditorInv, Remembers
  PROVE  /\ saved \in Seq(Design) /\ saved # <<>> /\ stamp \in Nat /\ stamp \in 0..MaxSchedules
         /\ page \in [Pages -> PageState] /\ drafts \in [Pages -> Draft]
         /\ \E D \in Named : AllKept(D, stamp, Latest, page, drafts)
  BY ByParts, EditorAssumption DEF PagesSound, DraftsSound, Remembers, KeptInv

(* What the server holds stays; what a page has read or saved is there. *)
LEMMA LatestGrows ==
  ASSUME NEW s \in Seq(Design), s # <<>>, NEW t, Grows(s, t)
  PROVE  s[Len(s)] \subseteq t[Len(t)]
  <1>1. CASE t = s
    BY <1>1
  <1>2. CASE \E d \in Design : t = Append(s, d) /\ s[Len(s)] \subseteq d
    <2>1. PICK d \in Design : t = Append(s, d) /\ s[Len(s)] \subseteq d
      BY <1>2
    <2>2. Len(t) = Len(s) + 1 /\ t[Len(s) + 1] = d
      BY <2>1
    <2>. QED BY <2>1, <2>2
  <1>. QED BY <1>1, <1>2 DEF Grows

LEMMA KnownPast ==
  ASSUME EditorInv, NEW p \in Pages
  PROVE  /\ IsOpen(p) => page[p].acknowledged \subseteq Latest
         /\ page[p].flight.at = "saved" => IsOpen(p) /\ page[p].flight.design \subseteq Latest
  <1>1. saved \in Seq(Design) /\ saved # <<>> /\ Monotone(saved) /\ PageSound(saved, page[p])
    BY ByParts DEF PagesSound
  <1>2. \A r \in 1..Len(saved) : saved[r] \subseteq Latest
    BY <1>1 DEF Monotone, Latest, revision
  <1>3. IsOpen(p) => page[p].acknowledged \subseteq Latest
    BY <1>1, <1>2 DEF PageSound, BasisSound, IsOpen
  <1>4. page[p].flight.at = "saved" =>
          /\ page[p].phase = "open"
          /\ Accepted(saved, page[p].flight.design, page[p].flight.base)
    BY <1>1 DEF PageSound, FlightSound
  <1>5. page[p].flight.at = "saved" => page[p].flight.design \subseteq Latest
    BY <1>2, <1>4 DEF Accepted
  <1>. QED BY <1>3, <1>4, <1>5 DEF IsOpen

LEMMA Concluded ==
  ASSUME NothingForgotten, NEW gone, Held(Latest, drafts) \subseteq Held(Latest', drafts') \cup gone,
         edits' \ edits \subseteq Held(Latest', drafts'), discarded \cup gone \subseteq discarded',
         \E D \in Named : AllKept(D, stamp', Latest', page', drafts')
  PROVE  Remembers'
  <1>1. edits \ discarded \subseteq Held(Latest, drafts)
    BY DEF NothingForgotten, Held
  <1>2. edits' \ discarded' \subseteq Held(Latest', drafts')
    BY <1>1
  <1>3. NothingForgotten'
    BY <1>2 DEF NothingForgotten, Held
  <1>4. KeptInv'
    BY DEF KeptInv
  <1>. QED BY <1>3, <1>4 DEF Remembers

(* The step of one page, from what its memory and its draft become. *)
LEMMA PageConcluded ==
  ASSUME EditorInv, Remembers, UNCHANGED <<stamp, edits, discarded>>, Grows(saved, saved'),
         NEW D \in Named, AllKept(D, stamp, Latest, page, drafts), NEW p \in Pages, NEW it, NEW d,
         page' = [page EXCEPT ![p] = it], drafts' = [drafts EXCEPT ![p] = d],
         drafts[p].design \subseteq Latest' \cup d.design,
         DraftKept(D, stamp, Latest', d), PageKept(D, stamp, Latest', it), OwnKept(it, d)
  PROVE  Remembers'
  <1>0. /\ saved \in Seq(Design) /\ saved # <<>> /\ drafts \in [Pages -> Draft]
        /\ page \in [Pages -> PageState]
    BY KeptParts
  <1>1. Latest \subseteq Latest'
    BY <1>0, LatestGrows DEF Latest, revision
  <1>2. AllKept(D, stamp, Latest', page, drafts)
    BY <1>1, MoreKept
  <1>3. AllKept(D, stamp', Latest', page', drafts')
    BY <1>0, <1>2, OneKept
  <1>4. \A q \in Pages : drafts[q].design \subseteq Latest' \cup drafts'[q].design \cup {}
    BY <1>0
  <1>5. Held(Latest, drafts) \subseteq Held(Latest', drafts') \cup {}
    BY <1>1, <1>4, HeldMore
  <1>. QED BY <1>3, <1>5, Concluded DEF Remembers

(* Nothing but the versions on the server moves. *)
LEMMA QuietKept ==
  ASSUME EditorInv, Remembers, Grows(saved, saved'), UNCHANGED <<stamp, drafts, page, edits, discarded>>
  PROVE  Remembers'
  <1>0. saved \in Seq(Design) /\ saved # <<>>
    BY KeptParts
  <1>1. PICK D \in Named : AllKept(D, stamp, Latest, page, drafts)
    BY KeptParts
  <1>2. Latest \subseteq Latest'
    BY <1>0, LatestGrows DEF Latest, revision
  <1>3. AllKept(D, stamp', Latest', page', drafts')
    BY <1>1, <1>2, MoreKept
  <1>4. \A q \in Pages : drafts[q].design \subseteq Latest' \cup drafts'[q].design \cup {}
    OBVIOUS
  <1>5. Held(Latest, drafts) \subseteq Held(Latest', drafts') \cup {}
    BY <1>2, <1>4, HeldMore
  <1>. QED BY <1>3, <1>5, Concluded DEF Remembers

LEMMA OpenKept ==
  ASSUME EditorInv, Remembers, NEW p \in Pages, Open(p)
  PROVE  Remembers'
  <1>0. /\ saved \in Seq(Design) /\ saved # <<>> /\ stamp \in Nat
        /\ page \in [Pages -> PageState] /\ drafts \in [Pages -> Draft]
        /\ UNCHANGED <<saved, stamp, drafts, edits, discarded>> /\ page[p].phase = "new"
    BY KeptParts DEF Open
  <1>1. PICK D \in Named : AllKept(D, stamp, Latest, page, drafts)
    BY KeptParts
  <1>2. PICK q \in Pages : page' = [page EXCEPT ![p] = Loaded(drafts[q])]
    BY DEF Open
  <1>3. DraftKept(D, stamp, Latest, drafts[q]) /\ DraftKept(D, stamp, Latest, drafts[p]) /\ drafts[p].design = {}
    BY <1>0, <1>1 DEF AllKept, OwnKept
  <1>4. PageKept(D, stamp, Latest, Loaded(drafts[q])) /\ OwnKept(Loaded(drafts[q]), drafts[p])
    BY <1>0, <1>3, LoadedKept
  <1>5. drafts' = [drafts EXCEPT ![p] = drafts[p]] /\ Latest' = Latest /\ Grows(saved, saved')
    BY <1>0, SameVersions DEF Latest, revision
  <1>. QED BY <1>0, <1>1, <1>2, <1>3, <1>4, <1>5, PageConcluded

LEMMA DiscardKept ==
  ASSUME EditorInv, Remembers, Connected, NEW p \in Pages, Discard(p)
  PROVE  Remembers'
  <1>0. /\ saved \in Seq(Design) /\ saved # <<>> /\ stamp \in Nat
        /\ page \in [Pages -> PageState] /\ drafts \in [Pages -> Draft]
    BY KeptParts
  <1>1. PICK D \in Named : AllKept(D, stamp, Latest, page, drafts)
    BY KeptParts
  <1>2. PICK c : c = Cleared(p, page[p].origin)
    OBVIOUS
  <1>3. /\ drafts' = c /\ discarded' = discarded \cup GivenUp(p)
        /\ \E q \in Pages : page' = [page EXCEPT ![p] = Loaded(drafts'[q])]
        /\ UNCHANGED <<saved, stamp, edits>>
    BY <1>2 DEF Discard, Connected
  <1>4. PICK q \in Pages : page' = [page EXCEPT ![p] = Loaded(c[q])]
    BY <1>3
  <1>5. AllKept(D, stamp, Latest, page, c)
    BY <1>0, <1>1, <1>2, ClearedKept
  <1>6. c \in [Pages -> Draft] /\ c[p] = NoDraft
    BY <1>0, <1>2, Constants DEF Cleared
  <1>7. PageKept(D, stamp, Latest, Loaded(c[q])) /\ OwnKept(Loaded(c[q]), c[p])
    <2>1. DraftKept(D, stamp, Latest, c[q])
      BY <1>5 DEF AllKept
    <2>2. c[p].design = {}
      BY <1>6 DEF NoDraft
    <2>. QED BY <1>0, <1>6, <2>1, <2>2, LoadedKept
  <1>8. Latest' = Latest
    BY <1>3 DEF Latest, revision
  <1>9. AllKept(D, stamp', Latest', page', drafts')
    BY <1>0, <1>3, <1>4, <1>5, <1>6, <1>7, <1>8, PageOnly
  <1>10. \A r \in Pages : drafts[r].design \subseteq Latest' \cup drafts'[r].design \cup GivenUp(p)
    BY <1>2, <1>3 DEF GivenUp
  <1>11. Held(Latest, drafts) \subseteq Held(Latest', drafts') \cup GivenUp(p)
    BY <1>8, <1>10, HeldMore
  <1>. QED BY <1>3, <1>9, <1>11, Concluded DEF Remembers

(* The next stamp names the new draft's design. *)
LEMMA Renamed ==
  ASSUME NEW D \in Named, NEW n \in Nat, n + 1 \in 1..MaxSchedules, NEW x \in Design, NEW top,
         NEW pages \in [Pages -> PageState], NEW stored \in [Pages -> Draft],
         AllKept(D, n, top, pages, stored)
  PROVE  /\ [D EXCEPT ![n + 1] = x] \in Named /\ [D EXCEPT ![n + 1] = x][n + 1] = x
         /\ AllKept([D EXCEPT ![n + 1] = x], n + 1, top, pages, stored)
  <1>1. PICK E : E = [D EXCEPT ![n + 1] = x]
    OBVIOUS
  <1>2. E \in Named /\ E[n + 1] = x /\ \A k \in 1..MaxSchedules : k =< n => E[k] = D[k]
    BY <1>1 DEF Named
  <1>3. ASSUME NEW d \in Draft, DraftKept(D, n, top, d) PROVE DraftKept(E, n + 1, top, d)
    <2>1. d.stamp \in 0..MaxSchedules
      BY DEF Draft
    <2>. QED BY <1>2, <1>3, <2>1, EditorAssumption DEF DraftKept
  <1>4. ASSUME NEW it \in PageState, PageKept(D, n, top, it) PROVE PageKept(E, n + 1, top, it)
    <2>1. it.latest \in Draft /\ it.origin \in 0..MaxSchedules
      BY DEF PageState
    <2>2. DraftKept(E, n + 1, top, it.latest)
      BY <1>3, <1>4, <2>1 DEF PageKept
    <2>3. it.origin =< n + 1 /\ (it.origin # 0 => E[it.origin] \subseteq it.shown)
      BY <1>2, <1>4, <2>1, EditorAssumption DEF PageKept
    <2>. QED BY <1>4, <2>2, <2>3 DEF PageKept
  <1>5. AllKept(E, n + 1, top, pages, stored)
    BY <1>3, <1>4 DEF AllKept
  <1>. QED BY <1>1, <1>2, <1>5

LEMMA ScheduledKept ==
  ASSUME EditorInv, Remembers, NEW p \in Pages, NEW d \in Draft, NEW t, Scheduled(p, d, t),
         d.stamp = stamp + 1, d.baseDesign \subseteq Latest, page[p].shown \subseteq d.design,
         edits' \ edits \subseteq d.design
  PROVE  Remembers'
  <1>0. /\ saved \in Seq(Design) /\ saved # <<>> /\ stamp \in Nat /\ stamp \in 0..MaxSchedules
        /\ page \in [Pages -> PageState] /\ drafts \in [Pages -> Draft] /\ d.design \in Design
    BY KeptParts DEF Draft
  <1>1. PICK D \in Named : AllKept(D, stamp, Latest, page, drafts)
    BY KeptParts
  <1>2. /\ stamp < MaxSchedules /\ stamp' = stamp + 1 /\ page[p].phase = "open"
        /\ drafts' = [drafts EXCEPT ![p] = d] /\ page' = [page EXCEPT ![p] = Showing(page[p], d, t)]
        /\ discarded' = discarded /\ Latest' = Latest
    BY DEF Scheduled, Latest, revision
  <1>3. PICK E : E = [D EXCEPT ![stamp + 1] = d.design]
    OBVIOUS
  <1>4. E \in Named /\ E[stamp + 1] = d.design /\ AllKept(E, stamp + 1, Latest, page, drafts)
    <2>1. stamp + 1 \in 1..MaxSchedules
      BY <1>0, <1>2, EditorAssumption
    <2>. QED BY <1>0, <1>1, <1>3, <2>1, Renamed
  <1>5. DraftKept(E, stamp + 1, Latest, d)
    BY <1>0, <1>4 DEF DraftKept
  <1>6. PICK it \in PageState : it = page[p] /\ PageKept(E, stamp + 1, Latest, it) /\ it.phase = "open"
    BY <1>0, <1>2, <1>4 DEF AllKept
  <1>7. PageKept(E, stamp + 1, Latest, Showing(it, d, t)) /\ OwnKept(Showing(it, d, t), d)
    BY <1>5, <1>6, ShowingKept
  <1>8. AllKept(E, stamp', Latest', page', drafts')
    BY <1>0, <1>2, <1>4, <1>5, <1>6, <1>7, OneKept
  <1>9. drafts[p].design \subseteq d.design
    BY <1>1, <1>2 DEF AllKept, OwnKept
  <1>10. \A q \in Pages : drafts[q].design \subseteq Latest' \cup drafts'[q].design \cup {}
    BY <1>0, <1>2, <1>9
  <1>11. Held(Latest, drafts) \subseteq Held(Latest', drafts') \cup {}
    BY <1>2, <1>10, HeldMore
  <1>12. edits' \ edits \subseteq Held(Latest', drafts')
    BY <1>0, <1>2 DEF Held
  <1>. QED BY <1>2, <1>4, <1>8, <1>11, <1>12, Concluded DEF Remembers

LEMMA EditingKept ==
  ASSUME EditorInv, Remembers, NEW p \in Pages, Edit(p) \/ Retry(p) \/ Merge(p)
  PROVE  Remembers'
  <1>0. saved \in Seq(Design) /\ saved # <<>> /\ stamp \in 0..MaxSchedules /\ stamp < MaxSchedules
    BY KeptParts DEF Edit, Retry, Merge, Scheduled
  <1>1. PICK it \in PageState : it = page[p] /\ PageSound(saved, it) /\ it.phase = "open"
    BY SavingPage DEF Edit, Retry, Merge, Scheduled
  <1>2. it.latest \in Draft /\ it.acknowledged \subseteq Latest /\ it.latest.baseDesign \subseteq Latest
    <2>1. PICK D \in Named : AllKept(D, stamp, Latest, page, drafts)
      BY KeptParts
    <2>2. it.latest.baseDesign \subseteq Latest
      BY <1>1, <2>1 DEF AllKept, PageKept, DraftKept
    <2>3. it.acknowledged \subseteq Latest
      BY <1>1, KnownPast DEF IsOpen
    <2>. QED BY <1>1, <2>2, <2>3 DEF PageState
  <1>3. /\ Edited(it) \in Draft /\ Retried(it) \in Draft /\ Reviewed(it) \in Draft
    BY <1>0, <1>1, DraftMoves
  <1>4. CASE Edit(p)
    <2>1. PICK t : t = IF it.blocked THEN "off" ELSE "auto"
      OBVIOUS
    <2>2. Scheduled(p, Edited(it), t) /\ edits' = edits \cup {stamp + 1}
      BY <1>1, <1>4, <2>1 DEF Edit
    <2>3. PICK d \in Draft : d = Edited(it)
      BY <1>3
    <2>4. /\ d.stamp = stamp + 1 /\ d.design = it.shown \cup {stamp + 1}
          /\ d.baseDesign \in {it.latest.baseDesign, it.acknowledged}
      BY <2>3 DEF Edited
    <2>. QED BY <1>1, <1>2, <2>2, <2>3, <2>4, ScheduledKept
  <1>5. CASE Retry(p)
    <2>1. Scheduled(p, Retried(it), "explicit") /\ UNCHANGED edits /\ it.latest # NoDraft
      BY <1>1, <1>5 DEF Retry
    <2>2. PICK d \in Draft : d = Retried(it)
      BY <1>3
    <2>3. d.stamp = stamp + 1 /\ d.design = it.latest.design /\ d.baseDesign = it.latest.baseDesign
      BY <1>2, <2>2 DEF Retried, Draft
    <2>4. it.latest.design = it.shown
      BY <1>1, <2>1 DEF PageSound, LatestSound
    <2>. QED BY <1>1, <1>2, <2>1, <2>2, <2>3, <2>4, ScheduledKept
  <1>6. CASE Merge(p)
    <2>1. Scheduled(p, Reviewed(it), "explicit") /\ UNCHANGED edits /\ it.latest # NoDraft
      BY <1>1, <1>6 DEF Merge
    <2>2. PICK d \in Draft : d = Reviewed(it)
      BY <1>3
    <2>3. /\ d.stamp = stamp + 1 /\ d.baseDesign = Latest
          /\ d.design = Merged(it.latest.baseDesign, it.latest.design, Latest)
      BY <2>2 DEF Reviewed
    <2>4. it.latest.design = it.shown
      BY <1>1, <2>1 DEF PageSound, LatestSound
    <2>5. it.shown \subseteq d.design
      BY <1>2, <2>3, <2>4 DEF Merged
    <2>. QED BY <1>1, <2>1, <2>2, <2>3, <2>5, ScheduledKept
  <1>. QED BY <1>4, <1>5, <1>6

LEMMA AttemptKept ==
  ASSUME EditorInv, Remembers, NEW p \in Pages, Attempt(p)
  PROVE  Remembers'
  <1>0. /\ saved \in Seq(Design) /\ saved # <<>> /\ stamp \in Nat /\ drafts \in [Pages -> Draft]
        /\ UNCHANGED <<saved, stamp, edits, discarded>>
    BY KeptParts DEF Attempt
  <1>1. PICK D \in Named : AllKept(D, stamp, Latest, page, drafts)
    BY KeptParts
  <1>2. PICK it \in PageState : it = page[p] /\ PageSound(saved, it)
    BY SavingPage
  <1>3. /\ it.timer # "off" /\ it.phase = "open" /\ it.acknowledged \subseteq Latest
        /\ PageKept(D, stamp, Latest, it) /\ DraftKept(D, stamp, Latest, drafts[p]) /\ OwnKept(it, drafts[p])
    BY <1>1, <1>2, SavingPage, KnownPast DEF Attempt, IsOpen, AllKept
  <1>4. Latest' = Latest /\ Grows(saved, saved') /\ drafts = [drafts EXCEPT ![p] = drafts[p]]
    BY <1>0, SameVersions DEF Latest, revision
  <1>5. CASE page' = [page EXCEPT ![p] = [it EXCEPT !.timer = "off"]] /\ drafts' = drafts
    <2>1. PICK x : x = [it EXCEPT !.timer = "off"]
      OBVIOUS
    <2>2. /\ x.phase = it.phase /\ x.shown = it.shown /\ x.latest = it.latest
          /\ x.origin = it.origin /\ x.flight = it.flight
      BY <2>1 DEF PageState
    <2>3. PageKept(D, stamp, Latest, x) /\ OwnKept(x, drafts[p])
      BY <1>3, <2>2 DEF PageKept, OwnKept
    <2>. QED BY <1>0, <1>1, <1>3, <1>4, <1>5, <2>1, <2>3, PageConcluded
  <1>6. CASE page' = [page EXCEPT ![p] = Sending(it)] /\ drafts' \in {drafts, [drafts EXCEPT ![p] = Sent(it)]}
    <2>1. /\ DraftKept(D, stamp, Latest, Sent(it)) /\ Sent(it).design = it.shown
          /\ PageKept(D, stamp, Latest, Sending(it))
          /\ OwnKept(Sending(it), drafts[p]) /\ OwnKept(Sending(it), Sent(it))
      BY <1>0, <1>2, <1>3, SendingKept
    <2>2. drafts[p].design \subseteq it.shown
      BY <1>3 DEF OwnKept
    <2>3. CASE drafts' = drafts
      BY <1>0, <1>1, <1>3, <1>4, <1>6, <2>1, <2>3, PageConcluded
    <2>4. CASE drafts' = [drafts EXCEPT ![p] = Sent(it)]
      BY <1>0, <1>1, <1>4, <1>6, <2>1, <2>2, <2>4, PageConcluded
    <2>. QED BY <1>6, <2>3, <2>4
  <1>. QED BY <1>2, <1>5, <1>6 DEF Attempt

LEMMA ServeKept ==
  ASSUME EditorInv, Remembers, NEW p \in Pages, Serve(p)
  PROVE  Remembers'
  <1>0. /\ saved \in Seq(Design) /\ saved # <<>> /\ drafts \in [Pages -> Draft]
        /\ UNCHANGED <<stamp, drafts, edits, discarded>> /\ Grows(saved, saved')
    BY KeptParts, ServeStep DEF Serve
  <1>1. PICK D \in Named : AllKept(D, stamp, Latest, page, drafts)
    BY KeptParts
  <1>2. PICK it \in PageState : it = page[p]
    BY SavingPage
  <1>3. PICK result : page' = [page EXCEPT ![p] = Served(it, result)]
    BY <1>2 DEF Serve
  <1>4. AllKept(D, stamp, Latest', page, drafts)
    <2>1. Latest \subseteq Latest'
      BY <1>0, LatestGrows DEF Latest, revision
    <2>. QED BY <1>1, <2>1, MoreKept
  <1>5. PageKept(D, stamp, Latest', it) /\ DraftKept(D, stamp, Latest', drafts[p]) /\ OwnKept(it, drafts[p])
    BY <1>2, <1>4 DEF AllKept
  <1>6. PageKept(D, stamp, Latest', Served(it, result)) /\ OwnKept(Served(it, result), drafts[p])
    BY <1>5, ServedKept
  <1>7. drafts' = [drafts EXCEPT ![p] = drafts[p]]
    BY <1>0
  <1>. QED BY <1>0, <1>1, <1>3, <1>5, <1>6, <1>7, PageConcluded

LEMMA AcknowledgeKept ==
  ASSUME EditorInv, Remembers, NEW p \in Pages, Acknowledge(p)
  PROVE  Remembers'
  <1>0. /\ saved \in Seq(Design) /\ saved # <<>> /\ stamp \in Nat
        /\ page \in [Pages -> PageState] /\ drafts \in [Pages -> Draft]
        /\ UNCHANGED <<saved, stamp, edits, discarded>>
    BY KeptParts DEF Acknowledge
  <1>1. PICK D \in Named : AllKept(D, stamp, Latest, page, drafts)
    BY KeptParts
  <1>2. PICK it \in PageState : it = page[p] /\ PageSound(saved, it)
    BY SavingPage
  <1>3. /\ it.flight.at = "saved" /\ it.phase = "open" /\ it.flight.design \subseteq Latest
        /\ page' = [page EXCEPT ![p] = Acknowledged(it)]
        /\ drafts' = IF it.flight.current THEN Cleared(p, it.origin) ELSE [drafts EXCEPT ![p] = Rest(it)]
    BY <1>2, KnownPast DEF Acknowledge, IsOpen
  <1>4. /\ PageKept(D, stamp, Latest, it) /\ OwnKept(it, drafts[p])
        /\ \A q \in Pages : DraftKept(D, stamp, Latest, drafts[q])
    BY <1>1, <1>2 DEF AllKept
  <1>5. /\ DraftKept(D, stamp, Latest, Rest(it)) /\ PageKept(D, stamp, Latest, Acknowledged(it))
        /\ \A e : OwnKept(it, e) => OwnKept(Acknowledged(it), e)
        /\ OwnKept(Acknowledged(it), Rest(it))
        /\ ~it.flight.current => Rest(it).design = it.shown
    BY <1>0, <1>2, <1>3, <1>4, AcknowledgedKept
  <1>6. Latest' = Latest /\ Grows(saved, saved')
    BY <1>0, SameVersions DEF Latest, revision
  <1>7. drafts[p].design \subseteq it.shown
    BY <1>3, <1>4 DEF OwnKept
  <1>8. CASE ~it.flight.current
    <2>1. drafts' = [drafts EXCEPT ![p] = Rest(it)]
      BY <1>3, <1>8, Zenon
    <2>2. Rest(it).design = it.shown
      BY <1>5, <1>8, Zenon
    <2>. QED BY <1>0, <1>1, <1>3, <1>5, <1>6, <1>7, <2>1, <2>2, PageConcluded
  <1>9. CASE it.flight.current
    <2>1. PICK c : c = Cleared(p, it.origin)
      OBVIOUS
    <2>2. drafts' = c
      BY <1>3, <1>9, <2>1, Zenon
    <2>3. it.shown \subseteq Latest
      <3>1. it.flight.design = it.shown
        BY <1>4, <1>9, Zenon DEF PageKept
      <3>. QED BY <1>3, <3>1
    <2>4. AllKept(D, stamp, Latest, page, c)
      BY <1>0, <1>1, <2>1, ClearedKept
    <2>5. c \in [Pages -> Draft]
      BY <1>0, <2>1, Constants DEF Cleared
    <2>6. OwnKept(Acknowledged(it), c[p])
      BY <1>2, <1>5, <2>4 DEF AllKept
    <2>7. AllKept(D, stamp', Latest', page', drafts')
      BY <1>0, <1>3, <1>5, <1>6, <2>2, <2>4, <2>5, <2>6, PageOnly
    <2>8. ASSUME NEW q \in Pages PROVE drafts[q].design \subseteq Latest \cup c[q].design
      <3>1. CASE q = p
        BY <1>7, <2>3, <3>1
      <3>2. CASE drafts[q].stamp = it.origin /\ it.origin # 0
        <4>1. drafts[q].design = D[it.origin]
          BY <1>4, <3>2 DEF DraftKept
        <4>2. D[it.origin] \subseteq it.shown
          BY <1>4, <3>2 DEF PageKept
        <4>. QED BY <2>3, <4>1, <4>2
      <3>3. CASE q # p /\ ~(drafts[q].stamp = it.origin /\ it.origin # 0)
        BY <2>1, <3>3 DEF Cleared
      <3>. QED BY <3>1, <3>2, <3>3
    <2>9. Held(Latest, drafts) \subseteq Held(Latest', drafts') \cup {}
      BY <1>6, <2>2, <2>8, HeldMore
    <2>. QED BY <1>0, <2>7, <2>9, Concluded DEF Remembers
  <1>. QED BY <1>8, <1>9

LEMMA FailedKept ==
  ASSUME EditorInv, Remembers, NEW p \in Pages, Saving(p), NEW b \in BOOLEAN, Failed(p, b),
         UNCHANGED <<saved, stamp, edits, discarded>>
  PROVE  Remembers'
  <1>0. /\ saved \in Seq(Design) /\ saved # <<>> /\ Latest' = Latest /\ Grows(saved, saved')
    BY KeptParts, SameVersions DEF Latest, revision
  <1>1. PICK D \in Named : AllKept(D, stamp, Latest, page, drafts)
    BY KeptParts
  <1>2. PICK it \in PageState : it = page[p] /\ PageSound(saved, it)
    BY SavingPage
  <1>3. /\ it.flight.at # "none" /\ it.phase = "open"
        /\ PageKept(D, stamp, Latest, it) /\ OwnKept(it, drafts[p])
    BY <1>1, <1>2, SavingPage DEF AllKept, Saving, IsOpen
  <1>4. /\ PageKept(D, stamp, Latest, [Ended(it, b) EXCEPT !.latest = Kept(it, b)])
        /\ OwnKept([Ended(it, b) EXCEPT !.latest = Kept(it, b)], Kept(it, b))
        /\ DraftKept(D, stamp, Latest, Kept(it, b)) /\ Kept(it, b).design = it.shown
    BY <1>2, <1>3, EndedKept
  <1>5. drafts[p].design \subseteq it.shown
    BY <1>3 DEF OwnKept
  <1>6. /\ page' = [page EXCEPT ![p] = [Ended(it, b) EXCEPT !.latest = Kept(it, b)]]
        /\ drafts' = [drafts EXCEPT ![p] = Kept(it, b)]
    BY <1>2 DEF Failed
  <1>. QED BY <1>0, <1>1, <1>4, <1>5, <1>6, PageConcluded

LEMMA DisconnectKept ==
  ASSUME EditorInv, Remembers, NEW p \in Pages, Disconnect(p)
  PROVE  Remembers'
  <1>0. /\ saved \in Seq(Design) /\ saved # <<>> /\ drafts \in [Pages -> Draft]
        /\ Latest' = Latest /\ Grows(saved, saved')
        /\ UNCHANGED <<saved, stamp, drafts, edits, discarded>>
    BY KeptParts, SameVersions DEF Disconnect, Latest, revision
  <1>1. PICK D \in Named : AllKept(D, stamp, Latest, page, drafts)
    BY KeptParts
  <1>2. PICK it \in PageState : it = page[p] /\ PageSound(saved, it)
    BY SavingPage
  <1>3. /\ it.flight.at # "none" /\ DraftKept(D, stamp, Latest, drafts[p])
        /\ PageKept(D, stamp, Latest, it) /\ OwnKept(it, drafts[p])
    BY <1>1, <1>2 DEF AllKept, Saving, Disconnect
  <1>4. PageKept(D, stamp, Latest, Ended(it, FALSE)) /\ OwnKept(Ended(it, FALSE), drafts[p])
    BY <1>2, <1>3, EndedKept
  <1>5. page' = [page EXCEPT ![p] = Ended(it, FALSE)] /\ drafts' = [drafts EXCEPT ![p] = drafts[p]]
    BY <1>0, <1>2 DEF Disconnect
  <1>. QED BY <1>0, <1>1, <1>3, <1>4, <1>5, PageConcluded

LEMMA CloseKept ==
  ASSUME EditorInv, Remembers, NEW p \in Pages, NEW requests, Close(p, requests)
  PROVE  Remembers'
  <1>0. /\ saved \in Seq(Design) /\ saved # <<>> /\ drafts \in [Pages -> Draft] /\ stamp \in Nat
        /\ Latest' = Latest /\ Grows(saved, saved')
        /\ UNCHANGED <<saved, stamp, drafts, edits, discarded>>
    BY KeptParts, SameVersions DEF Close, Latest, revision
  <1>1. PICK D \in Named : AllKept(D, stamp, Latest, page, drafts)
    BY KeptParts
  <1>2. DraftKept(D, stamp, Latest, drafts[p])
    BY <1>1 DEF AllKept
  <1>3. page' = [page EXCEPT ![p] = [NewPage EXCEPT !.phase = "closed"]]
        /\ drafts' = [drafts EXCEPT ![p] = drafts[p]]
    BY <1>0 DEF Close
  <1>. QED BY <1>0, <1>1, <1>2, <1>3, ClosedKept, PageConcluded

LEMMA RemembersStart == Init => Remembers
  <1>. SUFFICES ASSUME Init PROVE Remembers
    OBVIOUS
  <1>1. NothingForgotten
    BY DEF Init, EditorInit, NothingForgotten
  <1>2. PICK D : D = [n \in 1..MaxSchedules |-> {}]
    OBVIOUS
  <1>3. D \in Named
    BY <1>2, Designs DEF Named
  <1>4. \A p \in Pages : page[p].phase = "new" /\ page[p].latest = NoDraft /\ page[p].origin = 0
                         /\ page[p].flight = NoFlight /\ drafts[p] = NoDraft
    BY DEF Init, EditorInit, NewPage
  <1>5. stamp = 0 /\ NoFlight.current = FALSE
    BY DEF Init, EditorInit, NoFlight
  <1>6. AllKept(D, stamp, Latest, page, drafts)
    BY <1>4, <1>5, NoDraftKept DEF AllKept, PageKept, OwnKept
  <1>. QED BY <1>1, <1>3, <1>6 DEF Remembers, KeptInv

LEMMA RemembersStep == Connected /\ Inv /\ Remembers /\ [Next]_vars => Remembers'
  <1>. SUFFICES ASSUME Connected, Inv, Remembers, [Next]_vars PROVE Remembers'
    OBVIOUS
  <1>0. EditorInv
    BY InvByParts
  <1>1. ASSUME NEW p \in Pages, Edits(p) PROVE Remembers'
    <2>1. EditorStep(p) /\ ~OpenOffline(p)
      BY <1>1 DEF Edits, OpenOffline, Connected
    <2>2. CASE Refuse(p)
      BY <1>0, <2>2, FailedKept DEF Refuse, Saving
    <2>3. CASE TimeOut(p)
      BY <1>0, <2>3, FailedKept DEF TimeOut
    <2>. QED BY <1>0, <2>1, <2>2, <2>3, OpenKept, DiscardKept, EditingKept, AttemptKept, ServeKept,
               AcknowledgeKept DEF EditorStep
  <1>2. ASSUME NEW p \in Pages, GoOffline(p) PROVE Remembers'
    BY <1>0, <1>2, DisconnectKept DEF GoOffline
  <1>3. ASSUME NEW p \in Pages, ClosePage(p) PROVE Remembers'
    BY <1>0, <1>3, CloseKept DEF ClosePage
  <1>4. ASSUME NEW p \in Pages, Send(p) PROVE Remembers'
    <2>1. UNCHANGED <<stamp, drafts, page, edits, discarded>>
      BY <1>4 DEF Send
    <2>2. Grows(saved, saved')
      BY <1>4, SendStep
    <2>. QED BY <1>0, <2>1, <2>2, QuietKept
  <1>5. ASSUME NEW p \in Pages, \/ EnqueueStep(p) \/ StartSync(p) \/ SyncFails(p)
                                \/ MarkSyncing(p) \/ Check(p) \/ CacheSaved(p) \/ Settle(p)
        PROVE  Remembers'
    <2>1. UNCHANGED <<saved, stamp, drafts, page, edits, discarded>>
      BY <1>5 DEF EnqueueStep, ListOlder, Supersede, Put, StartSync, SyncFails, MarkSyncing, Check,
                  CacheSaved, Settle, editorVars
    <2>. QED BY <1>0, <2>1, SameVersions, QuietKept
  <1>6. CASE Others
    <2>1. Grows(saved, saved') /\ UNCHANGED <<stamp, drafts, page, edits, discarded>>
      BY <1>0, <1>6, ForeignStep, ArrivesStep DEF Others, ForeignSave, Arrives
    <2>. QED BY <1>0, <2>1, QuietKept
  <1>7. CASE UNCHANGED vars \/ \E i \in Ids : Dismiss(i)
    <2>1. UNCHANGED <<saved, stamp, drafts, page, edits, discarded>>
      BY <1>7 DEF vars, editorVars, Dismiss
    <2>. QED BY <1>0, <2>1, SameVersions, QuietKept
  <1>. QED BY <1>1, <1>2, <1>3, <1>4, <1>5, <1>6, <1>7 DEF Next, SyncStep

(* Editor.tsx scheduleSave, attemptSave, clearRecoveryDraft: as long as     *)
(* every page was loaded from the server, a change the user made and has    *)
(* not given up is on the server or in a recovery draft - for any number    *)
(* of pages that recover, merge, retry and close, and any lost answers.     *)
THEOREM NothingLost == ASSUME Connected PROVE Spec => []NothingForgotten
  <1>1. Connected /\ Inv /\ Remembers /\ [Next]_vars => Remembers'
    BY RemembersStep
  <1>2. Remembers => NothingForgotten
    BY DEF Remembers
  <1>. QED BY <1>1, <1>2, RemembersStart, Invariance, PTL DEF Spec
=============================================================================
