----------------------------- MODULE DraftEditor -----------------------------
(***************************************************************************)
(* The editor pages of one account on one project: edits and autosave, the *)
(* drafts browser storage keeps for every page, the offline copy of the    *)
(* project, and the conflict review (client/src/pages/Editor.tsx,          *)
(* lib/offlineDraft.ts, lib/offlineProjectStore.ts, lib/designMerge.ts).   *)
(*                                                                         *)
(* A design is the set of changes it contains: a positive number is a      *)
(* change made on one of these pages, a negative one a change somebody     *)
(* else saved.  A PATCH replaces the whole design on the server.  What a   *)
(* page does between two awaits is one step; a page that is closed or      *)
(* crashes leaves behind what browser storage holds and a request that may *)
(* still arrive.                                                           *)
(***************************************************************************)
EXTENDS Integers, Sequences, FiniteSets

CONSTANTS
  Pages,        \* page loads, each with a fresh identity in browser storage
  Offered,      \* situations an instance includes beside editing and saving
  MaxSchedules, \* bound: saves the pages schedule (edits, retries, merges)
  MaxForeign,   \* bound: saves by other people
  MaxLost       \* bound: requests that end without an answer

ASSUME EditorAssumption == {MaxSchedules, MaxForeign, MaxLost} \subseteq Nat

VARIABLES
  saved,     \* the project's design at each revision on the server
  wire,      \* PATCH requests nobody waits for any more
  stamp,     \* saves scheduled so far: savedAt of the latest draft
  drafts,    \* localStorage: page -> its recovery draft
  cache,     \* the project as offlineProjectStore keeps it
  page,      \* the state of every page
  lost,      \* requests that ended without an answer
  edits,     \* changes made on the pages, for stating properties
  discarded  \* changes the user gave up explicitly, for stating properties

editorVars == <<saved, wire, stamp, drafts, cache, page, lost, edits, discarded>>

Design   == SUBSET ((1..MaxSchedules) \cup {-k : k \in 1..MaxForeign})
revision == Len(saved)
Latest   == saved[revision]
Revision == Nat \ {0}
NoBase   == 0

Draft   == [stamp : 0..MaxSchedules, design : Design, base : {NoBase} \cup Revision,
            baseDesign : Design, blocked : BOOLEAN]
NoDraft == [stamp |-> 0, design |-> {}, base |-> NoBase, baseDesign |-> {}, blocked |-> FALSE]
Request == [design : Design, base : Revision]
Copy    == [design : Design, rev : Revision]

Flight   == [at : {"none", "sent", "saved", "conflict", "refused"}, design : Design,
             base : {NoBase} \cup Revision, current : BOOLEAN]
NoFlight == [at |-> "none", design |-> {}, base |-> NoBase, current |-> FALSE]

PageState == [phase : {"new", "open", "closed"}, shown : Design, acknowledged : Design,
              rev : {NoBase} \cup Revision, pending : {NoBase} \cup Revision, latest : Draft,
              timer : {"off", "auto", "explicit"}, blocked : BOOLEAN,
              flight : Flight, origin : 0..MaxSchedules]
NewPage   == [phase |-> "new", shown |-> {}, acknowledged |-> {}, rev |-> NoBase,
              pending |-> NoBase, latest |-> NoDraft, timer |-> "off", blocked |-> FALSE,
              flight |-> NoFlight, origin |-> 0]

EditorTypeOK ==
  /\ saved \in Seq(Design) /\ saved # <<>>
  /\ wire \subseteq Request
  /\ stamp \in 0..MaxSchedules
  /\ drafts \in [Pages -> Draft]
  /\ cache \in Copy
  /\ page \in [Pages -> PageState]
  /\ lost \in 0..MaxLost
  /\ edits \subseteq 1..MaxSchedules
  /\ discarded \in Design

EditorInit ==
  /\ saved = <<{}>> /\ wire = {} /\ stamp = 0 /\ lost = 0
  /\ drafts = [p \in Pages |-> NoDraft]
  /\ cache = [design |-> {}, rev |-> 1]
  /\ page = [p \in Pages |-> NewPage]
  /\ edits = {} /\ discarded = {}

-----------------------------------------------------------------------------
(* The server.  *)

(* A PATCH with a base revision replaces the design of exactly that        *)
(* revision; membership or an object lock may refuse it.                   *)
Patched(base, design, result) ==
  \/ base = revision /\ result = "saved" /\ saved' = Append(saved, design)
  \/ base # revision /\ result = "conflict" /\ UNCHANGED saved
  \/ "refused" \in Offered /\ result = "refused" /\ UNCHANGED saved

Foreign == {k \in 1..MaxForeign : -k \in Latest}

ForeignSave ==
  /\ Cardinality(Foreign) < MaxForeign
  /\ saved' = Append(saved, Latest \cup {-(Cardinality(Foreign) + 1)})
  /\ UNCHANGED <<wire, stamp, drafts, cache, page, lost, edits, discarded>>

(* A request that outlived its page, or its deadline there. *)
Arrives(request) ==
  /\ request \in wire
  /\ wire' = wire \ {request}
  /\ \E result \in {"saved", "conflict", "refused"} :
       Patched(request.base, request.design, result)
  /\ UNCHANGED <<stamp, drafts, cache, page, lost, edits, discarded>>

Left(flight) == IF flight.at = "sent" THEN {[design |-> flight.design, base |-> flight.base]} ELSE {}

-----------------------------------------------------------------------------
(* Opening a page.  *)

IsOpen(p) == page[p].phase = "open"
Saving(p) == page[p].flight.at # "none"

Newest(stored, q) == \A r \in Pages : stored[r].stamp =< stored[q].stamp

(* The page after load: the newest draft, when there is one, over the      *)
(* project as the server has it.                                           *)
Loaded(draft) ==
  [NewPage EXCEPT !.phase = "open", !.acknowledged = Latest, !.rev = revision,
     !.shown = IF draft = NoDraft THEN Latest ELSE draft.design,
     !.pending = draft.base, !.latest = draft, !.blocked = draft.blocked,
     !.origin = draft.stamp]

(* Without a network: the offline copy, and nothing else is touched. *)
FromCache(state) ==
  [state EXCEPT !.phase = "open", !.shown = cache.design, !.acknowledged = cache.design,
     !.rev = cache.rev]

Open(p) ==
  /\ page[p].phase = "new"
  /\ \E q \in Pages : /\ Newest(drafts, q)
                      /\ page' = [page EXCEPT ![p] = Loaded(drafts[q])]
  /\ cache' = [design |-> Latest, rev |-> revision]
  /\ UNCHANGED <<saved, wire, stamp, drafts, lost, edits, discarded>>

OpenOffline(p) ==
  /\ "offline start" \in Offered
  /\ page[p].phase = "new"
  /\ page' = [page EXCEPT ![p] = FromCache(@)]
  /\ UNCHANGED <<saved, wire, stamp, drafts, cache, lost, edits, discarded>>

(* "Discard local & reload": this page's draft goes, and the draft it was  *)
(* recovered from unless its owner has replaced it since.                  *)
Cleared(p, origin) ==
  [q \in Pages |-> IF q = p \/ (drafts[q].stamp = origin /\ origin # 0) THEN NoDraft ELSE drafts[q]]

GivenUp(p) ==
  page[p].latest.design
    \cup UNION {drafts[q].design : q \in {r \in Pages : Cleared(p, page[p].origin)[r] # drafts[r]}}

Discard(p) ==
  /\ "discard" \in Offered
  /\ IsOpen(p) /\ ~Saving(p)
  /\ drafts' = Cleared(p, page[p].origin)
  /\ discarded' = discarded \cup GivenUp(p)
  /\ \/ /\ \E q \in Pages : /\ Newest(drafts', q)
                            /\ page' = [page EXCEPT ![p] = Loaded(drafts'[q])]
        /\ cache' = [design |-> Latest, rev |-> revision]
     \/ /\ "offline reload" \in Offered
        /\ page' = [page EXCEPT ![p] = FromCache([@ EXCEPT !.latest = NoDraft, !.timer = "off"])]
        /\ UNCHANGED cache
  /\ UNCHANGED <<saved, wire, stamp, lost, edits>>

(* The tab is closed, reloaded or crashes, with more requests of its own   *)
(* on the way perhaps.                                                     *)
Close(p, requests) ==
  /\ IsOpen(p)
  /\ wire' = wire \cup Left(page[p].flight) \cup requests
  /\ page' = [page EXCEPT ![p] = [NewPage EXCEPT !.phase = "closed"]]
  /\ UNCHANGED <<saved, stamp, drafts, cache, lost, edits, discarded>>

-----------------------------------------------------------------------------
(* Editing.  Every change stores a draft before the autosave delay starts. *)

Showing(it, draft, timer) ==
  [it EXCEPT !.shown = draft.design, !.latest = draft, !.timer = timer, !.blocked = draft.blocked,
             !.flight = [@ EXCEPT !.current = FALSE]]

Scheduled(p, draft, timer) ==
  /\ page[p].phase = "open"
  /\ stamp < MaxSchedules
  /\ stamp' = stamp + 1
  /\ drafts' = [drafts EXCEPT ![p] = draft]
  /\ page' = [page EXCEPT ![p] = Showing(@, draft, timer)]
  /\ UNCHANGED <<saved, wire, cache, lost, discarded>>

Edited(it) ==
  [stamp      |-> stamp + 1,
   design     |-> it.shown \cup {stamp + 1},
   base       |-> IF it.pending # NoBase THEN it.pending ELSE it.rev,
   baseDesign |-> IF it.latest # NoDraft THEN it.latest.baseDesign ELSE it.acknowledged,
   blocked    |-> it.blocked]

Edit(p) ==
  /\ Scheduled(p, Edited(page[p]), IF page[p].blocked THEN "off" ELSE "auto")
  /\ edits' = edits \cup {stamp + 1}

(* "Retry original revision". *)
Retried(it) == [it.latest EXCEPT !.stamp = stamp + 1, !.blocked = FALSE]

Retry(p) ==
  /\ "retry" \in Offered
  /\ ~Saving(p) /\ page[p].latest # NoDraft
  /\ Scheduled(p, Retried(page[p]), "explicit")
  /\ UNCHANGED edits

(* Mutant: a merge keeps the local value where only the remote side changed. *)
Merged_LocalWins(base, local, remote) == local

(* Three-way merge: a side that differs from the base wins. *)
Merged(base, local, remote) == (remote \ (base \ local)) \cup (local \ base)

(* "Apply merge & save", on the revision the review has just read again. *)
Reviewed(it) ==
  [stamp      |-> stamp + 1,
   design     |-> Merged(it.latest.baseDesign, it.latest.design, Latest),
   base       |-> revision,
   baseDesign |-> Latest,
   blocked    |-> FALSE]

Merge(p) ==
  /\ "merge" \in Offered
  /\ ~Saving(p) /\ page[p].latest # NoDraft
  /\ Scheduled(p, Reviewed(page[p]), "explicit")
  /\ UNCHANGED edits

-----------------------------------------------------------------------------
(* Saving.  *)

(* What the attempt sends: an ordinary save whose predecessors have all    *)
(* been answered is based on what they left, and stored so.                *)
Rebases(it) == it.timer = "auto" /\ it.pending = NoBase

Sent(it) ==
  IF Rebases(it)
  THEN [it.latest EXCEPT !.base = it.rev, !.baseDesign = it.acknowledged]
  ELSE it.latest

Sending(it) ==
  [it EXCEPT !.timer = "off", !.latest = Sent(it),
             !.flight = [at |-> "sent", design |-> Sent(it).design, base |-> Sent(it).base,
                         current |-> TRUE]]

Attempt(p) ==
  LET it == page[p] IN
  /\ it.timer # "off" /\ ~Saving(p)
  /\ IF it.timer = "auto" /\ it.blocked
     THEN /\ page' = [page EXCEPT ![p] = [it EXCEPT !.timer = "off"]]
          /\ UNCHANGED drafts
     ELSE /\ page' = [page EXCEPT ![p] = Sending(it)]
          /\ drafts' = IF Rebases(it) THEN [drafts EXCEPT ![p] = Sent(it)] ELSE drafts
  /\ UNCHANGED <<saved, wire, stamp, cache, lost, edits, discarded>>

Served(it, result) == [it EXCEPT !.flight = [@ EXCEPT !.at = result]]

Serve(p) ==
  /\ page[p].flight.at = "sent"
  /\ \E result \in {"saved", "conflict", "refused"} :
       /\ Patched(page[p].flight.base, page[p].flight.design, result)
       /\ page' = [page EXCEPT ![p] = Served(@, result)]
  /\ UNCHANGED <<wire, stamp, drafts, cache, lost, edits, discarded>>

(* The save is acknowledged: a draft that is still the latest is removed,  *)
(* a newer one goes on from the saved revision.                            *)
Rest(it) ==
  IF it.flight.current THEN NoDraft
  ELSE IF it.latest.base = it.flight.base
       THEN [it.latest EXCEPT !.base = it.flight.base + 1, !.baseDesign = it.flight.design]
       ELSE it.latest

Acknowledged(it) ==
  [it EXCEPT !.rev = it.flight.base + 1, !.pending = NoBase, !.blocked = FALSE,
             !.acknowledged = it.flight.design, !.latest = Rest(it), !.flight = NoFlight,
             !.origin = IF it.flight.current THEN 0 ELSE @]

(* Mutant: the acknowledgement of an older save removes a newer draft. *)
Acknowledge_AnyGeneration(p) ==
  LET it == page[p] IN
  /\ it.flight.at = "saved"
  /\ page' = [page EXCEPT ![p] = [Acknowledged(it) EXCEPT !.latest = NoDraft, !.timer = "off"]]
  /\ drafts' = Cleared(p, it.origin)
  /\ cache' = [design |-> it.flight.design, rev |-> it.flight.base + 1]
  /\ UNCHANGED <<saved, wire, stamp, lost, edits, discarded>>

Acknowledge(p) ==
  LET it == page[p] IN
  /\ it.flight.at = "saved"
  /\ page' = [page EXCEPT ![p] = Acknowledged(it)]
  /\ drafts' = IF it.flight.current THEN Cleared(p, it.origin) ELSE [drafts EXCEPT ![p] = Rest(it)]
  /\ cache' = [design |-> it.flight.design, rev |-> it.flight.base + 1]
  /\ UNCHANGED <<saved, wire, stamp, lost, edits, discarded>>

(* A save that ends with an error keeps its draft and its base. *)
Ended(it, blocked) ==
  [it EXCEPT !.pending = it.flight.base, !.blocked = blocked, !.flight = NoFlight]

Kept(it, blocked) == [it.latest EXCEPT !.blocked = blocked]

Failed(p, blocked) ==
  /\ page' = [page EXCEPT ![p] = [Ended(@, blocked) EXCEPT !.latest = Kept(page[p], blocked)]]
  /\ drafts' = [drafts EXCEPT ![p] = Kept(page[p], blocked)]

Refuse(p) ==
  /\ page[p].flight.at \in {"conflict", "refused"}
  /\ Failed(p, TRUE)
  /\ UNCHANGED <<saved, wire, stamp, cache, lost, edits, discarded>>

(* No answer by the deadline, or a transient status. *)
TimeOut(p) ==
  /\ "timeout" \in Offered
  /\ Saving(p) /\ lost < MaxLost
  /\ lost' = lost + 1
  /\ wire' = wire \cup Left(page[p].flight)
  /\ Failed(p, FALSE)
  /\ UNCHANGED <<saved, stamp, cache, edits, discarded>>

(* Mutant: the offline copy is labelled with the revision the save would have made. *)
Disconnect_CountsAhead(p) ==
  LET flight == page[p].flight IN
  /\ Saving(p) /\ lost < MaxLost
  /\ lost' = lost + 1
  /\ wire' = wire \cup Left(flight)
  /\ page' = [page EXCEPT ![p] = Ended(@, FALSE)]
  /\ cache' = [design |-> flight.design, rev |-> flight.base + 1]
  /\ UNCHANGED <<saved, stamp, drafts, edits, discarded>>

(* The network fails: the offline copy becomes what this page shows. *)
Disconnect(p) ==
  LET flight == page[p].flight IN
  /\ Saving(p) /\ lost < MaxLost
  /\ lost' = lost + 1
  /\ wire' = wire \cup Left(flight)
  /\ page' = [page EXCEPT ![p] = Ended(@, FALSE)]
  /\ cache' = [design |-> flight.design, rev |-> flight.base]
  /\ UNCHANGED <<saved, stamp, drafts, edits, discarded>>

EditorStep(p) ==
  \/ Open(p) \/ OpenOffline(p) \/ Discard(p)
  \/ Edit(p) \/ Retry(p) \/ Merge(p)
  \/ Attempt(p) \/ Serve(p) \/ Acknowledge(p) \/ Refuse(p) \/ TimeOut(p)
=============================================================================
