--------------------------- MODULE StoryTimeline ---------------------------
(***************************************************************************)
(* A Story's timeline: backend/services/stories.py below the routes of      *)
(* backend/routes/stories.py.  A clip plays a part of a generation's audio, *)
(* or of one pinned version of it, from its start time on; clips are        *)
(* placed, cut, split, duplicated and reordered while the generations under *)
(* them are retried, get new takes, another default take, and lose takes.   *)
(*                                                                         *)
(* An edit measures a clip by generation.duration; an export plays the file *)
(* of the pinned version, or else the generation's public file.  The two    *)
(* agree until a take of another length replaces the one a clip is pinned   *)
(* to, or another take is made the default.                                 *)
(*                                                                         *)
(* Every handler runs between two awaits, so it is one action; a request it *)
(* refuses changes nothing and is no step; its commit may raise, before or  *)
(* after the rows are durable.                                              *)
(*                                                                         *)
(* Abstracted: one Story; a millisecond is a unit, and a file of n units    *)
(* has n frames; volume, which moves with the pin wherever a clip is        *)
(* copied; versions with effects, which are as long as their source         *)
(* (RenderStages); who owns and removes the files (Library).                *)
(***************************************************************************)
EXTENDS Integers, FiniteSets, Sequences, FiniteSetsExt, Functions

CONSTANTS Generations, Versions,
          Original,      \* the version that the generation itself made
          NoPin,         \* version_id is null
          Tracks,
          Timeline,      \* STORY_MAX_TIMELINE_MS
          ClipCap,       \* STORY_MAX_CLIP_MS
          MaxItems,      \* STORY_MAX_ITEMS
          Gap,           \* the 200 ms between clips that are placed
          Lengths,       \* the lengths of what a generation may produce
          Starts, Cuts,  \* the start times and trims that requests ask for
          MaxEdits, MaxRaised, MaxReworks   \* bounds

ASSUME StoryTimelineAssumption ==
    /\ NoPin \notin Versions /\ Original \in Versions
    /\ Timeline \in Nat /\ ClipCap \in Nat /\ MaxItems \in Nat /\ Gap \in Nat
    /\ Lengths \subseteq 1..ClipCap /\ Lengths # {}    \* no audio is made or imported that is longer
    /\ Tracks \subseteq Nat /\ 0 \in Tracks

Wherever == -2       \* a request that names no start
Nowhere == -1

VARIABLES story,      \* the Story is there
          item,       \* its items by id
          duration,   \* generation.duration
          public,     \* the length of the file at generation.audio_path
          takes,      \* the lengths of the versions' files; 0 is no version
          default,    \* the version marked is_default
          ready,      \* the generations whose status is completed
          did,        \* what the last step was
          shrunk,     \* a generation's duration fell under a clip
          edits, raised, reworks

libraryRows == <<duration, public, takes, default, ready, shrunk, reworks>>
storyVars == <<story, item, did, edits, raised, libraryRows>>

Items == DOMAIN item
FreshId == CHOOSE i \in 1..MaxItems : i \notin Items
WithClip(i, c) == [k \in Items \cup {i} |-> IF k = i THEN c ELSE item[k]]

-----------------------------------------------------------------------------
(* _valid_timecode *)
ValidTimecode(t) == t \in 0..Timeline

(* _trimmed_duration_ms: not positive means None. *)
Effective(c) == duration[c.gen] - c.head - c.tail
HasLength(c) == Effective(c) > 0

(* What an export plays of a clip: the frames of its file behind the first  *)
(* trim and before the last; a pin whose version is gone plays nothing.     *)
Played(c) == IF c.pin = NoPin THEN public[c.gen] ELSE takes[c.gen][c.pin]
Sounding(c) == Played(c) - c.head - c.tail
Agrees(c) == Played(c) = duration[c.gen]

(* Each instant at which the clip is heard, with the audio that plays there. *)
Heard(c) == {<<c.start + i, c.track, c.gen, c.pin, c.head + i>> : i \in 0..(Sounding(c) - 1)}
HeardOf(cs) == UNION {Heard(cs[i]) : i \in {k \in DOMAIN cs : Agrees(cs[k])}}

Collide(c, d) == c.track = d.track /\ c.start < d.start + Effective(d) /\ d.start < c.start + Effective(c)

StoryTimelineInit ==
    /\ story = FALSE /\ item = << >>
    /\ duration = [g \in Generations |-> Max(Lengths)] /\ public = duration
    /\ takes = [g \in Generations |-> [v \in Versions |-> IF v = Original THEN Max(Lengths) ELSE 0]]
    /\ default = [g \in Generations |-> Original] /\ ready = Generations
    /\ did = "nothing" /\ shrunk = FALSE /\ edits = 0 /\ raised = 0 /\ reworks = 0

-----------------------------------------------------------------------------
(* Requests. *)

(* The commit takes effect or not, and may raise either way; what was asked *)
(* is remembered, or that the client was told of an error.                  *)
Ask(s, cs, what) == story' = s /\ item' = cs /\ did' = what
Raised == raised < MaxRaised /\ raised' = raised + 1

Edit == edits < MaxEdits /\ edits' = edits + 1 /\ UNCHANGED libraryRows

Committed(s, cs, what) ==
    /\ Edit
    /\ \/ Ask(s, cs, what) /\ UNCHANGED raised
       \/ Ask(story, item, "error") /\ Raised
       \/ Ask(s, cs, what) /\ Raised

(* create_story, split_story_item and duplicate_story_item look in another  *)
(* session for the rows a raising commit left, and answer with them; only   *)
(* where that fails too is the client told of an error that is none.        *)
Reconciled(s, cs, what) ==
    /\ Edit
    /\ \/ Ask(s, cs, what) /\ UNCHANGED raised
       \/ Ask(story, item, "failed") /\ Raised
       \/ Ask(s, cs, what) /\ Raised

CreateStory == ~story /\ Reconciled(TRUE, item, "edit")
DeleteStory == story /\ Committed(FALSE, << >>, "edit")

(* Faulty variant: behind the last start, not the last end. *)
BehindLastStart(t) == Max({0} \cup {item[i].start + Gap : i \in {k \in Items : item[k].track = t}})

(* add_item_to_story without a start: behind the last end on the track, or  *)
(* nowhere if some clip there has no length.                                *)
Behind(t) ==
    LET there == {item[i] : i \in {k \in Items : item[k].track = t}}
    IN  IF \E c \in there : ~HasLength(c) \/ ~ValidTimecode(c.start) THEN Nowhere
        ELSE IF there = {} THEN 0 ELSE Max({c.start + Effective(c) : c \in there}) + Gap

(* A generation that is in the Story already is answered with its clip.    *)
Add(g, t, start) ==
    LET at == IF start = Wherever THEN Behind(t) ELSE start
        new == [gen |-> g, pin |-> NoPin, start |-> at, track |-> t, head |-> 0, tail |-> 0]
    IN  /\ story /\ g \in ready /\ \A i \in Items : item[i].gen # g
        /\ Cardinality(Items) < MaxItems /\ ValidTimecode(at)
        /\ Committed(story, WithClip(FreshId, new), IF start = Wherever THEN "place" ELSE "edit")

(* move_story_item; remove_item_from_story; set_story_item_version, which   *)
(* asks that the version is there and never how long it is.                 *)
Move(i, start, t) ==
    /\ ValidTimecode(start)
    /\ Committed(story, [item EXCEPT ![i].start = start, ![i].track = t], "move")
RemoveItem(i) == Committed(story, Restrict(item, Items \ {i}), "edit")
SetVersion(i, v) ==
    /\ v \in {NoPin} \cup {w \in Versions : takes[item[i].gen][w] > 0}
    /\ Committed(story, [item EXCEPT ![i].pin = v], "version")

(* trim_story_item *)
Trim(i, head, tail) ==
    /\ {head, tail} \subseteq 0..ClipCap /\ head + tail < duration[item[i].gen]
    /\ Committed(story, [item EXCEPT ![i].head = head, ![i].tail = tail], "edit")

(* Faulty variant: the second piece is cut where the request says, whatever *)
(* is already cut away before it.                                           *)
SplitAtRequest(i, at) ==
    LET c == item[i]
    IN  /\ Cardinality(Items) < MaxItems /\ HasLength(c) /\ at \in 1..(Effective(c) - 1)
        /\ ValidTimecode(c.start + at)
        /\ Reconciled(story, [WithClip(FreshId, [c EXCEPT !.start = @ + at, !.head = at])
                              EXCEPT ![i].tail = duration[c.gen] - c.head - at], "split")

(* split_story_item.  A second start past the timeline is refused after the *)
(* first piece was cut in the session, which nobody commits.                *)
Split(i, at) ==
    LET c == item[i]
        whole == Effective(c) + c.head + c.tail
        cut == c.head + at
    IN  /\ Cardinality(Items) < MaxItems /\ HasLength(c) /\ at \in 1..(Effective(c) - 1) /\ at <= ClipCap
        /\ ValidTimecode(c.start) /\ ValidTimecode(c.start + at)
        /\ Reconciled(story, [WithClip(FreshId, [c EXCEPT !.start = @ + at, !.head = cut])
                              EXCEPT ![i].tail = whole - cut], "split")

(* duplicate_story_item *)
Duplicate(i) ==
    LET c == item[i]
        at == c.start + Effective(c) + Gap
    IN  /\ Cardinality(Items) < MaxItems /\ HasLength(c) /\ ValidTimecode(c.start) /\ ValidTimecode(at)
        /\ Reconciled(story, WithClip(FreshId, [c EXCEPT !.start = at]), "move")

(* update_story_item_times: all of the times or none. *)
SetTimes(times) ==
    /\ story /\ times # << >> /\ DOMAIN times \subseteq Items /\ \A i \in DOMAIN times : ValidTimecode(times[i])
    /\ Committed(story, [i \in Items |-> IF i \in DOMAIN times THEN [item[i] EXCEPT !.start = times[i]] ELSE item[i]],
                 "move")

(* reorder_story_items: every position is found before any row is touched.  *)
Positions(order) ==
    LET at[k \in 1..Len(order)] == IF k = 1 THEN 0 ELSE at[k - 1] + (Effective(item[order[k - 1]]) + Gap) IN at

Reorder(order) ==
    LET at == Positions(order)
        Fits(k) == LET long == Effective(item[order[k]]) IN long \in 1..ClipCap /\ at[k] + long <= Timeline
    IN  /\ story /\ order # << >> /\ Range(order) = Items /\ IsInjective(order)
        /\ \A k \in DOMAIN order : Fits(k)
        /\ Committed(story, [i \in Items |-> [item[i] EXCEPT !.start = at[CHOOSE k \in DOMAIN order : order[k] = i]]],
                     "reorder")

-----------------------------------------------------------------------------
(* What happens to the generations under the clips. *)
Reworked == did' = "library" /\ UNCHANGED <<story, item, edits>>
Measured(g, d) ==
    /\ duration' = [duration EXCEPT ![g] = d]
    /\ shrunk' = (shrunk \/ (d < duration[g] /\ \E i \in Items : item[i].gen = g))
Tagged == reworks < MaxReworks /\ reworks' = reworks + 1

(* A regeneration starts: until it ends the generation is not completed.   *)
(* One that fails leaves it so, and may be retried.                         *)
Rework(g) ==
    /\ g \in ready /\ ready' = ready \ {g} /\ Tagged
    /\ Reworked /\ UNCHANGED <<duration, public, takes, default, shrunk, raised>>

(* _save_retry: another public file, and its duration in the same commit;   *)
(* the next writes the status, and where it fails that stays as it was.     *)
Retried(g, d) ==
    /\ g \notin ready /\ Measured(g, d) /\ public' = [public EXCEPT ![g] = d]
    /\ \/ ready' = ready \cup {g} /\ UNCHANGED raised
       \/ Raised /\ UNCHANGED ready
    /\ Reworked /\ UNCHANGED <<takes, default, reworks>>

(* _save_regenerate: one commit makes the new take the default one; the     *)
(* next writes duration and status, and where it fails they stay as they    *)
(* were.                                                                    *)
Regenerated(g, v, d) ==
    /\ g \notin ready /\ takes[g][v] = 0
    /\ takes' = [takes EXCEPT ![g][v] = d] /\ public' = [public EXCEPT ![g] = d] /\ default' = [default EXCEPT ![g] = v]
    /\ \/ Measured(g, d) /\ ready' = ready \cup {g} /\ UNCHANGED raised
       \/ Raised /\ UNCHANGED <<duration, ready, shrunk>>
    /\ Reworked /\ UNCHANGED reworks

(* set_default_version: another public file, and the duration as it was.    *)
MakeDefault(g, v) ==
    /\ takes[g][v] > 0 /\ Tagged
    /\ default' = [default EXCEPT ![g] = v] /\ public' = [public EXCEPT ![g] = takes[g][v]]
    /\ Reworked /\ UNCHANGED <<duration, takes, ready, shrunk, raised>>

(* delete_version: never the last one, nor one that a clip is pinned to.    *)
(* Where it was the default, the oldest that remains is, whichever that is. *)
Pinned(g, v) == \E i \in Items : item[i].gen = g /\ item[i].pin = v
DropVersion(g, v, w) ==
    /\ takes[g][v] > 0 /\ w # v /\ takes[g][w] > 0 /\ ~Pinned(g, v) /\ Tagged
    /\ takes' = [takes EXCEPT ![g][v] = 0]
    /\ IF default[g] = v
       THEN default' = [default EXCEPT ![g] = w] /\ public' = [public EXCEPT ![g] = takes[g][w]]
       ELSE UNCHANGED <<default, public>>
    /\ Reworked /\ UNCHANGED <<duration, ready, shrunk, raised>>

(* What an export asks of the rows and of the files before it mixes: a      *)
(* story with clips, valid codes and trims, a version that is there, a file *)
(* that is not too long, trims that leave some of it, and an end within the *)
(* timeline.  The limits on all of the sources together and on the disk are *)
(* left to StoryMix and DiskReservations.                                   *)
EndsInTime(c) == c.start + Sounding(c) <= Timeline
Plays(c) ==
    /\ ValidTimecode(c.start) /\ {c.head, c.tail} \subseteq 0..ClipCap
    /\ Played(c) \in 1..ClipCap /\ Sounding(c) > 0 /\ EndsInTime(c)
Exportable == story /\ Items # {} /\ Cardinality(Items) <= MaxItems /\ \A i \in Items : Plays(item[i])

Orders == {o \in [1..Cardinality(Items) -> Items] : IsInjective(o)}

StoryTimelineNext ==
    \/ CreateStory \/ DeleteStory
    \/ \E g \in Generations, t \in Tracks, s \in Starts \cup {Wherever} : Add(g, t, s)
    \/ \E i \in Items : \/ RemoveItem(i) \/ Duplicate(i)
                        \/ \E s \in Starts, t \in Tracks : Move(i, s, t)
                        \/ \E v \in Versions \cup {NoPin} : SetVersion(i, v)
                        \/ \E h, l \in Cuts : Trim(i, h, l)
                        \/ \E at \in Cuts : Split(i, at)
    \/ \E ids \in SUBSET Items : \E times \in [ids -> Starts] : SetTimes(times)
    \/ \E o \in Orders : Reorder(o)
    \/ \E g \in Generations : \/ Rework(g)
                              \/ \E d \in Lengths : Retried(g, d) \/ \E v \in Versions : Regenerated(g, v, d)
                              \/ \E v \in Versions : MakeDefault(g, v) \/ \E w \in Versions : DropVersion(g, v, w)

-----------------------------------------------------------------------------
(* Properties. *)

(* Cutting a clip in two is not heard, on whatever track, version and part  *)
(* of the audio it plays; placing, moving, duplicating or reordering clips  *)
(* never changes what any of them plays; and where the commit of a create,  *)
(* a split or a duplicate is reported as failed, nothing has changed, so    *)
(* that asking again does not do it twice.  A split measures by             *)
(* generation.duration, so the first is said of the clips whose file has    *)
(* that length.                                                             *)
Part(c) == <<c.gen, c.pin, c.head, c.tail>>
EditsAreWhole ==
    [][edits' # edits =>
       /\ did' = "split" => HeardOf(item') = HeardOf(item)
       /\ did' \in {"place", "move", "reorder"} => \A i \in Items : Part(item'[i]) = Part(item[i])
       /\ did' = "failed" => UNCHANGED <<story, item>>]_storyVars

(* Where the program chooses the place, it is free: by the durations it     *)
(* knows, a clip added without a start overlaps nothing on its track, and   *)
(* reordered clips overlap nowhere.  A clip is never left with a version    *)
(* that is gone, whoever deletes or replaces takes.  And an export refuses  *)
(* no Story that was just reordered and none that was edited in any way,    *)
(* except for what no edit looks at: a file that is not as long as its      *)
(* generation's duration, a duration that fell under the cuts of a clip,    *)
(* and, but for a reorder, an end behind the end of the timeline.           *)
PlacesAreFree ==
    [][/\ (did' = "place" /\ edits' # edits) =>
              \A i \in DOMAIN item' \ Items, j \in Items : ~Collide(item'[i], item[j])
       /\ (did' = "reorder" /\ edits' # edits) =>
              \A i, j \in Items : i # j => ~Collide([item'[i] EXCEPT !.track = 0], [item'[j] EXCEPT !.track = 0])
       /\ \A i \in Items' : Played(item[i])' > 0
       /\ (/\ Items' # {} /\ \A i \in Items' : Agrees(item[i])'
           /\ \/ did' = "reorder" /\ edits' # edits
              \/ ~shrunk' /\ \A i \in Items' : EndsInTime(item[i])') => Exportable']_storyVars

(* Replacing a clip's version validates the resulting item and story limits *)
(* before it persists the change, says docs/developer/stories.mdx: it never *)
(* makes a Story that can be exported one that an export refuses.           *)
VersionsAreValidated == [][(did' = "version" /\ edits' # edits /\ Exportable) => Exportable']_storyVars

=============================================================================
