---------------------------- MODULE LibraryProofs ----------------------------
(* Theorems about Library, about RenderJobs, the jobs that render its takes *)
(* and stories, about StoryTimeline, the places of a story's clips, and     *)
(* about DeletionJournal, the deletions and publications of stored files:   *)
(* for any number of generations, clips, files, directories, intents and    *)
(* failures, any finite number of requests and any number of restarts.      *)
EXTENDS Library, RenderJobs, StoryTimeline, DeletionJournal, DataLemmas, FiniteSetTheorems, WellFoundedInduction, TLAPS

Known(g) == gen[g] # NoGeneration

CoreTypes ==
  /\ gen \in [Gens -> [st : {"absent", "generating", "completed", "failed"},
                       audio : Ids \cup {None}]]
  /\ ver \in [Ids -> Version \cup {None}]
  /\ files \subseteq Ids /\ unversioned \subseteq Ids
  /\ next \in 1..(MaxFiles + 1)

ClipTypes == clip \in [Clips -> [gen : Gens, pin : Ids \cup {None}] \cup {None}]

HandlerTypes ==
  /\ job \in [at : {"idle", "clean", "processed", "synth", "retry", "regenerate"},
              gen : Gens \cup {None}, old : Ids \cup {None}]
  /\ apply \in [gen : Gens \cup {None}, src : Ids \cup {None}]
  /\ slot \in {None, "job", "apply", "preview"}

(* Files have one kind of owner: the versions of one generation that share  *)
(* it, or one generation that plays a take without a version.               *)
OneOwner ==
  /\ \A g, h \in Gens : gen[g].audio = gen[h].audio /\ gen[g].audio # None => g = h
  /\ \A v, w \in Rows : ver[v].file = ver[w].file => ver[v].gen = ver[w].gen
  /\ \A g \in Gens, w \in Rows : gen[g].audio = ver[w].file => ver[w].gen = g
  /\ \A f \in unversioned : ver[f] = None /\ \A w \in Rows : ver[w].file # f

(* IDs are never used again. *)
NewIds == \A f \in Ids : f >= next => f \notin files /\ ver[f] = None /\ f \notin unversioned

OneDefault == \A v, w \in Rows : ver[v].gen = ver[w].gen /\ ver[v].dflt /\ ver[w].dflt => v = w

PublicAudio ==
  \A g \in Gens : gen[g].audio \in {None} \cup unversioned \cup {ver[v].file : v \in Defaults(g)}

VersionsResolve ==
  \A v \in Rows : /\ Known(ver[v].gen)
                  /\ ver[v].src # None => ver[v].src \in VersionsOf(ver[v].gen)

ClipsResolve ==
  \A c \in Clips : clip[c] # None =>
    /\ Known(clip[c].gen)
    /\ clip[c].pin # None => clip[c].pin \in VersionsOf(clip[c].gen)

CoreInv ==
  CoreTypes /\ AudioIsThere /\ OneOwner /\ NewIds /\ OneDefault /\ PublicAudio /\ VersionsResolve
  /\ OnlyUnversionedStray

(* The row of the job is not deleted under it. *)
HandlersInv ==
  /\ HandlerTypes
  /\ job # Idle => job.gen \in Gens /\ Known(job.gen)
  /\ slot = "apply" => apply.gen \in Gens

LibraryInv == CoreInv /\ ClipTypes /\ ClipsResolve /\ HandlersInv

LEMMA NextIsId == ASSUME CoreTypes, CanMake PROVE next \in Ids /\ next + 1 \in 1..(MaxFiles + 1)
BY FilesAssumption DEF CoreTypes, CanMake, Ids

LEMMA FirstIsIn == ASSUME NEW S \in SUBSET Ids, S # {} PROVE First(S) \in S
<1>1. IsWellFoundedOn(OpToRel(<, Nat), Nat)
  BY NatLessThanWellFounded
<1>2. S \subseteq Nat
  BY FilesAssumption DEF Ids
<1>3. \E v \in S : \A w \in S : ~(<<w, v>> \in OpToRel(<, Nat))
  BY <1>1, <1>2, WFMin
<1>4. \A v, w \in S : w < v => <<w, v>> \in OpToRel(<, Nat)
  BY <1>2 DEF OpToRel
<1>5. \E v \in S : \A w \in S : v <= w
  <2>1. PICK v \in S : \A w \in S : ~(<<w, v>> \in OpToRel(<, Nat))
    BY <1>3
  <2>2. \A w \in S : ~(w < v)
    BY <1>4, <2>1
  <2>3. v \in Nat /\ \A w \in S : w \in Nat
    BY <1>2
  <2> QED
    BY <2>2, <2>3
<1> QED
  BY <1>5 DEF First

LEMMA VersionFacts ==
    ASSUME CoreTypes
    PROVE  /\ \A v \in Rows : /\ ver[v] \in Version /\ v \in Ids /\ ver[v].gen \in Gens /\ ver[v].file \in Ids
                              /\ ver[v].fx \in BOOLEAN /\ ver[v].dflt \in BOOLEAN /\ ver[v].src \in Ids \cup {None}
           /\ \A g : VersionsOf(g) \subseteq Ids /\ VersionsOf(g) \subseteq Rows
           /\ None \notin Ids /\ None \notin Version
BY RowAssumption, NoneAssumption DEF CoreTypes, Rows, Version, VersionsOf, Ids

LEMMA CoreInvInit == LibraryInit => CoreInv
<1> SUFFICES ASSUME LibraryInit PROVE CoreInv
  OBVIOUS
<1>1. clip = [c \in Clips |-> None] /\ unversioned = {}
  BY DEF LibraryInit
<1>2. CASE /\ gen = [g \in Gens |-> NoGeneration]
           /\ ver = [v \in Ids |-> None] /\ files = {} /\ next = 1
  <2>1. CoreTypes /\ Rows = {}
    BY <1>1, <1>2, FilesAssumption DEF CoreTypes, NoGeneration, Rows
  <2> QED
    BY <1>1, <1>2, <2>1 DEF CoreInv, AudioIsThere, OneOwner, NewIds, OneDefault, PublicAudio, VersionsResolve,
       OnlyUnversionedStray, NoGeneration
<1>3. ASSUME NEW g \in Gens,
             gen = [h \in Gens |-> IF h = g THEN [st |-> "completed", audio |-> 1] ELSE NoGeneration],
             ver = [v \in Ids |-> IF v \in {1, 2}
                      THEN [gen |-> g, file |-> 1, fx |-> FALSE, dflt |-> v = 1, src |-> None]
                      ELSE None],
             files = {1}, next = 3
      PROVE  CoreInv
  <2>1. 1 \in Ids /\ 2 \in Ids /\ None \notin Ids
    BY FilesAssumption, NoneAssumption DEF Ids
  <2>2. /\ ver[1] = [gen |-> g, file |-> 1, fx |-> FALSE, dflt |-> TRUE, src |-> None]
        /\ ver[2] = [gen |-> g, file |-> 1, fx |-> FALSE, dflt |-> FALSE, src |-> None]
        /\ \A v \in Ids \ {1, 2} : ver[v] = None
    <3>1. \A v \in {1, 2} : v \in Ids
      BY <2>1
    <3>2. \A v \in Ids : ver[v] = IF v \in {1, 2}
              THEN [gen |-> g, file |-> 1, fx |-> FALSE, dflt |-> v = 1, src |-> None] ELSE None
      BY <1>3
    <3>3. (1 = 1) = TRUE /\ (2 = 1) = FALSE
      OBVIOUS
    <3> QED
      BY <3>1, <3>2, <3>3
  <2>3. ver[1] \in Version /\ ver[2] \in Version
    BY <2>1, <2>2 DEF Version
  <2>4. Rows = {1, 2}
    BY <2>1, <2>2, <2>3, RowAssumption DEF Rows
  <2>5. /\ gen[g] = [st |-> "completed", audio |-> 1]
        /\ \A h \in Gens \ {g} : gen[h] = [st |-> "absent", audio |-> None]
    BY <1>3 DEF NoGeneration
  <2>6. CoreTypes
    <3>1. gen \in [Gens -> [st : {"absent", "generating", "completed", "failed"}, audio : Ids \cup {None}]]
      BY <1>3, <2>1 DEF NoGeneration
    <3>2. ver \in [Ids -> Version \cup {None}]
      BY <1>3, <2>2, <2>3
    <3>3. next \in 1..(MaxFiles + 1)
      BY <1>3, FilesAssumption
    <3> QED
      BY <1>1, <1>3, <2>1, <3>1, <3>2, <3>3 DEF CoreTypes
  <2>7. AudioIsThere /\ OneOwner /\ OneDefault
    BY <1>1, <1>3, <2>1, <2>2, <2>4, <2>5 DEF AudioIsThere, OneOwner, OneDefault
  <2>8. VersionsResolve
    BY <2>2, <2>4, <2>5 DEF VersionsResolve, Known, NoGeneration
  <2>9. NewIds
    BY <1>1, <1>3, <2>2 DEF NewIds, Ids
  <2>10. PublicAudio
    <3>1. 1 \in Defaults(g)
      BY <2>2, <2>4 DEF Defaults, VersionsOf
    <3> QED
      BY <2>2, <2>5, <3>1 DEF PublicAudio
  <2>11. OnlyUnversionedStray
    BY <1>3, <2>5 DEF OnlyUnversionedStray
  <2> QED
    BY <2>6, <2>7, <2>8, <2>9, <2>10, <2>11 DEF CoreInv
<1> QED
  BY <1>2, <1>3 DEF LibraryInit

-----------------------------------------------------------------------------
(* The changes that the handlers are made of. *)

LEMMA SameAudio ==
    ASSUME CoreInv, CoreTypes', UNCHANGED <<ver, files, next, unversioned>>,
           \A g \in Gens : gen'[g].audio = gen[g].audio, \A g \in Gens : Known(g) => Known(g)'
    PROVE  CoreInv'
<1>1. Rows' = Rows /\ (\A g : VersionsOf(g)' = VersionsOf(g)) /\ (\A g : Defaults(g)' = Defaults(g))
  BY DEF Rows, VersionsOf, Defaults
<1>2. \A v \in Rows : ver[v].gen \in Gens
  BY VersionFacts DEF CoreInv
<1>3. AudioIsThere' /\ OneOwner' /\ NewIds' /\ OneDefault'
  BY <1>1 DEF CoreInv, AudioIsThere, OneOwner, NewIds, OneDefault
<1>4. PublicAudio'
  BY <1>1 DEF CoreInv, PublicAudio
<1>5. VersionsResolve'
  BY <1>1, <1>2 DEF CoreInv, VersionsResolve
<1>6. OnlyUnversionedStray'
  BY <1>1 DEF CoreInv, OnlyUnversionedStray
<1> QED
  BY <1>3, <1>4, <1>5, <1>6 DEF CoreInv

(* A version row more: the fields of the others, and of itself. *)
LEMMA AddedVersion ==
    ASSUME CoreInv, NEW g \in Gens, NEW fx \in BOOLEAN, NEW dflt \in BOOLEAN, NEW src \in Ids \cup {None}, CanMake,
           ver' = AddVersion(g, next, fx, dflt, src)
    PROVE  /\ ver' \in [Ids -> Version \cup {None}] /\ next \in Ids /\ next \notin Rows
           /\ Rows' = Rows \cup {next}
           /\ ver'[next] = [gen |-> g, file |-> next, fx |-> fx, dflt |-> dflt, src |-> src]
           /\ \A v \in Rows : /\ ver'[v].gen = ver[v].gen /\ ver'[v].file = ver[v].file /\ ver'[v].src = ver[v].src
                              /\ (ver'[v].dflt <=> ver[v].dflt /\ ~(dflt /\ ver[v].gen = g))
           /\ \A v \in Ids : v \notin Rows /\ v # next => ver'[v] = None
<1>1. next \in Ids /\ ver[next] = None /\ CoreTypes
  BY NextIsId, FilesAssumption DEF CoreInv, NewIds, Ids
<1>2. [gen |-> g, file |-> next, fx |-> fx, dflt |-> dflt, src |-> src] \in Version
  BY <1>1 DEF Version
<1>3. ver'[next] = [gen |-> g, file |-> next, fx |-> fx, dflt |-> dflt, src |-> src]
  BY <1>1 DEF AddVersion
<1>4. ASSUME NEW v \in Rows
      PROVE  /\ v # next /\ ver'[v] \in Version
             /\ ver'[v].gen = ver[v].gen /\ ver'[v].file = ver[v].file /\ ver'[v].src = ver[v].src
             /\ (ver'[v].dflt <=> ver[v].dflt /\ ~(dflt /\ ver[v].gen = g))
  <2>1. v # next /\ v \in Ids /\ ver[v] \in Version
    BY <1>1, VersionFacts DEF Rows
  <2>2. ver'[v] = IF dflt /\ v \in VersionsOf(g) THEN [ver[v] EXCEPT !.dflt = FALSE] ELSE ver[v]
    BY <2>1 DEF AddVersion
  <2>3. v \in VersionsOf(g) <=> ver[v].gen = g
    BY DEF VersionsOf
  <2> QED
    BY <2>1, <2>2, <2>3 DEF Version
<1>5. ASSUME NEW v \in Ids, v \notin Rows, v # next PROVE ver'[v] = None
  BY <1>5 DEF AddVersion, Rows, VersionsOf
<1>6. ver' \in [Ids -> Version \cup {None}]
  <2>1. \A v \in Ids : ver'[v] \in Version \cup {None}
    BY <1>2, <1>3, <1>4, <1>5
  <2> QED
    BY <2>1 DEF AddVersion
<1>7. Rows' = Rows \cup {next}
  <2>1. \A v \in Ids : ver'[v] # None <=> v \in Rows \/ v = next
    BY <1>2, <1>3, <1>4, <1>5, RowAssumption
  <2> QED
    BY <1>1, <2>1 DEF Rows
<1> QED
  BY <1>1, <1>3, <1>4, <1>5, <1>6, <1>7 DEF Rows

LEMMA NewVersion ==
    ASSUME CoreInv, CoreTypes', NEW g \in Gens, NEW fx \in BOOLEAN, NEW dflt \in BOOLEAN,
           NEW src \in Ids \cup {None}, CanMake, Known(g), src # None => src \in VersionsOf(g),
           ver' = AddVersion(g, next, fx, dflt, src), files' = files \cup {next}, next' = next + 1,
           unversioned' = unversioned, gen'[g].audio = IF dflt THEN next ELSE gen[g].audio,
           \A h \in Gens \ {g} : gen'[h].audio = gen[h].audio, \A h \in Gens : Known(h) => Known(h)'
    PROVE  CoreInv'
<1>1. /\ next \in Ids /\ next \notin Rows
      /\ Rows' = Rows \cup {next}
      /\ ver'[next] = [gen |-> g, file |-> next, fx |-> fx, dflt |-> dflt, src |-> src]
      /\ \A v \in Rows : /\ ver'[v].gen = ver[v].gen /\ ver'[v].file = ver[v].file /\ ver'[v].src = ver[v].src
                         /\ (ver'[v].dflt <=> ver[v].dflt /\ ~(dflt /\ ver[v].gen = g))
      /\ \A v \in Ids : v \notin Rows /\ v # next => ver'[v] = None
  BY AddedVersion
<1>2. next \notin files /\ next \notin unversioned /\ ver[next] = None /\ None # next
  BY <1>1, FilesAssumption, NoneAssumption DEF CoreInv, NewIds, Ids
<1>3. /\ \A v \in Rows : ver[v].file # next /\ ver[v].gen \in Gens
      /\ \A h \in Gens : gen[h].audio # next
  BY <1>2, VersionFacts DEF CoreInv, AudioIsThere
<1>4. AudioIsThere'
  BY <1>1 DEF CoreInv, AudioIsThere
<1>5. OneOwner'
  <2>1. \A f, h \in Gens : gen'[f].audio = gen'[h].audio /\ gen'[f].audio # None => f = h
    BY <1>3 DEF CoreInv, OneOwner
  <2>2. \A v, w \in Rows' : ver'[v].file = ver'[w].file => ver'[v].gen = ver'[w].gen
    BY <1>1, <1>3 DEF CoreInv, OneOwner
  <2>3. \A h \in Gens, w \in Rows' : gen'[h].audio = ver'[w].file => ver'[w].gen = h
    BY <1>1, <1>3 DEF CoreInv, OneOwner
  <2>4. \A f \in unversioned' : ver'[f] = None /\ \A w \in Rows' : ver'[w].file # f
    BY <1>1, <1>2 DEF CoreInv, CoreTypes, OneOwner, Rows
  <2> QED
    BY <2>1, <2>2, <2>3, <2>4 DEF OneOwner
<1>6. NewIds'
  <2> SUFFICES ASSUME NEW f \in Ids, f >= next' PROVE f \notin files' /\ ver'[f] = None /\ f \notin unversioned'
    BY DEF NewIds
  <2>1. f >= next /\ f # next
    BY <1>1, FilesAssumption DEF Ids
  <2>2. f \notin files /\ f \notin Rows /\ f \notin unversioned
    BY <2>1 DEF CoreInv, NewIds, Rows
  <2> QED
    BY <1>1, <2>1, <2>2
<1>7. OneDefault'
  BY <1>1 DEF CoreInv, OneDefault
<1>8. PublicAudio'
  <2> SUFFICES ASSUME NEW h \in Gens, gen'[h].audio # None, gen'[h].audio \notin unversioned
               PROVE  \E v \in Rows' : ver'[v].gen = h /\ ver'[v].dflt /\ ver'[v].file = gen'[h].audio
    BY DEF PublicAudio, Defaults, VersionsOf
  <2>1. CASE h = g /\ dflt
    <3>1. gen'[h].audio = next /\ next \in Rows'
      BY <1>1, <2>1
    <3>2. ver'[next].gen = h /\ ver'[next].dflt /\ ver'[next].file = next
      BY <1>1, <2>1
    <3> QED
      BY <3>1, <3>2
  <2>2. CASE ~(h = g /\ dflt)
    <3>1. gen'[h].audio = gen[h].audio
      BY <2>2
    <3>2. PICK v \in Rows : ver[v].gen = h /\ ver[v].dflt /\ ver[v].file = gen[h].audio
      BY <3>1 DEF CoreInv, PublicAudio, Defaults, VersionsOf
    <3> QED
      BY <1>1, <2>2, <3>1, <3>2
  <2> QED
    BY <2>1, <2>2
<1>9. VersionsResolve'
  <2> SUFFICES ASSUME NEW v \in Rows'
               PROVE  /\ Known(ver[v].gen)'
                      /\ ver'[v].src # None => ver'[v].src \in Rows' /\ ver'[ver'[v].src].gen = ver'[v].gen
    BY DEF VersionsResolve, VersionsOf
  <2>1. CASE v = next
    BY <1>1, <2>1 DEF VersionsOf, Known
  <2>2. CASE v # next
    <3>1. v \in Rows /\ ver[v].gen \in Gens
      BY <1>1, <1>3, <2>2
    <3>2. Known(ver[v].gen) /\ (ver[v].src # None => ver[v].src \in Rows /\ ver[ver[v].src].gen = ver[v].gen)
      BY <3>1 DEF CoreInv, VersionsResolve, VersionsOf
    <3> QED
      BY <1>1, <3>1, <3>2 DEF Known
  <2> QED
    BY <2>1, <2>2
<1>10. OnlyUnversionedStray'
  <2> SUFFICES ASSUME NEW f \in files', f \notin unversioned, \A h \in Gens : gen'[h].audio # f,
                      \A v \in Rows' : ver'[v].file # f
               PROVE  FALSE
    BY DEF OnlyUnversionedStray
  <2>1. f # next
    BY <1>1
  <2>2. \A v \in Rows : ver[v].file # f
    BY <1>1
  <2>3. \A h \in Gens : gen[h].audio # f
    <3>1. CASE gen[g].audio = f
      <4>1. gen[g].audio # None
        BY <2>1, <3>1, NoneAssumption, FilesAssumption DEF CoreInv, CoreTypes, Ids
      <4> QED
        BY <2>2, <3>1, <4>1 DEF CoreInv, PublicAudio, Defaults, VersionsOf
    <3> QED
      BY <3>1
  <2> QED
    BY <2>1, <2>2, <2>3 DEF CoreInv, OnlyUnversionedStray
<1> QED
  BY <1>4, <1>5, <1>6, <1>7, <1>8, <1>9, <1>10 DEF CoreInv

(* A take without a version; what nobody else needs of the files in D goes. *)
LEMMA NewTake ==
    ASSUME CoreInv, CoreTypes', NEW g \in Gens, CanMake, NEW D,
           \A f \in D : (\A v \in Rows : ver[v].file # f) /\ \A h \in Gens \ {g} : gen[h].audio # f,
           ver' = ver, files' = (files \ D) \cup {next}, next' = next + 1, unversioned' = unversioned \cup {next},
           gen'[g].audio = next, \A h \in Gens \ {g} : gen'[h].audio = gen[h].audio,
           \A h \in Gens : Known(h) => Known(h)'
    PROVE  CoreInv'
<1>1. /\ next \in Ids /\ next \notin files /\ ver[next] = None /\ next \notin unversioned
      /\ Rows' = Rows /\ (\A h : Defaults(h)' = Defaults(h)) /\ (\A h : VersionsOf(h)' = VersionsOf(h))
  BY NextIsId, FilesAssumption DEF CoreInv, NewIds, Ids, Rows, Defaults, VersionsOf
<1>2. /\ \A v \in Rows : ver[v].file # next /\ ver[v].gen \in Gens
      /\ \A h \in Gens : gen[h].audio # next
  BY <1>1, VersionFacts, NoneAssumption, FilesAssumption DEF CoreInv, AudioIsThere, Ids
<1>3. AudioIsThere' /\ OneOwner' /\ OneDefault' /\ PublicAudio'
  BY <1>1, <1>2 DEF CoreInv, AudioIsThere, OneOwner, OneDefault, PublicAudio
<1>4. NewIds'
  BY <1>1, FilesAssumption DEF CoreInv, CoreTypes, NewIds, Ids
<1>5. VersionsResolve'
  BY <1>1, <1>2 DEF CoreInv, VersionsResolve, Known
<1>6. OnlyUnversionedStray'
  <2> SUFFICES ASSUME NEW f \in files', f \notin unversioned', \A h \in Gens : gen'[h].audio # f,
                      \A v \in Rows : ver[v].file # f
               PROVE  FALSE
    BY <1>1 DEF OnlyUnversionedStray
  <2>1. f \in files /\ f \in Ids /\ f \notin unversioned
    BY DEF CoreInv, CoreTypes
  <2>2. \A h \in Gens : gen[h].audio # f
    <3>1. gen[g].audio # f
      BY <2>1, NoneAssumption, FilesAssumption DEF CoreInv, PublicAudio, Defaults, VersionsOf, Ids
    <3> QED
      BY <3>1
  <2> QED
    BY <2>1, <2>2 DEF CoreInv, OnlyUnversionedStray
<1> QED
  BY <1>3, <1>4, <1>5, <1>6 DEF CoreInv

LEMMA ClipsKept ==
    ASSUME ClipTypes, ClipsResolve, UNCHANGED clip, \A g \in Gens : Known(g) => Known(g)',
           \A g \in Gens : VersionsOf(g) \subseteq VersionsOf(g)'
    PROVE  ClipTypes' /\ ClipsResolve'
<1>1. ClipTypes'
  BY DEF ClipTypes
<1>2. ASSUME NEW c \in Clips, clip[c] # None
      PROVE  Known(clip[c].gen)' /\ (clip[c].pin # None => clip[c].pin \in VersionsOf(clip[c].gen)')
  <2>1. clip[c].gen \in Gens
    BY <1>2 DEF ClipTypes
  <2> QED
    BY <1>2, <2>1 DEF ClipsResolve
<1> QED
  BY <1>1, <1>2 DEF ClipsResolve

-----------------------------------------------------------------------------
(* Choosing and deleting versions. *)

(* The versions in gone go, the others keep what they name; the files in D  *)
(* go, which nobody names any more.                                         *)
Drop(gone, D) ==
  /\ gone \in SUBSET Rows /\ Rows' = Rows \ gone /\ \A w \in Ids : w \notin Rows \ gone => ver'[w] = None
  /\ \A w \in Rows \ gone : /\ ver'[w].gen = ver[w].gen /\ ver'[w].file = ver[w].file /\ ver'[w].src = ver[w].src
                            /\ ver[w].src # None => ver[w].src \notin gone
                            /\ gen'[ver[w].gen] # NoGeneration
  /\ files' = files \ D /\ UNCHANGED <<next, unversioned>>
  /\ \A f \in D : (\A w \in Rows \ gone : ver[w].file # f) /\ \A h \in Gens : gen'[h].audio # f
  /\ \A v \in gone : \/ ver[v].file \in D
                     \/ \E w \in Rows \ gone : ver[w].file = ver[v].file
                     \/ \E h \in Gens : gen'[h].audio = ver[v].file
  /\ \A h \in Gens : \/ gen'[h].audio \in {None, gen[h].audio}
                     \/ \E w \in Rows \ gone : ver[w].gen = h /\ gen'[h].audio = ver[w].file

LEMMA Dropped ==
    ASSUME CoreInv, CoreTypes', NEW gone, NEW D, Drop(gone, D), OneDefault', PublicAudio'
    PROVE  CoreInv'
<1> USE DEF Drop
<1>1. /\ \A w \in Rows : w \in Ids /\ ver[w].gen \in Gens /\ ver[w].file \in Ids
      /\ None \notin Ids
  BY VersionFacts DEF CoreInv
<1>2. AudioIsThere'
  BY <1>1 DEF CoreInv, AudioIsThere
<1>3. OneOwner'
  <2>1. \A f, h \in Gens : gen'[f].audio = gen'[h].audio /\ gen'[f].audio # None => f = h
    BY <1>1 DEF CoreInv, OneOwner
  <2>2. \A v, w \in Rows' : ver'[v].file = ver'[w].file => ver'[v].gen = ver'[w].gen
    BY DEF CoreInv, OneOwner
  <2>3. \A h \in Gens, w \in Rows' : gen'[h].audio = ver'[w].file => ver'[w].gen = h
    BY <1>1 DEF CoreInv, OneOwner
  <2>4. \A f \in unversioned' : ver'[f] = None /\ \A w \in Rows' : ver'[w].file # f
    BY DEF CoreInv, CoreTypes, OneOwner, Rows
  <2> QED
    BY <2>1, <2>2, <2>3, <2>4 DEF OneOwner
<1>4. NewIds'
  BY DEF CoreInv, NewIds, Rows
<1>5. VersionsResolve'
  <2> SUFFICES ASSUME NEW w \in Rows \ gone
               PROVE  gen'[ver[w].gen] # NoGeneration /\ (ver[w].src # None => ver[w].src \in Rows \ gone /\ ver[ver[w].src].gen = ver[w].gen)
    BY DEF VersionsResolve, VersionsOf, Known
  <2> QED
    BY DEF CoreInv, VersionsResolve, VersionsOf
<1>6. OnlyUnversionedStray'
  <2> SUFFICES ASSUME NEW f \in files \ D, f \notin unversioned, \A h \in Gens : gen'[h].audio # f,
                      \A w \in Rows \ gone : ver[w].file # f
               PROVE  FALSE
    BY DEF OnlyUnversionedStray
  <2>1. f # None
    BY <1>1 DEF CoreInv, CoreTypes
  <2>2. \A w \in Rows : ver[w].file # f
    OBVIOUS
  <2>3. \A h \in Gens : gen[h].audio # f
    BY <2>1, <2>2 DEF CoreInv, PublicAudio, Defaults, VersionsOf
  <2> QED
    BY <2>2, <2>3 DEF CoreInv, OnlyUnversionedStray
<1> QED
  BY <1>2, <1>3, <1>4, <1>5, <1>6 DEF CoreInv

(* The default of g becomes heir, which is what g then plays. *)
Inherited(gone, g, heir) ==
  /\ gone \in SUBSET Rows /\ g \in Gens /\ heir \in Rows \ gone /\ ver[heir].gen = g
  /\ Rows' = Rows \ gone /\ \A w \in Rows \ gone : ver'[w].gen = ver[w].gen /\ ver'[w].file = ver[w].file
  /\ \A w \in Rows \ gone : ver'[w].dflt <=> IF ver[w].gen = g THEN w = heir ELSE ver[w].dflt
  /\ \A v \in gone : ver[v].gen = g
  /\ gen'[g].audio = ver[heir].file
  /\ \A h \in Gens \ {g} : gen'[h].audio = gen[h].audio
  /\ UNCHANGED unversioned

LEMMA Redefault ==
    ASSUME CoreInv, NEW gone, NEW g, NEW heir, Inherited(gone, g, heir)
    PROVE  OneDefault' /\ PublicAudio'
<1> USE DEF Inherited
<1>1. OneDefault'
  BY DEF CoreInv, OneDefault
<1>2. PublicAudio'
  <2> SUFFICES ASSUME NEW h \in Gens, gen'[h].audio # None, gen'[h].audio \notin unversioned
               PROVE  \E w \in Rows' : ver'[w].gen = h /\ ver'[w].dflt /\ ver'[w].file = gen'[h].audio
    BY DEF PublicAudio, Defaults, VersionsOf
  <2>1. CASE h = g
    BY <2>1
  <2>2. CASE h # g
    <3>1. PICK w \in Rows : ver[w].gen = h /\ ver[w].dflt /\ ver[w].file = gen[h].audio
      BY <2>2 DEF CoreInv, PublicAudio, Defaults, VersionsOf
    <3>2. w \in Rows \ gone
      BY <2>2, <3>1
    <3> QED
      BY <2>2, <3>1, <3>2
  <2> QED
    BY <2>1, <2>2
<1> QED
  BY <1>1, <1>2

(* Versions go that are nobody's default, or whose generation goes too. *)
Left(gone) ==
  /\ gone \in SUBSET Rows /\ Rows' = Rows \ gone
  /\ \A w \in Rows \ gone : ver'[w].gen = ver[w].gen /\ ver'[w].file = ver[w].file
  /\ \A w \in Rows \ gone : ver'[w].dflt <=> ver[w].dflt
  /\ \A h \in Gens : gen'[h].audio \in {None, gen[h].audio}
  /\ \A v \in gone : ver[v].dflt => gen'[ver[v].gen].audio = None
  /\ UNCHANGED unversioned

LEMMA SameDefault == ASSUME CoreInv, NEW gone, Left(gone)
    PROVE  OneDefault' /\ PublicAudio'
<1> USE DEF Left
<1>1. OneDefault'
  BY DEF CoreInv, OneDefault
<1>2. PublicAudio'
  <2> SUFFICES ASSUME NEW h \in Gens, gen'[h].audio # None, gen'[h].audio \notin unversioned
               PROVE  \E w \in Rows' : ver'[w].gen = h /\ ver'[w].dflt /\ ver'[w].file = gen'[h].audio
    BY DEF PublicAudio, Defaults, VersionsOf
  <2>1. gen'[h].audio = gen[h].audio
    OBVIOUS
  <2>2. PICK w \in Rows : ver[w].gen = h /\ ver[w].dflt /\ ver[w].file = gen[h].audio
    BY <2>1 DEF CoreInv, PublicAudio, Defaults, VersionsOf
  <2>3. w \in Rows \ gone
    BY <2>2
  <2> QED
    BY <2>1, <2>2, <2>3
<1> QED
  BY <1>1, <1>2

(* What is written to the version rows by SetDefault and DeleteVersion. *)
Written(gone, M, heir) ==
  ver' = [w \in Ids |-> IF w \in gone THEN None
                        ELSE IF w \in M THEN [ver[w] EXCEPT !.dflt = w = heir]
                        ELSE ver[w]]

LEMMA FlagsMoved ==
    ASSUME CoreTypes, NEW gone \in SUBSET Rows, NEW M \in SUBSET Rows, NEW heir, Written(gone, M, heir)
    PROVE  /\ ver' \in [Ids -> Version \cup {None}] /\ Rows' = Rows \ gone
           /\ \A w \in Ids : w \notin Rows \ gone => ver'[w] = None
           /\ \A w \in Rows \ gone : /\ ver'[w].gen = ver[w].gen /\ ver'[w].file = ver[w].file
                                     /\ ver'[w].src = ver[w].src
                                     /\ (ver'[w].dflt <=> IF w \in M THEN w = heir ELSE ver[w].dflt)
<1>1. ASSUME NEW w \in Rows \ gone
      PROVE  /\ ver'[w] \in Version /\ ver'[w].gen = ver[w].gen /\ ver'[w].file = ver[w].file
             /\ ver'[w].src = ver[w].src
             /\ (ver'[w].dflt <=> IF w \in M THEN w = heir ELSE ver[w].dflt)
  <2>1. w \in Ids /\ ver[w] \in Version
    BY VersionFacts
  <2>2. ver'[w] = IF w \in M THEN [ver[w] EXCEPT !.dflt = w = heir] ELSE ver[w]
    BY <2>1 DEF Written
  <2> QED
    BY <2>1, <2>2 DEF Version
<1>2. ASSUME NEW w \in Ids, w \notin Rows \ gone PROVE ver'[w] = None
  BY <1>2 DEF Rows, VersionsOf, Written
<1>3. Rows' = Rows \ gone
  <2>1. \A w \in Ids : ver'[w] # None <=> w \in Rows \ gone
    BY <1>1, <1>2, RowAssumption
  <2> QED
    BY <2>1 DEF Rows
<1>4. \A w \in Ids : ver'[w] \in Version \cup {None}
  BY <1>1, <1>2
<1>5. ver' \in [Ids -> Version \cup {None}]
  BY <1>4 DEF Written
<1> QED
  BY <1>1, <1>2, <1>3, <1>5

LEMMA SetDefaultKeeps == ASSUME LibraryInv, NEW v \in Ids, SetDefault(v) PROVE LibraryInv'
<1>1. /\ v \in Rows /\ CoreInv /\ CoreTypes /\ UNCHANGED <<clip, files, next, job, apply, slot, unversioned>>
  BY DEF SetDefault, LibraryInv, CoreInv
<1>2. PICK g \in Gens : g = ver[v].gen
  BY <1>1, VersionFacts
<1>3. ver[v].file \in Ids /\ None \notin Ids
  BY <1>1, VersionFacts
<1>4. /\ ver' \in [Ids -> Version \cup {None}] /\ Rows' = Rows
      /\ \A w \in Ids : w \notin Rows => ver'[w] = None
      /\ \A w \in Rows : /\ ver'[w].gen = ver[w].gen /\ ver'[w].file = ver[w].file
                         /\ ver'[w].src = ver[w].src
                         /\ (ver'[w].dflt <=> IF ver[w].gen = g THEN w = v ELSE ver[w].dflt)
  <2>1. ver' = [w \in Ids |-> IF w \in VersionsOf(g) THEN [ver[w] EXCEPT !.dflt = w = v] ELSE ver[w]]
    BY <1>2 DEF SetDefault
  <2>2. Written({}, VersionsOf(g), v)
    BY <2>1 DEF Written
  <2>3. {} \in SUBSET Rows /\ Rows \ {} = Rows /\ VersionsOf(g) \in SUBSET Rows
    BY DEF VersionsOf
  <2>4. /\ ver' \in [Ids -> Version \cup {None}] /\ Rows' = Rows \ {}
        /\ \A w \in Ids : w \notin Rows \ {} => ver'[w] = None
        /\ \A w \in Rows \ {} : /\ ver'[w].gen = ver[w].gen /\ ver'[w].file = ver[w].file
                                /\ ver'[w].src = ver[w].src
                                /\ (ver'[w].dflt <=> IF w \in VersionsOf(g) THEN w = v ELSE ver[w].dflt)
    <3>1. PICK gone \in SUBSET Rows, M \in SUBSET Rows : gone = {} /\ M = VersionsOf(g)
      BY DEF VersionsOf
    <3>2. Written(gone, M, v)
      BY <2>2, <3>1
    <3>3. /\ ver' \in [Ids -> Version \cup {None}] /\ Rows' = Rows \ gone
          /\ \A w \in Ids : w \notin Rows \ gone => ver'[w] = None
          /\ \A w \in Rows \ gone : /\ ver'[w].gen = ver[w].gen /\ ver'[w].file = ver[w].file
                                    /\ ver'[w].src = ver[w].src
                                    /\ (ver'[w].dflt <=> IF w \in M THEN w = v ELSE ver[w].dflt)
      BY <1>1, <3>2, FlagsMoved
    <3> QED
      BY <3>1, <3>3
  <2>5. \A w \in Rows : w \in VersionsOf(g) <=> ver[w].gen = g
    BY DEF VersionsOf
  <2> QED
    BY <2>3, <2>4, <2>5
<1>5. /\ gen'[g].audio = ver[v].file /\ \A h \in Gens \ {g} : gen'[h] = gen[h]
      /\ gen' \in [Gens -> [st : {"absent", "generating", "completed", "failed"}, audio : Ids \cup {None}]]
  BY <1>1, <1>2, <1>3 DEF SetDefault, CoreTypes
<1>6. CoreTypes'
  BY <1>1, <1>4, <1>5 DEF CoreTypes
<1>7. \A h \in Gens : Known(h) => Known(h)'
  BY <1>3, <1>5 DEF Known, NoGeneration
<1>8. \A w \in Rows : gen'[ver[w].gen] # NoGeneration
  BY <1>1, <1>4, <1>7, VersionFacts DEF CoreInv, VersionsResolve, Known
<1>9. {} \in SUBSET Rows /\ Rows \ {} = Rows /\ files \ {} = files
  OBVIOUS
<1>10. OneDefault' /\ PublicAudio'
  <2>1. Inherited({}, g, v)
    BY <1>1, <1>2, <1>4, <1>5, <1>9 DEF Inherited
  <2> QED
    BY <1>1, <2>1, Redefault
<1>11. CoreInv'
  <2>1. Drop({}, {})
    BY <1>1, <1>2, <1>4, <1>5, <1>8, <1>9 DEF Drop
  <2> QED
    BY <1>1, <1>6, <1>10, <2>1, Dropped
<1>12. \A h \in Gens : VersionsOf(h)' = VersionsOf(h)
  BY <1>4 DEF VersionsOf
<1>13. ClipTypes' /\ ClipsResolve'
  BY <1>1, <1>7, <1>12, ClipsKept DEF LibraryInv
<1>14. HandlersInv'
  BY <1>1, <1>7 DEF LibraryInv, HandlersInv, HandlerTypes
<1> QED
  BY <1>11, <1>13, <1>14 DEF LibraryInv

LEMMA DeleteVersionKeeps == ASSUME LibraryInv, NEW v \in Ids, DeleteVersion(v) PROVE LibraryInv'
<1>1. v \in Rows /\ Deletable(v) /\ CoreInv /\ CoreTypes /\ UNCHANGED <<clip, next, job, apply, slot, unversioned>>
  BY DEF DeleteVersion, LibraryInv, CoreInv
<1>2. PICK g \in Gens : g = ver[v].gen
  BY <1>1, VersionFacts
<1>3. PICK heir \in Rows : heir # v /\ ver[heir].gen = g /\ heir = First(VersionsOf(g) \ {v})
  <2>1. VersionsOf(g) \ {v} \in SUBSET Ids /\ VersionsOf(g) \ {v} # {}
    BY <1>1, <1>2, VersionFacts DEF DeleteVersion
  <2>2. First(VersionsOf(g) \ {v}) \in VersionsOf(g) \ {v}
    BY <2>1, FirstIsIn
  <2> QED
    BY <2>2 DEF VersionsOf
<1>4. PICK D : /\ files' = files \ D
               /\ D = Unreferenced({ver[v].file}, {v}, IF ver[v].dflt THEN {g} ELSE {})
  BY <1>2 DEF DeleteVersion, DiscardFiles
<1>5. ver[v].file \in Ids /\ ver[heir].file \in Ids /\ None \notin Ids /\ ver[v].dflt \in BOOLEAN
  BY <1>1, VersionFacts
<1>6. /\ ver' \in [Ids -> Version \cup {None}] /\ Rows' = Rows \ {v}
      /\ \A w \in Ids : w \notin Rows \ {v} => ver'[w] = None
      /\ \A w \in Rows \ {v} :
             /\ ver'[w].gen = ver[w].gen /\ ver'[w].file = ver[w].file /\ ver'[w].src = ver[w].src
             /\ (ver'[w].dflt <=> IF ver[v].dflt /\ ver[w].gen = g THEN w = heir ELSE ver[w].dflt)
  <2> DEFINE M == IF ver[v].dflt THEN VersionsOf(g) ELSE {}
  <2>1. ver' = [w \in Ids |-> CASE w = v -> None
                                [] ver[v].dflt /\ w \in VersionsOf(g) \ {v} -> [ver[w] EXCEPT !.dflt = w = heir]
                                [] OTHER -> ver[w]]
    BY <1>2, <1>3 DEF DeleteVersion
  <2>2. {v} \in SUBSET Rows
    BY <1>1
  <2>3. Written({v}, M, heir)
    BY <2>1 DEF Written
  <2>4. /\ ver' \in [Ids -> Version \cup {None}] /\ Rows' = Rows \ {v}
        /\ \A w \in Ids : w \notin Rows \ {v} => ver'[w] = None
        /\ \A w \in Rows \ {v} :
               /\ ver'[w].gen = ver[w].gen /\ ver'[w].file = ver[w].file /\ ver'[w].src = ver[w].src
               /\ (ver'[w].dflt <=> IF w \in M THEN w = heir ELSE ver[w].dflt)
    <3>1. PICK gone \in SUBSET Rows, N \in SUBSET Rows : gone = {v} /\ N = M
      BY <2>2 DEF VersionsOf
    <3> HIDE DEF M
    <3>2. Written(gone, N, heir)
      BY <2>3, <3>1
    <3>3. /\ ver' \in [Ids -> Version \cup {None}] /\ Rows' = Rows \ gone
          /\ \A w \in Ids : w \notin Rows \ gone => ver'[w] = None
          /\ \A w \in Rows \ gone : /\ ver'[w].gen = ver[w].gen /\ ver'[w].file = ver[w].file
                                    /\ ver'[w].src = ver[w].src
                                    /\ (ver'[w].dflt <=> IF w \in N THEN w = heir ELSE ver[w].dflt)
      BY <1>1, <3>2, FlagsMoved
    <3> QED
      BY <3>1, <3>3
  <2>5. \A w \in Rows \ {v} : w \in M <=> ver[v].dflt /\ ver[w].gen = g
    BY DEF VersionsOf
  <2> QED
    BY <2>4, <2>5
<1>7. /\ gen'[g].audio = IF ver[v].dflt THEN ver[heir].file ELSE gen[g].audio
      /\ \A h \in Gens \ {g} : gen'[h] = gen[h]
      /\ ~ver[v].dflt => gen' = gen
      /\ gen' \in [Gens -> [st : {"absent", "generating", "completed", "failed"}, audio : Ids \cup {None}]]
  <2>1. gen' = IF ver[v].dflt THEN [gen EXCEPT ![g].audio = ver[heir].file] ELSE gen
    BY <1>2, <1>3 DEF DeleteVersion, Promote
  <2> QED
    BY <1>1, <1>5, <2>1 DEF CoreTypes
<1>8. CoreTypes'
  BY <1>1, <1>4, <1>6, <1>7 DEF CoreTypes
<1>9. \A h \in Gens : Known(h) => Known(h)'
  BY <1>5, <1>7 DEF Known, NoGeneration
<1>10. \A w \in Rows \ {v} : gen'[ver[w].gen] # NoGeneration /\ ver[w].src # v
  <2>1. \A w \in Rows \ {v} : gen'[ver[w].gen] # NoGeneration
    BY <1>1, <1>6, <1>9, VersionFacts DEF CoreInv, VersionsResolve, Known
  <2> QED
    BY <1>1, <2>1 DEF Deletable
<1>11. \A f \in D : (\A w \in Rows \ {v} : ver[w].file # f) /\ \A h \in Gens : gen'[h].audio # f
  <2>1. \A f \in D : /\ \A w \in Rows \ {v} : ver[w].file # f
                     /\ \A h \in Gens \ (IF ver[v].dflt THEN {g} ELSE {}) : gen[h].audio # f
    BY <1>4 DEF Unreferenced
  <2> QED
    BY <1>3, <1>7, <2>1
<1>12. \/ ver[v].file \in D \/ \E w \in Rows \ {v} : ver[w].file = ver[v].file
       \/ \E h \in Gens : gen'[h].audio = ver[v].file
  <2>1. ver[v].file \notin D => \/ \E w \in Rows \ {v} : ver[w].file = ver[v].file
                                \/ \E h \in Gens \ (IF ver[v].dflt THEN {g} ELSE {}) : gen[h].audio = ver[v].file
    BY <1>4 DEF Unreferenced
  <2> QED
    BY <1>7, <2>1
<1>13. {v} \in SUBSET Rows
  BY <1>1
<1>14. OneDefault' /\ PublicAudio'
  <2>1. CASE ver[v].dflt
    <3>1. Inherited({v}, g, heir)
      BY <1>1, <1>2, <1>3, <1>6, <1>7, <1>13, <2>1 DEF Inherited
    <3> QED
      BY <1>1, <3>1, Redefault
  <2>2. CASE ~ver[v].dflt
    <3>1. Left({v})
      BY <1>1, <1>6, <1>7, <1>13, <2>2 DEF Left
    <3> QED
      BY <1>1, <3>1, SameDefault
  <2> QED
    BY <2>1, <2>2
<1>15. \A h \in Gens : \/ gen'[h].audio \in {None, gen[h].audio}
                       \/ \E w \in Rows \ {v} : ver[w].gen = h /\ gen'[h].audio = ver[w].file
  BY <1>3, <1>7
<1>16. CoreInv'
  <2>1. Drop({v}, D)
    <3>1. \A w \in Rows \ {v} :
            /\ ver'[w].gen = ver[w].gen /\ ver'[w].file = ver[w].file /\ ver'[w].src = ver[w].src
            /\ ver[w].src # None => ver[w].src \notin {v}
            /\ gen'[ver[w].gen] # NoGeneration
      BY <1>6, <1>10
    <3>2. \A u \in {v} : \/ ver[u].file \in D
                         \/ \E w \in Rows \ {v} : ver[w].file = ver[u].file
                         \/ \E h \in Gens : gen'[h].audio = ver[u].file
      BY <1>12
    <3>3. Rows' = Rows \ {v} /\ \A w \in Ids : w \notin Rows \ {v} => ver'[w] = None
      BY <1>6
    <3> QED
      BY <1>1, <1>4, <1>11, <1>13, <1>15, <3>1, <3>2, <3>3 DEF Drop
  <2> QED
    BY <1>1, <1>8, <1>14, <2>1, Dropped
<1>17. ClipTypes' /\ ClipsResolve'
  <2>1. ClipTypes'
    BY <1>1 DEF LibraryInv, ClipTypes
  <2>2. ASSUME NEW c \in Clips, clip[c] # None
        PROVE  Known(clip[c].gen)' /\ (clip[c].pin # None => clip[c].pin \in VersionsOf(clip[c].gen)')
    <3>1. clip[c].gen \in Gens /\ Known(clip[c].gen)
      BY <2>2 DEF LibraryInv, ClipTypes, ClipsResolve
    <3>2. clip[c].pin # v
      BY <1>1, <2>2 DEF Deletable
    <3>3. Known(clip[c].gen)'
      BY <1>1, <1>9, <3>1 DEF Known
    <3>4. clip[c].pin # None => clip[c].pin \in Rows \ {v} /\ ver[clip[c].pin].gen = clip[c].gen
      BY <2>2, <3>2 DEF LibraryInv, ClipsResolve, VersionsOf
    <3>5. clip[c].pin # None => clip[c].pin \in Rows' /\ ver'[clip[c].pin].gen = clip[c].gen
      BY <1>6, <3>4
    <3> QED
      BY <1>1, <3>3, <3>5 DEF VersionsOf
  <2> QED
    BY <1>1, <2>1, <2>2 DEF ClipsResolve
<1>18. HandlersInv'
  BY <1>1, <1>9 DEF LibraryInv, HandlersInv, HandlerTypes
<1> QED
  BY <1>16, <1>17, <1>18 DEF LibraryInv

-----------------------------------------------------------------------------
(* Deleting generations. *)

LEMMA DeleteRecordsKeeps ==
    ASSUME LibraryInv, NEW S \in SUBSET Gens, DeleteRecords(S), job.gen \notin S
    PROVE  LibraryInv'
<1>1. CoreInv /\ CoreTypes /\ UNCHANGED <<clip, next, job, apply, slot, unversioned>>
  BY DEF DeleteRecords, LibraryInv, CoreInv
<1>2. PICK gone \in SUBSET Rows : gone = {v \in Rows : ver[v].gen \in S}
  OBVIOUS
<1>3. PICK named : named = {ver[v].file : v \in gone} \cup ({gen[g].audio : g \in S} \ {None})
  OBVIOUS
<1>4. PICK D : files' = files \ D /\ D = Unreferenced(named, gone, S)
  BY <1>2, <1>3 DEF DeleteRecords, DiscardFiles
<1>5. /\ \A g \in S : ~Used(g)
      /\ ver' = [v \in Ids |-> IF v \in gone THEN None ELSE ver[v]]
      /\ gen' = [g \in Gens |-> IF g \in S THEN NoGeneration ELSE gen[g]]
  BY <1>2 DEF DeleteRecords
<1>6. /\ \A v \in Rows : ver[v] \in Version /\ v \in Ids /\ ver[v].gen \in Gens /\ ver[v].file \in Ids
      /\ None \notin Ids
  BY <1>1, VersionFacts
<1>7. /\ \A w \in Ids : w \notin Rows \ gone => ver'[w] = None
      /\ \A w \in Rows \ gone : ver'[w] = ver[w] /\ ver[w].gen \notin S /\ ver[w] # None
  BY <1>2, <1>5, <1>6 DEF Rows
<1>8. Rows' = Rows \ gone
  <2>1. \A w \in Ids : ver'[w] # None <=> w \in Rows \ gone
    BY <1>7
  <2> QED
    BY <2>1 DEF Rows
<1>9. /\ \A h \in S : gen'[h] = NoGeneration /\ gen'[h].audio = None
      /\ \A h \in Gens \ S : gen'[h] = gen[h]
  BY <1>5 DEF NoGeneration
<1>10. CoreTypes'
  <2>1. gen' \in [Gens -> [st : {"absent", "generating", "completed", "failed"}, audio : Ids \cup {None}]]
    BY <1>1, <1>5 DEF CoreTypes, NoGeneration
  <2>2. \A w \in Ids : ver'[w] \in Version \cup {None}
    BY <1>6, <1>7
  <2>3. ver' \in [Ids -> Version \cup {None}]
    BY <1>5, <2>2
  <2> QED
    BY <1>1, <1>4, <2>1, <2>3 DEF CoreTypes
<1>11. \A w \in Rows \ gone :
         /\ ver'[w].gen = ver[w].gen /\ ver'[w].file = ver[w].file /\ ver'[w].src = ver[w].src
         /\ ver[w].src # None => ver[w].src \notin gone
         /\ gen'[ver[w].gen] # NoGeneration
  <2> SUFFICES ASSUME NEW w \in Rows \ gone
               PROVE  (ver[w].src # None => ver[w].src \notin gone) /\ gen'[ver[w].gen] # NoGeneration
    BY <1>7
  <2>1. ver[w].gen \in Gens \ S /\ gen[ver[w].gen] # NoGeneration
    BY <1>1, <1>6, <1>7 DEF CoreInv, VersionsResolve, Known
  <2>2. ver[w].src # None => ver[ver[w].src].gen = ver[w].gen
    BY <1>1 DEF CoreInv, VersionsResolve, VersionsOf
  <2> QED
    BY <1>2, <1>9, <2>1, <2>2
<1>12. \A f \in D : (\A w \in Rows \ gone : ver[w].file # f) /\ \A h \in Gens : gen'[h].audio # f
  <2>1. \A f \in D : /\ f \in named /\ \A w \in Rows \ gone : ver[w].file # f
                     /\ \A h \in Gens \ S : gen[h].audio # f
    BY <1>4 DEF Unreferenced
  <2>2. None \notin named
    BY <1>3, <1>6
  <2> QED
    BY <1>9, <2>1, <2>2
<1>13. \A v \in gone : \/ ver[v].file \in D
                       \/ \E w \in Rows \ gone : ver[w].file = ver[v].file
                       \/ \E h \in Gens : gen'[h].audio = ver[v].file
  <2> SUFFICES ASSUME NEW v \in gone, ver[v].file \notin D
               PROVE  \/ \E w \in Rows \ gone : ver[w].file = ver[v].file
                      \/ \E h \in Gens : gen'[h].audio = ver[v].file
    OBVIOUS
  <2>1. ver[v].file \in named
    BY <1>3
  <2>2. \/ \E w \in Rows \ gone : ver[w].file = ver[v].file
        \/ \E h \in Gens \ S : gen[h].audio = ver[v].file
    BY <1>4, <2>1 DEF Unreferenced
  <2> QED
    BY <1>9, <2>2
<1>14. \A h \in Gens : gen'[h].audio \in {None, gen[h].audio}
  BY <1>9
<1>15. OneDefault' /\ PublicAudio'
  <2>1. Left(gone)
    BY <1>1, <1>2, <1>7, <1>8, <1>9, <1>14 DEF Left
  <2> QED
    BY <1>1, <2>1, SameDefault
<1>16. CoreInv'
  <2>1. Drop(gone, D)
    BY <1>1, <1>4, <1>7, <1>8, <1>11, <1>12, <1>13, <1>14 DEF Drop
  <2> QED
    BY <1>1, <1>10, <1>15, <2>1, Dropped
<1>17. ClipTypes' /\ ClipsResolve'
  <2>1. ClipTypes'
    BY <1>1 DEF LibraryInv, ClipTypes
  <2>2. ASSUME NEW c \in Clips, clip[c] # None
        PROVE  Known(clip[c].gen)' /\ (clip[c].pin # None => clip[c].pin \in VersionsOf(clip[c].gen)')
    <3>1. clip[c].gen \in Gens \ S /\ Known(clip[c].gen)
      BY <1>5, <2>2 DEF LibraryInv, ClipTypes, ClipsResolve, Used
    <3>2. Known(clip[c].gen)'
      BY <1>1, <1>9, <3>1 DEF Known
    <3>3. clip[c].pin # None => clip[c].pin \in Rows /\ ver[clip[c].pin].gen = clip[c].gen
      BY <2>2 DEF LibraryInv, ClipsResolve, VersionsOf
    <3>4. clip[c].pin # None => clip[c].pin \in Rows' /\ ver'[clip[c].pin].gen = clip[c].gen
      BY <1>2, <1>7, <1>8, <3>1, <3>3
    <3> QED
      BY <1>1, <3>2, <3>4 DEF VersionsOf
  <2> QED
    BY <1>1, <2>1, <2>2 DEF ClipsResolve
<1>18. HandlersInv'
  <2>1. job # Idle => job.gen \in Gens \ S /\ gen[job.gen] # NoGeneration
    BY DEF LibraryInv, HandlersInv, Known
  <2>2. job # Idle => gen'[job.gen] # NoGeneration
    BY <1>9, <2>1
  <2> QED
    BY <1>1, <2>1, <2>2 DEF LibraryInv, HandlersInv, HandlerTypes, Known
<1> QED
  BY <1>16, <1>17, <1>18 DEF LibraryInv

-----------------------------------------------------------------------------
(* Generations, their jobs and their versions. *)

GenTypes == gen \in [Gens -> [st : {"absent", "generating", "completed", "failed"}, audio : Ids \cup {None}]]

(* No file is made or let go of. *)
LEMMA NothingSaved ==
    ASSUME LibraryInv, GenTypes', HandlersInv', UNCHANGED <<ver, clip, files, next, unversioned>>,
           \A h \in Gens : gen'[h].audio = gen[h].audio, \A h \in Gens : Known(h) => Known(h)'
    PROVE  LibraryInv'
<1>1. CoreTypes'
  BY DEF LibraryInv, CoreInv, CoreTypes, GenTypes
<1>2. CoreInv'
  BY <1>1, SameAudio DEF LibraryInv
<1>3. \A h \in Gens : VersionsOf(h) \subseteq VersionsOf(h)'
  BY DEF VersionsOf, Rows
<1>4. ClipTypes' /\ ClipsResolve'
  BY <1>3, ClipsKept DEF LibraryInv
<1> QED
  BY <1>2, <1>4 DEF LibraryInv

(* A version is made, with the public path of a default one. *)
LEMMA VersionSaved ==
    ASSUME LibraryInv, GenTypes', HandlersInv', NEW g \in Gens, NEW fx \in BOOLEAN, NEW dflt \in BOOLEAN,
           NEW src \in Ids \cup {None}, CanMake, Known(g), src # None => src \in VersionsOf(g),
           Create(g, fx, dflt, src), UNCHANGED <<clip, unversioned>>,
           gen'[g].audio = IF dflt THEN next ELSE gen[g].audio,
           \A h \in Gens \ {g} : gen'[h].audio = gen[h].audio, \A h \in Gens : Known(h) => Known(h)'
    PROVE  LibraryInv'
<1>1. /\ ver' = AddVersion(g, next, fx, dflt, src) /\ files' = files \cup {next} /\ next' = next + 1
      /\ CoreInv /\ CoreTypes
  BY DEF Create, LibraryInv, CoreInv
<1>2. /\ ver' \in [Ids -> Version \cup {None}] /\ next \in Ids
      /\ Rows' = Rows \cup {next} /\ \A v \in Rows : ver'[v].gen = ver[v].gen
  BY <1>1, AddedVersion
<1>3. CoreTypes'
  BY <1>1, <1>2, NextIsId DEF CoreTypes, GenTypes
<1>4. CoreInv'
  BY <1>1, <1>3, NewVersion
<1>5. \A h \in Gens : VersionsOf(h) \subseteq VersionsOf(h)'
  BY <1>2 DEF VersionsOf
<1>6. ClipTypes' /\ ClipsResolve'
  BY <1>5, ClipsKept DEF LibraryInv
<1> QED
  BY <1>4, <1>6 DEF LibraryInv

(* A take without a version is made. *)
LEMMA TakeSaved ==
    ASSUME LibraryInv, GenTypes', HandlersInv', NEW g \in Gens, CanMake, NEW D,
           \A f \in D : (\A v \in Rows : ver[v].file # f) /\ \A h \in Gens \ {g} : gen[h].audio # f,
           UNCHANGED <<ver, clip>>, files' = (files \ D) \cup {next}, next' = next + 1,
           unversioned' = unversioned \cup {next},
           gen'[g].audio = next, \A h \in Gens \ {g} : gen'[h].audio = gen[h].audio,
           \A h \in Gens : Known(h) => Known(h)'
    PROVE  LibraryInv'
<1>1. CoreInv /\ CoreTypes
  BY DEF LibraryInv, CoreInv
<1>2. CoreTypes'
  BY <1>1, NextIsId DEF CoreTypes, GenTypes
<1>3. CoreInv'
  BY <1>1, <1>2, NewTake
<1>4. \A h \in Gens : VersionsOf(h) \subseteq VersionsOf(h)'
  BY DEF VersionsOf, Rows
<1>5. ClipTypes' /\ ClipsResolve'
  BY <1>4, ClipsKept DEF LibraryInv
<1> QED
  BY <1>3, <1>5 DEF LibraryInv

(* What the status and the path of one row become. *)
LEMMA RowSet ==
    ASSUME GenTypes, NEW g \in Gens, NEW st \in {"generating", "completed", "failed"}, NEW audio \in Ids \cup {None},
           SetGen(g, st, audio)
    PROVE  /\ GenTypes' /\ gen'[g].audio = audio /\ \A h \in Gens \ {g} : gen'[h] = gen[h]
           /\ \A h \in Gens : Known(h) => Known(h)'
           /\ Known(g)'
<1>1. GenTypes' /\ gen'[g] = [st |-> st, audio |-> audio] /\ \A h \in Gens \ {g} : gen'[h] = gen[h]
  BY DEF SetGen, GenTypes
<1> QED
  BY <1>1 DEF Known, NoGeneration

(* The job ends, and its row takes the new path if it is durable. *)
LEMMA JobEnds ==
    ASSUME LibraryInv, job # Idle, NEW audio \in Ids \cup {None}, UNCHANGED apply,
           NEW o \in Outcomes, NEW durable, durable = Durable(o),
           \/ EndSaved(o, audio)
           \/ EndFailed(IF durable THEN audio ELSE gen[job.gen].audio)
    PROVE  /\ GenTypes' /\ HandlersInv' /\ \A h \in Gens \ {job.gen} : gen'[h] = gen[h]
           /\ gen'[job.gen].audio = IF durable THEN audio ELSE gen[job.gen].audio
           /\ \A h \in Gens : Known(h) => Known(h)'
<1>1. GenTypes /\ job.gen \in Gens /\ HandlersInv /\ gen[job.gen].audio \in Ids \cup {None}
  BY DEF LibraryInv, CoreInv, CoreTypes, HandlersInv, GenTypes
<1>2. PICK path \in Ids \cup {None} : path = IF durable THEN audio ELSE gen[job.gen].audio
  BY <1>1
<1>3. o = "ok" => durable
  BY DEF Durable
<1>4. /\ job' = Idle /\ slot' = IF slot = "job" THEN None ELSE slot
      /\ \E st \in {"completed", "failed"} : SetGen(job.gen, st, path)
  <2>1. CASE EndSaved(o, audio) /\ o = "ok"
    BY <1>2, <1>3, <2>1 DEF EndSaved
  <2>2. CASE EndSaved(o, audio) /\ o # "ok"
    BY <1>2, <2>2 DEF EndSaved, EndFailed
  <2>3. CASE EndFailed(IF durable THEN audio ELSE gen[job.gen].audio)
    BY <1>2, <2>3 DEF EndFailed
  <2> QED
    BY <2>1, <2>2, <2>3
<1>5. PICK st \in {"completed", "failed"} : SetGen(job.gen, st, path)
  BY <1>4
<1>6. /\ GenTypes' /\ gen'[job.gen].audio = path /\ \A h \in Gens \ {job.gen} : gen'[h] = gen[h]
      /\ \A h \in Gens : Known(h) => Known(h)'
  BY <1>1, <1>5, RowSet
<1>7. HandlersInv'
  BY <1>1, <1>4, NoneAssumption DEF HandlersInv, HandlerTypes, Idle
<1> QED
  BY <1>2, <1>6, <1>7

LEMMA SubmitKeeps == ASSUME LibraryInv, NEW g \in Gens, NEW o \in Outcomes, Submit(g, o) PROVE LibraryInv'
<1>1. GenTypes /\ HandlersInv /\ gen[g].audio = None
  BY DEF LibraryInv, CoreInv, CoreTypes, GenTypes, Submit, NoGeneration
<1>2. /\ GenTypes' /\ gen'[g].audio = None /\ \A h \in Gens \ {g} : gen'[h] = gen[h]
      /\ (\A h \in Gens : Known(h) => Known(h)') /\ Known(g)'
  BY <1>1, RowSet DEF Submit
<1>3. \A h \in Gens : gen'[h].audio = gen[h].audio
  BY <1>1, <1>2
<1>4. UNCHANGED <<ver, clip, files, next, unversioned, apply, slot>>
  BY DEF Submit
<1>5. job' = Idle \/ job' = [at |-> "clean", gen |-> g, old |-> None]
  BY DEF Submit
<1>6. HandlersInv'
  BY <1>1, <1>2, <1>4, <1>5 DEF HandlersInv, HandlerTypes, Idle, Known
<1> QED
  BY <1>2, <1>3, <1>4, <1>6, NothingSaved

LEMMA AgainKeeps == ASSUME LibraryInv, NEW g \in Gens, Retry(g) \/ Regenerate(g) PROVE LibraryInv'
<1>1. GenTypes /\ HandlersInv /\ gen[g].audio \in Ids \cup {None}
  BY DEF LibraryInv, CoreInv, CoreTypes, GenTypes
<1>2. SetGen(g, "generating", gen[g].audio) /\ UNCHANGED <<ver, clip, files, next, unversioned, apply, slot>>
  BY DEF Retry, Regenerate
<1>3. /\ GenTypes' /\ gen'[g].audio = gen[g].audio /\ \A h \in Gens \ {g} : gen'[h] = gen[h]
      /\ (\A h \in Gens : Known(h) => Known(h)') /\ Known(g)'
  BY <1>1, <1>2, RowSet
<1>4. \A h \in Gens : gen'[h].audio = gen[h].audio
  BY <1>3
<1>5. \/ job' = [at |-> "synth", gen |-> g, old |-> None]
      \/ job' = [at |-> "regenerate", gen |-> g, old |-> None]
  BY DEF Retry, Regenerate
<1>6. HandlersInv'
  BY <1>1, <1>2, <1>3, <1>5 DEF HandlersInv, HandlerTypes, Known
<1> QED
  BY <1>2, <1>3, <1>4, <1>6, NothingSaved

LEMMA JobFailsKeeps == ASSUME LibraryInv, JobFails PROVE LibraryInv'
<1>1. job # Idle /\ EndFailed(gen[job.gen].audio) /\ UNCHANGED <<ver, clip, files, next, unversioned, apply>>
  BY DEF JobFails
<1>2. job.gen \in Gens /\ gen[job.gen].audio \in Ids \cup {None}
  BY <1>1 DEF LibraryInv, CoreInv, CoreTypes, HandlersInv
<1>3. PICK audio \in Ids \cup {None} : audio = gen[job.gen].audio
  BY <1>2
<1>4. PICK durable : durable = Durable("ok")
  OBVIOUS
<1>5. "ok" \in Outcomes /\ EndFailed(IF durable THEN audio ELSE gen[job.gen].audio)
  BY <1>1, <1>3, <1>4 DEF Outcomes, Durable
<1>6. /\ GenTypes' /\ HandlersInv' /\ \A h \in Gens \ {job.gen} : gen'[h] = gen[h]
      /\ gen'[job.gen].audio = IF durable THEN audio ELSE gen[job.gen].audio
      /\ \A h \in Gens : Known(h) => Known(h)'
  BY <1>1, <1>4, <1>5, JobEnds
<1>7. \A h \in Gens : gen'[h].audio = gen[h].audio
  BY <1>3, <1>6
<1> QED
  BY <1>1, <1>6, <1>7, NothingSaved

(* A version of the job is made, or its publication dropped, and the job    *)
(* ends: the second step of SaveProcessed, SaveTake and a plain SaveClean.  *)
LEMMA VersionOfJobKeeps ==
    ASSUME LibraryInv, job # Idle, CanMake, NEW o \in Outcomes, NEW fx \in BOOLEAN,
           IF Durable(o) THEN Create(job.gen, fx, TRUE, None) ELSE DropPublication /\ UNCHANGED ver,
           EndSaved(o, next), UNCHANGED <<clip, apply, unversioned>>
    PROVE  LibraryInv'
<1>1. job.gen \in Gens /\ Known(job.gen) /\ next \in Ids
  BY NextIsId DEF LibraryInv, CoreInv, HandlersInv
<1>2. PICK durable : durable = Durable(o)
  OBVIOUS
<1>3. next \in Ids \cup {None}
  BY <1>1
<1>4. /\ GenTypes' /\ HandlersInv' /\ \A h \in Gens \ {job.gen} : gen'[h] = gen[h]
      /\ gen'[job.gen].audio = IF durable THEN next ELSE gen[job.gen].audio
      /\ \A h \in Gens : Known(h) => Known(h)'
  BY <1>2, <1>3, JobEnds
<1>5. \A h \in Gens \ {job.gen} : gen'[h].audio = gen[h].audio
  BY <1>4
<1>6. CASE durable
  <2>1. Create(job.gen, fx, TRUE, None) /\ gen'[job.gen].audio = IF TRUE THEN next ELSE gen[job.gen].audio
    BY <1>2, <1>4, <1>6
  <2>2. None \in Ids \cup {None} /\ TRUE \in BOOLEAN /\ (None # None => None \in VersionsOf(job.gen))
    OBVIOUS
  <2> QED
    BY <1>1, <1>4, <1>5, <2>1, <2>2, VersionSaved
<1>7. CASE ~durable
  <2>1. UNCHANGED <<ver, files, next>>
    BY <1>2, <1>7 DEF DropPublication
  <2>2. \A h \in Gens : gen'[h].audio = gen[h].audio
    BY <1>4, <1>5, <1>7
  <2> QED
    BY <1>4, <2>1, <2>2, NothingSaved
<1> QED
  BY <1>6, <1>7

LEMMA SaveVersionKeeps == ASSUME LibraryInv, NEW o \in Outcomes, SaveProcessed(o) \/ SaveTake(o) PROVE LibraryInv'
<1>1. job # Idle /\ CanMake /\ EndSaved(o, next) /\ UNCHANGED <<clip, apply, unversioned>>
  <2>1. CASE SaveProcessed(o)
    <3>1. job.at # "idle"
      BY <2>1 DEF SaveProcessed
    <3> QED
      BY <2>1, <3>1 DEF SaveProcessed, Idle
  <2>2. CASE SaveTake(o)
    <3>1. job.at # "idle"
      BY <2>2 DEF SaveTake
    <3> QED
      BY <2>2, <3>1 DEF SaveTake, Idle
  <2> QED
    BY <2>1, <2>2
<1>2. \E fx \in BOOLEAN :
        IF Durable(o) THEN Create(job.gen, fx, TRUE, None) ELSE DropPublication /\ UNCHANGED ver
  BY DEF SaveProcessed, SaveTake
<1> QED
  BY <1>1, <1>2, VersionOfJobKeeps

LEMMA SaveCleanKeeps == ASSUME LibraryInv, NEW o \in Outcomes, NEW fx \in BOOLEAN, SaveClean(o, fx) PROVE LibraryInv'
<1>1. job # Idle /\ CanMake /\ UNCHANGED <<clip, apply, unversioned>>
  BY DEF SaveClean, Idle
<1>2. CASE ~fx
  <2>1. IF Durable(o) THEN Create(job.gen, FALSE, TRUE, None) ELSE DropPublication /\ UNCHANGED ver
    BY <1>2 DEF SaveClean
  <2>2. EndSaved(o, next) /\ FALSE \in BOOLEAN
    BY <1>2 DEF SaveClean
  <2> QED
    BY <1>1, <2>1, <2>2, VersionOfJobKeeps
<1>3. CASE fx
  <2>1. IF Durable(o) THEN Create(job.gen, FALSE, FALSE, None) ELSE DropPublication /\ UNCHANGED ver
    BY <1>3 DEF SaveClean
  <2>2. /\ job.gen \in Gens /\ Known(job.gen) /\ gen[job.gen].audio \in Ids \cup {None}
        /\ GenTypes /\ HandlersInv
    BY <1>1 DEF LibraryInv, CoreInv, CoreTypes, HandlersInv, GenTypes
  <2>3. /\ GenTypes' /\ HandlersInv' /\ \A h \in Gens : gen'[h].audio = gen[h].audio
        /\ \A h \in Gens : Known(h) => Known(h)'
    <3>1. CASE job' = [job EXCEPT !.at = "processed"] /\ slot' = "job" /\ UNCHANGED gen
      <4>1. GenTypes' /\ (\A h \in Gens : gen'[h].audio = gen[h].audio) /\ \A h \in Gens : Known(h) => Known(h)'
        BY <2>2, <3>1 DEF GenTypes, Known
      <4>2. HandlersInv'
        BY <1>1, <2>2, <3>1 DEF HandlersInv, HandlerTypes, Known
      <4> QED
        BY <4>1, <4>2
    <3>2. CASE EndFailed(gen[job.gen].audio)
      <4>1. PICK audio \in Ids \cup {None} : audio = gen[job.gen].audio
        BY <2>2
      <4>2. PICK durable : durable = Durable(o)
        OBVIOUS
      <4>3. EndFailed(IF durable THEN audio ELSE gen[job.gen].audio)
        BY <3>2, <4>1
      <4>4. /\ GenTypes' /\ HandlersInv' /\ \A h \in Gens \ {job.gen} : gen'[h] = gen[h]
            /\ gen'[job.gen].audio = IF durable THEN audio ELSE gen[job.gen].audio
            /\ \A h \in Gens : Known(h) => Known(h)'
        BY <1>1, <4>2, <4>3, JobEnds
      <4> QED
        BY <4>1, <4>4
    <3> QED
      BY <1>3, <3>1, <3>2 DEF SaveClean
  <2>4. CASE Durable(o)
    <3>1. /\ FALSE \in BOOLEAN /\ None \in Ids \cup {None} /\ (None # None => None \in VersionsOf(job.gen))
          /\ gen'[job.gen].audio = IF FALSE THEN next ELSE gen[job.gen].audio
      BY <2>2, <2>3
    <3>2. Create(job.gen, FALSE, FALSE, None)
      BY <2>1, <2>4
    <3> QED
      BY <1>1, <2>2, <2>3, <3>1, <3>2, VersionSaved
  <2>5. CASE ~Durable(o)
    <3>1. UNCHANGED <<ver, files, next>>
      BY <2>1, <2>5 DEF DropPublication
    <3> QED
      BY <1>1, <2>3, <3>1, NothingSaved
  <2> QED
    BY <2>4, <2>5
<1> QED
  BY <1>2, <1>3

LEMMA SaveRetryKeeps == ASSUME LibraryInv, NEW o \in Outcomes, SaveRetry(o) PROVE LibraryInv'
<1>1. job # Idle /\ CanMake /\ EndSaved(o, next) /\ UNCHANGED <<ver, clip, apply>>
  BY DEF SaveRetry, Idle
<1>2. job.gen \in Gens /\ next \in Ids \cup {None}
  BY <1>1, NextIsId DEF LibraryInv, CoreInv, HandlersInv
<1>3. PICK durable : durable = Durable(o)
  OBVIOUS
<1>4. /\ GenTypes' /\ HandlersInv' /\ \A h \in Gens \ {job.gen} : gen'[h] = gen[h]
      /\ gen'[job.gen].audio = IF durable THEN next ELSE gen[job.gen].audio
      /\ \A h \in Gens : Known(h) => Known(h)'
  BY <1>1, <1>2, <1>3, JobEnds
<1>5. \A h \in Gens \ {job.gen} : gen'[h].audio = gen[h].audio
  BY <1>4
<1>6. CASE durable
  <2>1. PICK D : D = Unreferenced({job.old} \ {None}, {}, {job.gen})
    OBVIOUS
  <2>2. \A f \in D : (\A v \in Rows : ver[v].file # f) /\ \A h \in Gens \ {job.gen} : gen[h].audio # f
    BY <2>1 DEF Unreferenced
  <2>3. /\ files' = (files \ D) \cup {next} /\ next' = next + 1 /\ unversioned' = unversioned \cup {next}
        /\ gen'[job.gen].audio = next
    BY <1>3, <1>4, <1>6, <2>1 DEF SaveRetry
  <2> QED
    BY <1>1, <1>2, <1>4, <1>5, <2>2, <2>3, TakeSaved
<1>7. CASE ~durable
  <2>1. UNCHANGED <<ver, files, next, unversioned>>
    BY <1>1, <1>3, <1>7 DEF SaveRetry, DropPublication
  <2>2. \A h \in Gens : gen'[h].audio = gen[h].audio
    BY <1>4, <1>5, <1>7
  <2> QED
    BY <1>1, <1>4, <2>1, <2>2, NothingSaved
<1> QED
  BY <1>6, <1>7

LEMMA ImportKeeps == ASSUME LibraryInv, NEW g \in Gens, Import(g) PROVE LibraryInv'
<1>1. /\ CanMake /\ SetGen(g, "completed", next) /\ UNCHANGED <<ver, clip, job, apply, slot>>
      /\ files' = files \cup {next} /\ next' = next + 1 /\ unversioned' = unversioned \cup {next}
  BY DEF Import
<1>2. GenTypes /\ HandlersInv /\ next \in Ids \cup {None}
  BY <1>1, NextIsId DEF LibraryInv, CoreInv, CoreTypes, GenTypes
<1>3. /\ GenTypes' /\ gen'[g].audio = next /\ \A h \in Gens \ {g} : gen'[h] = gen[h]
      /\ \A h \in Gens : Known(h) => Known(h)'
  BY <1>1, <1>2, RowSet
<1>4. HandlersInv'
  BY <1>1, <1>2, <1>3 DEF HandlersInv, HandlerTypes, Known
<1>5. \A h \in Gens \ {g} : gen'[h].audio = gen[h].audio
  BY <1>3
<1>6. PICK D : D = {}
  OBVIOUS
<1>7. files' = (files \ D) \cup {next}
  BY <1>1, <1>6
<1>8. \A f \in D : (\A v \in Rows : ver[v].file # f) /\ \A h \in Gens \ {g} : gen[h].audio # f
  BY <1>6
<1> QED
  BY <1>1, <1>3, <1>4, <1>5, <1>7, <1>8, TakeSaved

LEMMA EffectsAppliedKeeps ==
    ASSUME LibraryInv, NEW o \in Outcomes, NEW dflt \in BOOLEAN, EffectsApplied(o, dflt)
    PROVE  LibraryInv'
<1>1. /\ slot = "apply" /\ CanMake /\ Publish(o, dflt) /\ apply' = NoApply /\ slot' = None
      /\ UNCHANGED <<clip, job, unversioned>> /\ apply.gen \in Gens /\ apply.src \in Ids \cup {None}
      /\ GenTypes /\ HandlersInv
  BY DEF EffectsApplied, LibraryInv, HandlersInv, HandlerTypes, CoreInv, CoreTypes, GenTypes
<1>2. ASSUME \A h \in Gens : Known(h) => Known(h)' PROVE HandlersInv'
  BY <1>1, <1>2, NoneAssumption DEF HandlersInv, HandlerTypes, NoApply, Known
<1>3. CASE StillThere /\ Durable(o)
  <2>1. /\ Create(apply.gen, TRUE, dflt, apply.src) /\ Known(apply.gen)
        /\ apply.src # None => apply.src \in VersionsOf(apply.gen)
        /\ gen' = IF dflt THEN [gen EXCEPT ![apply.gen].audio = next] ELSE gen
    BY <1>3, <1>1 DEF Publish, StillThere, Known
  <2>2. next \in Ids
    BY <1>1, NextIsId DEF LibraryInv, CoreInv
  <2>3. /\ GenTypes' /\ \A h \in Gens \ {apply.gen} : gen'[h] = gen[h]
        /\ gen'[apply.gen].audio = IF dflt THEN next ELSE gen[apply.gen].audio
        /\ gen'[apply.gen].st = gen[apply.gen].st
        /\ ~dflt => gen' = gen
    BY <1>1, <2>1, <2>2 DEF GenTypes
  <2>4. \A h \in Gens : Known(h) => Known(h)'
    <3>1. None \notin Ids
      BY NoneAssumption, FilesAssumption DEF Ids
    <3> QED
      BY <2>1, <2>2, <2>3, <3>1 DEF Known, NoGeneration
  <2>5. \A h \in Gens \ {apply.gen} : gen'[h].audio = gen[h].audio
    BY <2>3
  <2>6. TRUE \in BOOLEAN
    OBVIOUS
  <2> QED
    BY <1>1, <1>2, <2>1, <2>3, <2>4, <2>5, <2>6, VersionSaved
<1>4. CASE ~(StillThere /\ Durable(o))
  <2>1. UNCHANGED <<ver, gen, files, next>>
    BY <1>1, <1>4 DEF Publish, DropPublication
  <2>2. GenTypes' /\ (\A h \in Gens : gen'[h].audio = gen[h].audio) /\ \A h \in Gens : Known(h) => Known(h)'
    BY <1>1, <2>1 DEF GenTypes, Known
  <2> QED
    BY <1>1, <1>2, <2>1, <2>2, NothingSaved
<1> QED
  BY <1>3, <1>4

(* Steps that no row of a generation or a version takes part in. *)
LEMMA RowsKept ==
    ASSUME LibraryInv, HandlersInv', ClipTypes', ClipsResolve', UNCHANGED <<gen, ver, files, next, unversioned>>
    PROVE  LibraryInv'
<1>1. CoreTypes'
  BY DEF LibraryInv, CoreInv, CoreTypes
<1>2. (\A g \in Gens : gen'[g].audio = gen[g].audio) /\ \A g \in Gens : Known(g) => Known(g)'
  BY DEF Known
<1>3. CoreInv'
  BY <1>1, <1>2, SameAudio DEF LibraryInv
<1> QED
  BY <1>3 DEF LibraryInv

LEMMA HandlerStepKeeps ==
    ASSUME LibraryInv,
           \/ ReadPredecessor \/ EffectsFail \/ PreviewEnds \/ UNCHANGED libraryVars
           \/ \E g \in Gens : Preview(g) \/ \E s \in Ids \cup {None} : ApplyEffects(g, s)
    PROVE  LibraryInv'
<1>1. UNCHANGED <<gen, ver, clip, files, next, unversioned>>
  BY DEF ReadPredecessor, EffectsFail, PreviewEnds, Preview, ApplyEffects, libraryVars
<1>2. HandlersInv /\ GenTypes
  BY DEF LibraryInv, CoreInv, CoreTypes, GenTypes
<1>3. (job' # Idle => job' = job \/ (job # Idle /\ job'.gen = job.gen)) /\ HandlerTypes'
      /\ (slot' = "apply" => apply'.gen \in Gens)
  <2>1. CASE ReadPredecessor
    <3>1. job # Idle /\ job' = [job EXCEPT !.at = "retry", !.old = gen[job.gen].audio]
      BY <2>1 DEF ReadPredecessor, Idle
    <3>2. job.gen \in Gens /\ gen[job.gen].audio \in Ids \cup {None}
      BY <1>2, <3>1 DEF HandlersInv, GenTypes
    <3> QED
      BY <1>2, <2>1, <3>1, <3>2 DEF ReadPredecessor, HandlersInv, HandlerTypes
  <2>2. CASE EffectsFail \/ PreviewEnds
    BY <1>2, <2>2, NoneAssumption DEF EffectsFail, PreviewEnds, HandlersInv, HandlerTypes, NoApply
  <2>3. CASE \E g \in Gens : Preview(g) \/ \E s \in Ids \cup {None} : ApplyEffects(g, s)
    BY <1>2, <2>3 DEF Preview, ApplyEffects, HandlersInv, HandlerTypes
  <2>4. CASE UNCHANGED libraryVars
    BY <1>2, <2>4 DEF libraryVars, HandlersInv, HandlerTypes
  <2> QED
    BY <2>1, <2>2, <2>3, <2>4
<1>4. HandlersInv'
  BY <1>1, <1>2, <1>3 DEF HandlersInv, Known
<1>5. (\A g \in Gens : Known(g) => Known(g)') /\ \A g \in Gens : VersionsOf(g) \subseteq VersionsOf(g)'
  BY <1>1 DEF Known, VersionsOf, Rows
<1>6. ClipTypes' /\ ClipsResolve'
  BY <1>1, <1>5, ClipsKept DEF LibraryInv
<1> QED
  BY <1>1, <1>4, <1>6, RowsKept

LEMMA ClipStepKeeps ==
    ASSUME LibraryInv,
           \/ \E c \in Clips, g \in Gens : AddClip(c, g)
           \/ \E c \in Clips, p \in Ids \cup {None} : Pin(c, p)
           \/ \E c, d \in Clips : CopyClip(c, d)
           \/ \E S \in SUBSET Clips : RemoveClips(S)
    PROVE  LibraryInv'
<1>1. UNCHANGED <<gen, ver, files, next, job, apply, slot, unversioned>>
  BY DEF AddClip, Pin, CopyClip, RemoveClips
<1>2. HandlersInv'
  BY <1>1 DEF LibraryInv, HandlersInv, HandlerTypes, Known
<1>3. ClipTypes
  BY DEF LibraryInv
<1>4. (\A g \in Gens : Known(g)' <=> Known(g)) /\ \A g \in Gens : VersionsOf(g)' = VersionsOf(g)
  BY <1>1 DEF Known, VersionsOf, Rows
(* The clips as a whole: each one is as another was, or newly named. *)
<1>5. /\ clip' \in [Clips -> [gen : Gens, pin : Ids \cup {None}] \cup {None}]
      /\ \A c \in Clips : clip'[c] # None =>
           \/ \E d \in Clips : clip[d] # None /\ clip'[c] = clip[d]
           \/ /\ clip'[c].gen \in Gens /\ Known(clip'[c].gen)
              /\ clip'[c].pin = None \/ clip'[c].pin \in VersionsOf(clip'[c].gen)
  <2>1. ASSUME NEW c \in Clips, NEW g \in Gens, AddClip(c, g)
        PROVE  <1>5
    <3>1. Known(g) /\ clip' = [clip EXCEPT ![c] = [gen |-> g, pin |-> None]]
      BY <2>1 DEF AddClip, Known, NoGeneration
    <3> QED
      BY <1>3, <3>1 DEF ClipTypes
  <2>2. ASSUME NEW c \in Clips, NEW p \in Ids \cup {None}, Pin(c, p)
        PROVE  <1>5
    <3>1. /\ clip[c] # None /\ clip[c] \in [gen : Gens, pin : Ids \cup {None}] /\ Known(clip[c].gen)
          /\ p = None \/ p \in VersionsOf(clip[c].gen)
          /\ clip' = [clip EXCEPT ![c].pin = p]
      BY <1>3, <2>2 DEF Pin, ClipTypes, LibraryInv, ClipsResolve
    <3>2. /\ clip'[c] \in [gen : Gens, pin : Ids \cup {None}] /\ clip'[c].gen = clip[c].gen /\ clip'[c].pin = p
          /\ \A d \in Clips \ {c} : clip'[d] = clip[d]
      BY <1>3, <3>1 DEF ClipTypes
    <3> QED
      BY <1>3, <3>1, <3>2 DEF ClipTypes
  <2>3. ASSUME NEW c \in Clips, NEW d \in Clips, CopyClip(c, d)
        PROVE  <1>5
    BY <1>3, <2>3 DEF CopyClip, ClipTypes
  <2>4. ASSUME NEW S \in SUBSET Clips, RemoveClips(S)
        PROVE  <1>5
    BY <1>3, <2>4 DEF RemoveClips, ClipTypes
  <2> QED
    BY <2>1, <2>2, <2>3, <2>4
<1>6. ClipTypes'
  BY <1>5 DEF ClipTypes
<1>7. ClipsResolve'
  <2> SUFFICES ASSUME NEW c \in Clips, clip'[c] # None
               PROVE  /\ Known(clip[c].gen)'
                      /\ clip'[c].pin # None => clip'[c].pin \in VersionsOf(clip[c].gen)'
    BY DEF ClipsResolve
  <2>1. /\ clip'[c].gen \in Gens /\ gen[clip'[c].gen] # NoGeneration
        /\ clip'[c].pin = None \/ (clip'[c].pin \in Rows /\ ver[clip'[c].pin].gen = clip'[c].gen)
    <3>1. CASE \E d \in Clips : clip[d] # None /\ clip'[c] = clip[d]
      BY <1>3, <3>1 DEF LibraryInv, ClipsResolve, ClipTypes, Known, VersionsOf
    <3>2. CASE /\ clip'[c].gen \in Gens /\ Known(clip'[c].gen)
               /\ clip'[c].pin = None \/ clip'[c].pin \in VersionsOf(clip'[c].gen)
      BY <3>2 DEF Known, VersionsOf
    <3> QED
      BY <1>5, <3>1, <3>2
  <2> QED
    BY <1>1, <2>1 DEF Known, VersionsOf, Rows
<1> QED
  BY <1>1, <1>2, <1>6, <1>7, RowsKept

-----------------------------------------------------------------------------
(* The next start gives completed rows without a version their first one. *)

LEMMA RestartKeeps == ASSUME LibraryInv, Restart PROVE LibraryInv'
<1>1. /\ CoreInv /\ CoreTypes /\ OneOwner /\ GenTypes /\ job' = Idle /\ apply' = NoApply /\ slot' = None
      /\ UNCHANGED <<clip, files, next>>
  BY DEF Restart, LibraryInv, CoreInv, CoreTypes, GenTypes
<1>2. PICK B : B = {gen[g].audio : g \in Backfilled}
  OBVIOUS
<1>3. /\ \A v \in Rows : ver[v] \in Version /\ v \in Ids /\ ver[v].gen \in Gens /\ ver[v].file \in Ids
      /\ None \notin Ids /\ None \notin Version
  BY <1>1, VersionFacts
<1>4. /\ GenTypes' /\ \A h \in Gens : gen'[h].audio = gen[h].audio
      /\ \A h \in Gens : gen[h] # NoGeneration => gen'[h] # NoGeneration
  BY <1>1 DEF Restart, GenTypes, NoGeneration
<1>5. ASSUME NEW g \in Backfilled
      PROVE  /\ g \in Gens /\ gen[g].audio \in unversioned /\ gen[g].audio \in files /\ gen[g].audio \in Ids
             /\ gen[g].audio \notin Rows /\ Known(g)
             /\ \A w \in Rows : ver[w].file # gen[g].audio
             /\ ver'[gen[g].audio] = [gen |-> g, file |-> gen[g].audio, fx |-> FALSE, dflt |-> TRUE, src |-> None]
  <2>1. /\ g \in Gens /\ gen[g].st = "completed" /\ VersionsOf(g) = {} /\ gen[g].audio \in files
        /\ gen[g].audio \in Ids
    BY <1>1 DEF Backfilled, CoreTypes
  <2>2. gen[g].audio \in unversioned
    BY <1>1, <1>3, <2>1 DEF CoreInv, PublicAudio, Defaults
  <2>3. ver[gen[g].audio] = None /\ \A w \in Rows : ver[w].file # gen[g].audio
    BY <1>1, <2>2 DEF OneOwner
  <2>4. g = CHOOSE h \in Backfilled : gen[h].audio = gen[g].audio
    <3>1. \A h \in Backfilled : gen[h].audio = gen[g].audio => h = g
      BY <1>1, <1>3, <2>1 DEF OneOwner, Backfilled
    <3> QED
      BY <3>1
  <2>5. ver'[gen[g].audio] = [gen |-> g, file |-> gen[g].audio, fx |-> FALSE, dflt |-> TRUE, src |-> None]
    <3>1. PICK v \in Ids : v = gen[g].audio
      BY <2>1
    <3>2. ver'[v] = LET h == CHOOSE h \in Backfilled : gen[h].audio = v
                    IN [gen |-> h, file |-> v, fx |-> FALSE, dflt |-> TRUE, src |-> None]
      BY <3>1 DEF Restart
    <3> QED
      BY <2>4, <3>1, <3>2
  <2> QED
    BY <2>1, <2>2, <2>3, <2>5 DEF Rows, Known, NoGeneration
<1>6. /\ B \subseteq unversioned /\ B \subseteq files /\ B \subseteq Ids /\ B \cap Rows = {}
      /\ unversioned' = unversioned \ B
      /\ \A w \in Rows : ver[w].file \notin B
  <2>1. \A v \in B : v \in unversioned /\ v \in files /\ v \in Ids /\ v \notin Rows /\ \A w \in Rows : ver[w].file # v
    BY <1>2, <1>5
  <2>2. unversioned' = unversioned \ B
    BY <1>2 DEF Restart
  <2> QED
    BY <2>1, <2>2
<1>7. \A v \in Ids : v \notin B => ver'[v] = ver[v]
  BY <1>2 DEF Restart
<1>8. \A v \in B : \E g \in Gens :
        /\ gen[g].audio = v /\ Known(g) /\ VersionsOf(g) = {}
        /\ ver'[v] = [gen |-> g, file |-> v, fx |-> FALSE, dflt |-> TRUE, src |-> None]
  BY <1>2, <1>5 DEF Backfilled
<1>9. \A v \in B : /\ ver'[v] \in Version /\ ver'[v].file = v /\ ver'[v].dflt /\ ver'[v].src = None
                   /\ ver'[v].gen \in Gens /\ gen[ver'[v].gen].audio = v /\ Known(ver'[v].gen)
                   /\ \A w \in Rows : ver[w].gen # ver'[v].gen
  <2> SUFFICES ASSUME NEW v \in B
               PROVE  /\ ver'[v] \in Version /\ ver'[v].file = v /\ ver'[v].dflt /\ ver'[v].src = None
                      /\ ver'[v].gen \in Gens /\ gen[ver'[v].gen].audio = v /\ gen[ver'[v].gen] # NoGeneration
                      /\ \A w \in Rows : ver[w].gen # ver'[v].gen
    BY DEF Known
  <2>1. PICK g \in Gens : /\ gen[g].audio = v /\ Known(g) /\ VersionsOf(g) = {}
                          /\ ver'[v] = [gen |-> g, file |-> v, fx |-> FALSE, dflt |-> TRUE, src |-> None]
    BY <1>8
  <2>2. ver'[v] \in Version
    BY <1>6, <2>1 DEF Version
  <2> QED
    BY <2>1, <2>2 DEF Known, VersionsOf
<1>10. Rows' = Rows \cup B /\ \A w \in Rows : ver'[w] = ver[w]
  <2>1. \A w \in Rows : ver'[w] = ver[w]
    BY <1>6, <1>7 DEF Rows
  <2>2. \A w \in Ids : ver'[w] # None <=> w \in Rows \/ w \in B
    BY <1>3, <1>7, <1>9 DEF Rows
  <2> QED
    BY <1>6, <2>1, <2>2 DEF Rows
<1>11. CoreTypes'
  <2>1. \A w \in Ids : ver'[w] \in Version \cup {None}
    BY <1>1, <1>7, <1>9 DEF CoreTypes
  <2>2. ver' \in [Ids -> Version \cup {None}]
    BY <2>1 DEF Restart
  <2> QED
    BY <1>1, <1>4, <1>6, <2>2 DEF CoreTypes, GenTypes
<1>12. AudioIsThere'
  BY <1>1, <1>4, <1>6, <1>9, <1>10 DEF CoreInv, AudioIsThere
<1>13. OneOwner'
  <2>1. \A g, h \in Gens : gen'[g].audio = gen'[h].audio /\ gen'[g].audio # None => g = h
    BY <1>1, <1>4 DEF OneOwner
  <2>2. ASSUME NEW v \in Rows', NEW w \in Rows', ver'[v].file = ver'[w].file PROVE ver'[v].gen = ver'[w].gen
    <3>1. CASE v \in Rows /\ w \in Rows
      BY <1>1, <1>10, <2>2, <3>1 DEF OneOwner
    <3>2. CASE v \in B /\ w \in B
      BY <1>9, <2>2, <3>2
    <3>3. CASE ~(v \in Rows /\ w \in Rows) /\ ~(v \in B /\ w \in B)
      BY <1>6, <1>9, <1>10, <2>2, <3>3
    <3> QED
      BY <3>1, <3>2, <3>3
  <2>3. ASSUME NEW g \in Gens, NEW w \in Rows', gen'[g].audio = ver'[w].file PROVE ver'[w].gen = g
    <3>1. CASE w \in Rows
      BY <1>1, <1>4, <1>10, <2>3, <3>1 DEF OneOwner
    <3>2. CASE w \in B
      <4>1. gen[g].audio = w /\ gen[ver'[w].gen].audio = w /\ ver'[w].gen \in Gens /\ w # None
        BY <1>3, <1>4, <1>6, <1>9, <2>3, <3>2
      <4> QED
        BY <1>1, <4>1 DEF OneOwner
    <3> QED
      BY <1>10, <3>1, <3>2
  <2>4. ASSUME NEW f \in unversioned' PROVE ver'[f] = None /\ \A w \in Rows' : ver'[w].file # f
    <3>1. f \in unversioned /\ f \notin B /\ f \in Ids
      BY <1>1, <1>6 DEF CoreTypes
    <3> QED
      BY <1>1, <1>7, <1>9, <1>10, <3>1 DEF OneOwner
  <2> QED
    BY <2>1, <2>2, <2>3, <2>4 DEF OneOwner
<1>14. NewIds'
  <2> SUFFICES ASSUME NEW f \in Ids, f >= next PROVE f \notin files /\ ver'[f] = None /\ f \notin unversioned'
    BY <1>1 DEF NewIds
  <2>1. f \notin files /\ ver[f] = None /\ f \notin unversioned
    BY <1>1 DEF CoreInv, NewIds
  <2> QED
    BY <1>6, <1>7, <2>1
<1>15. OneDefault'
  <2> SUFFICES ASSUME NEW v \in Rows', NEW w \in Rows', ver'[v].gen = ver'[w].gen, ver'[v].dflt, ver'[w].dflt
               PROVE  v = w
    BY DEF OneDefault
  <2>1. CASE v \in Rows /\ w \in Rows
    BY <1>1, <1>10, <2>1 DEF CoreInv, OneDefault
  <2>2. CASE v \in B /\ w \in B
    BY <1>9, <2>2
  <2>3. CASE ~(v \in Rows /\ w \in Rows) /\ ~(v \in B /\ w \in B)
    BY <1>9, <1>10, <2>3
  <2> QED
    BY <2>1, <2>2, <2>3
<1>16. PublicAudio'
  <2> SUFFICES ASSUME NEW h \in Gens, gen'[h].audio # None, gen'[h].audio \notin unversioned'
               PROVE  \E w \in Rows' : ver'[w].gen = h /\ ver'[w].dflt /\ ver'[w].file = gen'[h].audio
    BY DEF PublicAudio, Defaults, VersionsOf
  <2>1. gen'[h].audio = gen[h].audio
    BY <1>4
  <2>2. CASE gen[h].audio \in B
    <3>1. PICK v \in B : v = gen[h].audio
      BY <2>2
    <3>2. ver'[v].gen = h
      BY <1>1, <1>3, <1>6, <1>9, <3>1 DEF OneOwner
    <3> QED
      BY <1>9, <1>10, <2>1, <3>1, <3>2
  <2>3. CASE gen[h].audio \notin B
    <3>1. gen[h].audio \notin unversioned
      BY <1>6, <2>1, <2>3
    <3>2. PICK w \in Rows : ver[w].gen = h /\ ver[w].dflt /\ ver[w].file = gen[h].audio
      BY <1>1, <2>1, <3>1 DEF CoreInv, PublicAudio, Defaults, VersionsOf
    <3> QED
      BY <1>10, <2>1, <3>2
  <2> QED
    BY <2>2, <2>3
<1>17. VersionsResolve'
  <2> SUFFICES ASSUME NEW v \in Rows'
               PROVE  /\ gen'[ver'[v].gen] # NoGeneration
                      /\ ver'[v].src # None => ver'[v].src \in Rows' /\ ver'[ver'[v].src].gen = ver'[v].gen
    BY DEF VersionsResolve, VersionsOf, Known
  <2>1. CASE v \in B
    BY <1>4, <1>9, <2>1 DEF Known
  <2>2. CASE v \in Rows
    <3>1. /\ gen[ver[v].gen] # NoGeneration /\ ver[v].gen \in Gens
          /\ ver[v].src # None => ver[v].src \in Rows /\ ver[ver[v].src].gen = ver[v].gen
      BY <1>1, <1>3, <2>2 DEF CoreInv, VersionsResolve, VersionsOf, Known
    <3> QED
      BY <1>4, <1>10, <2>2, <3>1
  <2> QED
    BY <1>10, <2>1, <2>2
<1>18. OnlyUnversionedStray'
  <2> SUFFICES ASSUME NEW f \in files, f \notin unversioned', \A h \in Gens : gen'[h].audio # f,
                      \A w \in Rows' : ver'[w].file # f
               PROVE  FALSE
    BY <1>1 DEF OnlyUnversionedStray
  <2>1. f \notin B
    BY <1>9, <1>10
  <2>2. f \notin unversioned /\ (\A h \in Gens : gen[h].audio # f) /\ \A w \in Rows : ver[w].file # f
    BY <1>4, <1>6, <1>10, <2>1
  <2> QED
    BY <1>1, <2>2 DEF CoreInv, OnlyUnversionedStray
<1>19. CoreInv'
  BY <1>11, <1>12, <1>13, <1>14, <1>15, <1>16, <1>17, <1>18 DEF CoreInv
<1>20. (\A h \in Gens : Known(h) => Known(h)') /\ \A h \in Gens : VersionsOf(h) \subseteq VersionsOf(h)'
  BY <1>4, <1>10 DEF Known, VersionsOf
<1>21. ClipTypes' /\ ClipsResolve'
  BY <1>1, <1>20, ClipsKept DEF LibraryInv
<1>22. HandlersInv'
  BY <1>1, NoneAssumption DEF HandlersInv, HandlerTypes, Idle, NoApply
<1> QED
  BY <1>19, <1>21, <1>22 DEF LibraryInv

-----------------------------------------------------------------------------
LEMMA NextKeeps == ASSUME LibraryInv, [LibraryNext]_libraryVars PROVE LibraryInv'
<1>1. ASSUME NEW g \in Gens, Retry(g) \/ Regenerate(g) PROVE LibraryInv'
  BY <1>1, AgainKeeps
<1>2. ASSUME NEW g \in Gens, Import(g) PROVE LibraryInv'
  BY <1>2, ImportKeeps
<1>3. ASSUME NEW g \in Gens, Preview(g) \/ \E s \in Ids \cup {None} : ApplyEffects(g, s) PROVE LibraryInv'
  BY <1>3, HandlerStepKeeps
<1>4. ASSUME NEW g \in Gens, DeleteGeneration(g) PROVE LibraryInv'
  <2>1. PICK S \in SUBSET Gens : S = {g}
    OBVIOUS
  <2>2. DeleteRecords(S) /\ job.gen \notin S
    BY <1>4, <2>1 DEF DeleteGeneration
  <2> QED
    BY <2>2, DeleteRecordsKeeps
<1>5. ASSUME NEW g \in Gens, NEW o \in Outcomes, Submit(g, o) PROVE LibraryInv'
  BY <1>5, SubmitKeeps
<1>6. ASSUME JobStep PROVE LibraryInv'
  <2>1. CASE JobFails
    BY <2>1, JobFailsKeeps
  <2>2. CASE ReadPredecessor
    BY <2>2, HandlerStepKeeps
  <2>3. ASSUME NEW o \in Outcomes, NEW fx \in BOOLEAN, SaveClean(o, fx) PROVE LibraryInv'
    BY <2>3, SaveCleanKeeps
  <2>4. ASSUME NEW o \in Outcomes, SaveProcessed(o) \/ SaveTake(o) PROVE LibraryInv'
    BY <2>4, SaveVersionKeeps
  <2>5. ASSUME NEW o \in Outcomes, SaveRetry(o) PROVE LibraryInv'
    BY <2>5, SaveRetryKeeps
  <2> QED
    BY <1>6, <2>1, <2>2, <2>3, <2>4, <2>5 DEF JobStep
<1>7. ASSUME NEW o \in Outcomes, NEW dflt \in BOOLEAN, EffectsApplied(o, dflt) PROVE LibraryInv'
  BY <1>7, EffectsAppliedKeeps
<1>8. ASSUME EffectsFail \/ PreviewEnds \/ UNCHANGED libraryVars PROVE LibraryInv'
  BY <1>8, HandlerStepKeeps
<1>9. ASSUME NEW v \in Ids, SetDefault(v) PROVE LibraryInv'
  BY <1>9, SetDefaultKeeps
<1>10. ASSUME NEW v \in Ids, DeleteVersion(v) PROVE LibraryInv'
  BY <1>10, DeleteVersionKeeps
<1>11. ASSUME ClearFailed PROVE LibraryInv'
  <2>1. PICK S \in SUBSET Gens : S = Failed
    BY DEF Failed
  <2>2. DeleteRecords(S) /\ job.gen \notin S
    BY <1>11, <2>1 DEF ClearFailed, Failed
  <2> QED
    BY <2>2, DeleteRecordsKeeps
<1>12. ASSUME \/ \E c \in Clips, g \in Gens : AddClip(c, g)
              \/ \E c \in Clips, p \in Ids \cup {None} : Pin(c, p)
              \/ \E c, d \in Clips : CopyClip(c, d)
              \/ \E S \in SUBSET Clips : RemoveClips(S)
       PROVE  LibraryInv'
  BY <1>12, ClipStepKeeps
<1>13. ASSUME Restart PROVE LibraryInv'
  BY <1>13, RestartKeeps
<1> QED
  BY <1>1, <1>2, <1>3, <1>4, <1>5, <1>6, <1>7, <1>8, <1>9, <1>10, <1>11, <1>12, <1>13 DEF LibraryNext

(* The invariant holds in every state, so references and files agree.       *)
THEOREM LibraryInvariant == LibrarySpec => []LibraryInv
<1>1. LibraryInit => LibraryInv
  <2> SUFFICES ASSUME LibraryInit PROVE LibraryInv
    OBVIOUS
  <2>1. CoreInv
    BY CoreInvInit
  <2>2. clip = [c \in Clips |-> None] /\ job = Idle /\ apply = NoApply /\ slot = None
    BY DEF LibraryInit
  <2>3. ClipTypes /\ ClipsResolve
    BY <2>2 DEF ClipTypes, ClipsResolve
  <2>4. HandlersInv
    BY <2>2, NoneAssumption DEF HandlersInv, HandlerTypes, Idle, NoApply
  <2> QED
    BY <2>1, <2>3, <2>4 DEF LibraryInv
<1>2. LibraryInv /\ [LibraryNext]_libraryVars => LibraryInv'
  BY NextKeeps
<1> QED
  BY <1>1, <1>2, PTL DEF LibrarySpec

(* Rows, versions, clips and files name each other and nothing else,        *)
(* whatever is saved, retried, processed, chosen or deleted in whatever     *)
(* order (versions.py, history.py, stories.py, generation.py).              *)
THEOREM LibraryStaysWhole == LibrarySpec => []LibraryIsWhole
<1>1. ASSUME LibraryInv PROVE LibraryIsWhole
  <2>1. CoreInv /\ CoreTypes /\ ClipTypes /\ ClipsResolve /\ HandlerTypes
    BY <1>1 DEF LibraryInv, CoreInv, HandlersInv
  <2>2. LibraryTypeOK
    BY <2>1 DEF LibraryTypeOK, CoreTypes, ClipTypes, HandlerTypes
  <2>3. ReferencesResolve
    BY <2>1 DEF ReferencesResolve, CoreInv, VersionsResolve, ClipsResolve, Known
  <2>4. ASSUME NEW g \in Gens PROVE Cardinality(Defaults(g)) <= 1
    <3>1. \A v, w \in Defaults(g) : v = w
      BY <2>1 DEF CoreInv, OneDefault, Defaults, VersionsOf
    <3>2. CASE Defaults(g) = {}
      BY <3>2, FS_EmptySet
    <3>3. CASE Defaults(g) # {}
      <4>1. PICK v : Defaults(g) = {v}
        BY <3>1, <3>3
      <4>2. Cardinality({v}) = 1
        BY FS_Singleton, Zenon
      <4>3. Cardinality(Defaults(g)) = 1
        BY <4>1, <4>2, Zenon
      <4> QED
        BY <4>3
    <3> QED
      BY <3>2, <3>3
  <2>5. DefaultIsPublic
    BY <2>1, <2>4 DEF DefaultIsPublic, CoreInv, PublicAudio
  <2> QED
    BY <2>1, <2>2, <2>3, <2>5 DEF LibraryIsWhole, CoreInv
<1> QED
  BY <1>1, LibraryInvariant, PTL

(* A version that stays keeps its file. *)
LEMMA VersionsKeepFiles ==
    ASSUME LibraryInv, [LibraryNext]_libraryVars
    PROVE  \A v \in Rows : ver'[v] # None => ver'[v].file = ver[v].file
<1>1. CASE UNCHANGED ver
  BY <1>1
<1>2. ASSUME NEW g \in Gens, NEW fx \in BOOLEAN, NEW dflt \in BOOLEAN, NEW src \in Ids \cup {None},
             CanMake, Create(g, fx, dflt, src)
      PROVE  \A v \in Rows : ver'[v].file = ver[v].file
  BY <1>2, AddedVersion DEF Create, LibraryInv
<1>3. ASSUME NEW w \in Ids, SetDefault(w) \/ DeleteVersion(w)
      PROVE  \A v \in Rows : ver'[v] # None => ver'[v].file = ver[v].file
  <2>1. \A v \in Rows : ver[v] \in Version
    BY VersionFacts DEF LibraryInv, CoreInv
  <2>2. CASE SetDefault(w)
    BY <2>1, <2>2 DEF SetDefault, Version, Rows
  <2>3. CASE DeleteVersion(w)
    BY <2>1, <2>3 DEF DeleteVersion, Version, Rows
  <2> QED
    BY <1>3, <2>2, <2>3
<1>4. ASSUME NEW S, DeleteRecords(S) PROVE \A v \in Rows : ver'[v] # None => ver'[v] = ver[v]
  BY <1>4 DEF DeleteRecords, Rows
<1>5. ASSUME Restart PROVE \A v \in Rows : ver'[v] = ver[v]
  <2>1. /\ CoreInv /\ CoreTypes /\ OneOwner
    BY DEF LibraryInv, CoreInv
  <2>2. ASSUME NEW g \in Backfilled PROVE gen[g].audio \notin Rows
    <3>1. g \in Gens /\ VersionsOf(g) = {} /\ gen[g].audio \in files /\ gen[g].audio \in Ids
      BY <2>1 DEF Backfilled, CoreTypes
    <3>2. gen[g].audio \in unversioned
      BY <2>1, <3>1, VersionFacts DEF CoreInv, PublicAudio, Defaults
    <3> QED
      BY <2>1, <3>2 DEF OneOwner, Rows
  <2> QED
    BY <1>5, <2>2 DEF Restart, Rows
<1>6. ASSUME JobStep PROVE \A v \in Rows : ver'[v] # None => ver'[v].file = ver[v].file
  <2>1. CASE UNCHANGED ver
    BY <2>1
  <2>2. CASE ~UNCHANGED ver
    <3>1. job # Idle /\ CanMake /\ \E fx, dflt \in BOOLEAN : Create(job.gen, fx, dflt, None)
      <4>1. PICK o \in Outcomes : (\E fx \in BOOLEAN : SaveClean(o, fx)) \/ SaveProcessed(o) \/ SaveTake(o)
        BY <1>6, <2>2 DEF JobStep, JobFails, ReadPredecessor, SaveRetry
      <4>2. CASE \E fx \in BOOLEAN : SaveClean(o, fx)
        <5>1. job.at # "idle" /\ CanMake /\ \E fx \in BOOLEAN : Create(job.gen, FALSE, ~fx, None)
          BY <2>2, <4>2 DEF SaveClean
        <5>2. job # Idle
          BY <5>1 DEF Idle
        <5>3. \E fx, dflt \in BOOLEAN : Create(job.gen, fx, dflt, None)
          BY <5>1
        <5> QED
          BY <5>1, <5>2, <5>3
      <4>3. CASE SaveProcessed(o)
        <5>1. job.at # "idle" /\ CanMake /\ Create(job.gen, TRUE, TRUE, None)
          BY <2>2, <4>3 DEF SaveProcessed
        <5>2. job # Idle
          BY <5>1 DEF Idle
        <5>3. \E fx, dflt \in BOOLEAN : Create(job.gen, fx, dflt, None)
          BY <5>1
        <5> QED
          BY <5>1, <5>2, <5>3
      <4>4. CASE SaveTake(o)
        <5>1. job.at # "idle" /\ CanMake /\ Create(job.gen, FALSE, TRUE, None)
          BY <2>2, <4>4 DEF SaveTake
        <5>2. job # Idle
          BY <5>1 DEF Idle
        <5>3. \E fx, dflt \in BOOLEAN : Create(job.gen, fx, dflt, None)
          BY <5>1
        <5> QED
          BY <5>1, <5>2, <5>3
      <4> QED
        BY <4>1, <4>2, <4>3, <4>4
    <3>2. job.gen \in Gens
      BY <3>1 DEF LibraryInv, HandlersInv
    <3> QED
      BY <1>2, <3>1, <3>2
  <2> QED
    BY <2>1, <2>2
<1>7. ASSUME NEW o \in Outcomes, NEW dflt \in BOOLEAN, EffectsApplied(o, dflt)
      PROVE  \A v \in Rows : ver'[v] # None => ver'[v].file = ver[v].file
  <2>1. CanMake /\ (UNCHANGED ver \/ Create(apply.gen, TRUE, dflt, apply.src))
    BY <1>7 DEF EffectsApplied, Publish
  <2>2. apply.gen \in Gens /\ apply.src \in Ids \cup {None}
    BY <1>7 DEF EffectsApplied, LibraryInv, HandlersInv, HandlerTypes
  <2> QED
    BY <1>1, <1>2, <2>1, <2>2
<1>8. ASSUME \/ \E g \in Gens : \/ Retry(g) \/ Regenerate(g) \/ Import(g) \/ Preview(g)
                                \/ \E o \in Outcomes : Submit(g, o)
                                \/ \E s \in Ids \cup {None} : ApplyEffects(g, s)
                                \/ \E c \in Clips : AddClip(c, g)
             \/ EffectsFail \/ PreviewEnds \/ UNCHANGED libraryVars
             \/ \E c \in Clips : \/ \E p \in Ids \cup {None} : Pin(c, p)
                                 \/ \E d \in Clips : CopyClip(c, d)
             \/ \E S \in SUBSET Clips : RemoveClips(S)
      PROVE  UNCHANGED ver
  BY <1>8 DEF Retry, Regenerate, Import, Preview, Submit, ApplyEffects, AddClip, EffectsFail, PreviewEnds,
     libraryVars, Pin, CopyClip, RemoveClips
<1> QED
  BY <1>1, <1>3, <1>4, <1>5, <1>6, <1>7, <1>8 DEF LibraryNext, DeleteGeneration, ClearFailed

(* What a pinned clip plays is never changed or taken from it               *)
(* (VersionInUseError, versions.py:312; set_story_item_version).            *)
THEOREM PinnedClipsKeepTheirAudio == LibrarySpec => PinnedClipKeepsItsAudio
<1>1. ASSUME LibraryInv, LibraryInv', [LibraryNext]_libraryVars,
             NEW c \in Clips, clip[c] # None, clip[c].pin # None, clip'[c] = clip[c]
      PROVE  /\ ver'[clip[c].pin] # None
             /\ ver'[clip[c].pin].file = ver[clip[c].pin].file
             /\ ver[clip[c].pin].file \in files'
  <2>1. PICK p : p = clip[c].pin
    OBVIOUS
  <2>2. p \in Rows /\ p \in Rows'
    BY <1>1, <2>1 DEF LibraryInv, ClipsResolve, VersionsOf
  <2>3. ver'[p] # None
    BY <2>2 DEF Rows
  <2>4. ver'[p].file = ver[p].file
    BY <1>1, <2>2, <2>3, VersionsKeepFiles
  <2>5. ver'[p].file \in files'
    BY <1>1, <2>2 DEF LibraryInv, CoreInv, AudioIsThere
  <2> QED
    BY <2>1, <2>3, <2>4, <2>5
<1>2. ASSUME LibraryInv, LibraryInv', [LibraryNext]_libraryVars
      PROVE  [\A c \in Clips :
                /\ clip[c] # None /\ clip[c].pin # None /\ clip'[c] = clip[c]
                => /\ ver'[clip[c].pin] # None
                   /\ ver'[clip[c].pin].file = ver[clip[c].pin].file
                   /\ ver[clip[c].pin].file \in files']_libraryVars
  BY <1>1, <1>2
<1> QED
  BY <1>2, LibraryInvariant, PTL DEF LibrarySpec, PinnedClipKeepsItsAudio

-----------------------------------------------------------------------------
(* RenderJobs: directories, threads and leases of the requests that render. *)

RequestStates == {"new", "rendering", "draining", "answering", "gone"}
WorkerStates == {"none", "begun", "reserved", "good", "bad"}

RenderTypes ==
    /\ call \in [Requests -> RequestStates] /\ thread \in [Requests -> WorkerStates]
    /\ onDisk \subseteq Requests /\ inUse \subseteq Requests /\ lease \subseteq Requests
    /\ boot \in BOOLEAN /\ trouble \in Nat

(* A directory is active from the admission of its request to the end of    *)
(* its response, and there all that time; its thread ends before.           *)
Served(r) ==
    /\ r \in inUse <=> call[r] \in {"rendering", "draining", "answering"}
    /\ r \in inUse => r \in onDisk
    /\ Working(r) => call[r] \in {"rendering", "draining"}

Alone == \A r, s \in RendersHeld : Group(r) = Group(s) => r = s

(* The disk space of r follows its thread, or the bytes of its Story.       *)
Leased(r) ==
    /\ thread[r] = "reserved" => r \in lease
    /\ r \in Exports /\ r \in lease => r \in onDisk
    /\ r \in Exports /\ r \notin earlier /\ r \in onDisk /\ thread[r] = "good" => r \in lease
    /\ r \notin Exports /\ r \in lease => Working(r)

(* What nobody uses any more could not be removed.                          *)
OnlyStuck == ~boot => Cardinality(onDisk \ inUse) <= trouble

Booting == boot => inUse = {} /\ lease = {} /\ \A r \in Requests : thread[r] = "none"

RendersInv ==
    /\ RenderTypes /\ Alone /\ OnlyStuck /\ Booting
    /\ \A r \in Requests : Served(r) /\ Leased(r)

LEMMA RequestsFinite == \A S \in SUBSET Requests : IsFiniteSet(S) /\ Cardinality(S) \in Nat
BY RenderJobsAssumption, FS_Subset, FS_CardinalityType DEF Requests

LEMMA GroupFacts ==
    /\ \A r \in Requests : r \in Group(r) /\ Group(r) \subseteq Requests
    /\ \A r, s \in Requests : s \in Group(r) <=> Group(s) = Group(r)
    /\ \A r \in Requests : r \in Exports => Group(r) = Exports
    /\ \A r \in Requests : r \notin Exports => Group(r) \cap Exports = {} /\ (Group(r) = Exports => FALSE)
BY RenderJobsAssumption DEF Requests, Group

LEMMA RendersInvInit == RenderJobsInit => RendersInv
<1> SUFFICES ASSUME RenderJobsInit PROVE RendersInv
  OBVIOUS
<1>1. RenderTypes /\ Booting
  BY DEF RenderJobsInit, RenderTypes, RequestStates, WorkerStates, Booting
<1>2. \A r \in Requests : Served(r) /\ Leased(r)
  BY DEF RenderJobsInit, Served, Leased, Working
<1>3. Alone
  BY DEF RenderJobsInit, Alone, RendersHeld
<1>4. OnlyStuck
  BY FS_EmptySet DEF RenderJobsInit, OnlyStuck
<1> QED
  BY <1>1, <1>2, <1>3, <1>4 DEF RendersInv

(* Fewer directories that nobody uses, or as many failures more.            *)
LEMMA StuckKept ==
    ASSUME RendersInv, RenderTypes', onDisk' \ inUse' \subseteq onDisk \ inUse, trouble' >= trouble, boot' = boot
    PROVE  OnlyStuck'
<1>1. /\ Cardinality(onDisk' \ inUse') <= Cardinality(onDisk \ inUse)
      /\ Cardinality(onDisk' \ inUse') \in Nat /\ Cardinality(onDisk \ inUse) \in Nat
  BY RequestsFinite, FS_Subset DEF RendersInv, RenderTypes
<1> QED
  BY <1>1 DEF RendersInv, OnlyStuck, RenderTypes

LEMMA SweepFacts ==
    ASSUME RendersInv, NEW r \in Requests, NEW remains \in SUBSET Stale(Group(r)), Sweep(Group(r), remains)
    PROVE  /\ trouble' \in Nat /\ trouble' >= trouble
           /\ AfterSweep(Group(r), remains) \subseteq onDisk
           /\ \A s \in inUse : s \in onDisk => s \in AfterSweep(Group(r), remains)
           /\ \A s \in onDisk \ Group(r) : s \in AfterSweep(Group(r), remains)
           /\ LeasesAfterSweep(Group(r), remains) \subseteq lease
           /\ \A s \in inUse : s \in lease => s \in LeasesAfterSweep(Group(r), remains)
           /\ \A s \in Exports : s \in lease /\ s \notin LeasesAfterSweep(Group(r), remains)
                  <=> s \in lease /\ s \notin AfterSweep(Group(r), remains)
           /\ \A s \in Requests \ Exports :
                  s \in lease <=> s \in LeasesAfterSweep(Group(r), remains)
<1>1. Cardinality(remains) \in Nat
  BY RequestsFinite DEF Stale, RendersInv, RenderTypes
<1>2. trouble' \in Nat /\ trouble' >= trouble
  BY <1>1 DEF Sweep, RendersInv, RenderTypes
<1>3. \A s \in Exports : s \in lease => s \in onDisk
  BY DEF RendersInv, Leased, Requests
<1> QED
  BY <1>2, <1>3, GroupFacts DEF AfterSweep, LeasesAfterSweep, Stale


-----------------------------------------------------------------------------
(* Requests are admitted, refused and answered. *)

LEMMA RefuseKeeps == ASSUME RendersInv, NEW r \in Requests, Refuse(r) PROVE RendersInv'
<1>1. /\ ~boot /\ call[r] = "new" /\ call' = [call EXCEPT ![r] = "gone"]
      /\ UNCHANGED <<thread, inUse, lease, earlier, boot, restarts>>
  BY DEF Refuse
<1>2. /\ onDisk' \subseteq onDisk /\ trouble' \in Nat /\ trouble' >= trouble
      /\ \A s \in inUse : s \in onDisk => s \in onDisk'
      /\ \A s \in Exports : s \in onDisk => s \in onDisk'
  <2>1. CASE UNCHANGED <<onDisk, lease, trouble>>
    BY <2>1 DEF RendersInv, RenderTypes
  <2>2. ASSUME r \notin Exports, NEW remains \in SUBSET Stale(Group(r)), Sweep(Group(r), remains),
               onDisk' = AfterSweep(Group(r), remains)
        PROVE  /\ onDisk' \subseteq onDisk /\ trouble' \in Nat /\ trouble' >= trouble
               /\ \A s \in inUse : s \in onDisk => s \in onDisk'
               /\ \A s \in Exports : s \in onDisk => s \in onDisk'
    BY <2>2, SweepFacts, GroupFacts
  <2> QED
    BY <2>1, <2>2 DEF Refuse
<1>3. RenderTypes'
  BY <1>1, <1>2 DEF RendersInv, RenderTypes, RequestStates
<1>4. Alone'
  BY <1>1 DEF RendersInv, RenderTypes, Alone, RendersHeld
<1>5. OnlyStuck'
  BY <1>1, <1>2, <1>3, StuckKept
<1>6. Booting'
  BY <1>1 DEF Booting
<1>7. ASSUME NEW s \in Requests PROVE Served(s)' /\ Leased(s)'
  BY <1>1, <1>2 DEF RendersInv, RenderTypes, Served, Leased, Working
<1> QED
  BY <1>3, <1>4, <1>5, <1>6, <1>7 DEF RendersInv

LEMMA AdmitKeeps == ASSUME RendersInv, NEW r \in Requests, AdmitRender(r) PROVE RendersInv'
<1>1. /\ ~boot /\ call[r] = "new" /\ GroupFree(r) /\ call' = [call EXCEPT ![r] = "rendering"]
      /\ thread' = [thread EXCEPT ![r] = "begun"] /\ inUse' = inUse \cup {r}
      /\ UNCHANGED <<earlier, boot, restarts>>
  BY DEF AdmitRender
<1>2. PICK remains \in SUBSET Stale(Group(r)) :
          /\ Sweep(Group(r), remains)
          /\ onDisk' = AfterSweep(Group(r), remains) \cup {r}
          /\ lease' = LeasesAfterSweep(Group(r), remains)
  BY DEF AdmitRender
<1>3. /\ trouble' \in Nat /\ trouble' >= trouble
      /\ AfterSweep(Group(r), remains) \subseteq onDisk
      /\ \A s \in inUse : s \in onDisk => s \in AfterSweep(Group(r), remains)
      /\ lease' \subseteq lease
      /\ \A s \in inUse : s \in lease => s \in lease'
      /\ \A s \in Exports : s \in lease /\ s \notin lease' <=> s \in lease /\ s \notin AfterSweep(Group(r), remains)
      /\ \A s \in Requests \ Exports : s \in lease <=> s \in lease'
  BY <1>2, SweepFacts
<1>4. RenderTypes'
  BY <1>1, <1>2, <1>3 DEF RendersInv, RenderTypes, RequestStates, WorkerStates
<1>5. Alone'
  <2> SUFFICES ASSUME NEW s \in RendersHeld', NEW t \in RendersHeld', Group(s) = Group(t) PROVE s = t
    BY DEF Alone, Group
  <2>1. s \in RendersHeld \cup {r} /\ t \in RendersHeld \cup {r} /\ s \in Requests /\ t \in Requests
    BY <1>1 DEF RendersHeld, RendersInv, RenderTypes
  <2>2. \A w \in RendersHeld : w \notin Group(r)
    BY <1>1 DEF GroupFree
  <2> QED
    BY <2>1, <2>2, GroupFacts DEF RendersInv, Alone
<1>6. OnlyStuck'
  BY <1>1, <1>2, <1>3, <1>4, StuckKept
<1>7. Booting'
  BY <1>1 DEF Booting
<1>8. ASSUME NEW s \in Requests PROVE Served(s)' /\ Leased(s)'
  <2>1. Served(s) /\ Leased(s)
    BY DEF RendersInv
  <2>2. CASE s = r
    <3>1. call'[s] = "rendering" /\ thread'[s] = "begun" /\ s \in inUse' /\ s \in onDisk'
      BY <1>1, <1>2, <2>2 DEF RendersInv, RenderTypes
    <3>2. s \notin Exports /\ s \in lease' => Working(s)'
      BY <3>1 DEF Working
    <3> QED
      BY <3>1, <3>2 DEF Served, Leased, Working
  <2>3. CASE s # r
    <3>1. /\ call'[s] = call[s] /\ thread'[s] = thread[s] /\ (s \in inUse' <=> s \in inUse)
          /\ (s \in onDisk' <=> s \in AfterSweep(Group(r), remains))
      BY <1>1, <1>2, <2>3 DEF RendersInv, RenderTypes
    <3>2. Served(s)'
      BY <1>3, <2>1, <3>1 DEF Served, Working
    <3>3. thread[s] = "reserved" => s \in inUse
      BY <2>1 DEF Served, Working
    <3>4. Leased(s)'
      BY <1>1, <1>3, <2>1, <3>1, <3>3 DEF Leased, Working
    <3> QED
      BY <3>2, <3>4
  <2> QED
    BY <2>2, <2>3
<1> QED
  BY <1>4, <1>5, <1>6, <1>7, <1>8 DEF RendersInv

LEMMA CancelKeeps == ASSUME RendersInv, NEW r \in Requests, CancelRender(r) PROVE RendersInv'
<1>1. /\ call[r] = "rendering" /\ call' = [call EXCEPT ![r] = "draining"]
      /\ UNCHANGED <<thread, onDisk, inUse, lease, earlier, boot, trouble>>
  BY DEF CancelRender
<1>2. RenderTypes' /\ Booting'
  BY <1>1 DEF RendersInv, RenderTypes, RequestStates, Booting
<1>3. RendersHeld' = RendersHeld
  BY <1>1 DEF RendersHeld, RendersInv, RenderTypes
<1>4. Alone' /\ OnlyStuck'
  BY <1>1, <1>3 DEF RendersInv, Alone, OnlyStuck, Group
<1>5. ASSUME NEW s \in Requests PROVE Served(s)' /\ Leased(s)'
  BY <1>1 DEF RendersInv, RenderTypes, Served, Leased, Working
<1> QED
  BY <1>2, <1>4, <1>5 DEF RendersInv

LEMMA ThreadKeeps == ASSUME RendersInv, NEW r \in Requests, Threads(r) PROVE RendersInv'
<1>1. /\ UNCHANGED <<call, onDisk, inUse, earlier, boot, trouble>>
      /\ \/ thread[r] = "begun" /\ thread' = [thread EXCEPT ![r] = "reserved"] /\ lease' = lease \cup {r}
         \/ /\ thread[r] = "reserved" /\ thread' = [thread EXCEPT ![r] = "good"]
            /\ lease' = IF r \in Exports THEN lease ELSE lease \ {r}
         \/ /\ Working(r) /\ thread' = [thread EXCEPT ![r] = "bad"]
            /\ lease' = IF r \in Exports THEN lease ELSE lease \ {r}
  BY DEF Threads, Reserve, FinishThread, GiveUp, ThreadEnds
<1>2. Working(r)
  BY <1>1 DEF Working
<1>3. RenderTypes'
  BY <1>1 DEF RendersInv, RenderTypes, WorkerStates
<1>4. ~boot
  BY <1>2 DEF RendersInv, Booting, Working
<1>5. Alone' /\ OnlyStuck' /\ Booting'
  BY <1>1, <1>4 DEF RendersInv, Alone, OnlyStuck, RendersHeld, Group, Booting
<1>6. ASSUME NEW s \in Requests PROVE Served(s)' /\ Leased(s)'
  <2>1. Served(s) /\ Leased(s)
    BY DEF RendersInv
  <2>2. CASE s = r
    <3>1. s \in inUse /\ s \in onDisk
      BY <1>2, <2>1, <2>2 DEF Served
    <3>2. Served(s)'
      BY <1>1, <1>2, <2>1, <2>2 DEF Served
    <3>3. Leased(s)'
      BY <1>1, <2>1, <2>2, <3>1 DEF RendersInv, RenderTypes, Leased, Working
    <3> QED
      BY <3>2, <3>3
  <2>3. CASE s # r
    BY <1>1, <2>1, <2>3 DEF RendersInv, RenderTypes, Served, Leased, Working
  <2> QED
    BY <2>2, <2>3
<1> QED
  BY <1>3, <1>5, <1>6 DEF RendersInv

LEMMA AnswerKeeps == ASSUME RendersInv, NEW r \in Requests, Answer(r) PROVE RendersInv'
<1>1. /\ call[r] = "rendering" /\ thread[r] = "good" /\ call' = [call EXCEPT ![r] = "answering"]
      /\ UNCHANGED <<thread, onDisk, inUse, lease, earlier, boot, trouble>>
  BY DEF Answer, LeaveAs
<1>2. RenderTypes' /\ Booting'
  BY <1>1 DEF RendersInv, RenderTypes, RequestStates, Booting
<1>3. RendersHeld' \subseteq RendersHeld
  BY <1>1 DEF RendersHeld, RendersInv, RenderTypes
<1>4. Alone' /\ OnlyStuck'
  BY <1>1, <1>3 DEF RendersInv, Alone, OnlyStuck, Group
<1>5. ASSUME NEW s \in Requests PROVE Served(s)' /\ Leased(s)'
  BY <1>1 DEF RendersInv, RenderTypes, Served, Leased, Working
<1> QED
  BY <1>2, <1>4, <1>5 DEF RendersInv

(* A request ends: its directory goes, or is one more that is stuck.        *)
LEMMA EndKeeps == ASSUME RendersInv, NEW r \in Requests, EndRender(r) \/ Sent(r) PROVE RendersInv'
<1>1. /\ call[r] \in {"rendering", "draining", "answering"} /\ ~Working(r)
      /\ call' = [call EXCEPT ![r] = "gone"] /\ Cleanup(r)
      /\ UNCHANGED <<thread, earlier, boot, restarts>>
  BY DEF EndRender, Sent, LeaveAs, Working, RendersInv, Served
<1>2. inUse' = inUse \ {r} /\ r \in inUse /\ r \in onDisk
  BY <1>1 DEF Cleanup, RendersInv, Served
<1>3. \/ onDisk' = onDisk \ {r} /\ lease' = lease \ {r} /\ UNCHANGED trouble
      \/ trouble' = trouble + 1 /\ UNCHANGED <<onDisk, lease>>
  BY <1>1 DEF Cleanup
<1>4. RenderTypes'
  BY <1>1, <1>2, <1>3 DEF RendersInv, RenderTypes, RequestStates
<1>5. Alone'
  <2>1. RendersHeld' \subseteq RendersHeld
    BY <1>1 DEF RendersHeld, RendersInv, RenderTypes
  <2> QED
    BY <2>1 DEF RendersInv, Alone, Group
<1>6. OnlyStuck'
  <2>1. CASE onDisk' = onDisk \ {r} /\ UNCHANGED trouble
    <3>1. onDisk' \ inUse' \subseteq onDisk \ inUse /\ trouble' >= trouble
      BY <1>2, <2>1 DEF RendersInv, RenderTypes
    <3> QED
      BY <1>1, <1>4, <3>1, StuckKept
  <2>2. CASE trouble' = trouble + 1 /\ UNCHANGED onDisk
    <3>1. onDisk' \ inUse' = (onDisk \ inUse) \cup {r}
      BY <1>2, <2>2
    <3>2. IsFiniteSet(onDisk \ inUse) /\ Cardinality(onDisk \ inUse) \in Nat
      BY RequestsFinite DEF RendersInv, RenderTypes
    <3>3. Cardinality(onDisk' \ inUse') <= Cardinality(onDisk \ inUse) + 1
      <4>1. PICK S : S = onDisk \ inUse
        OBVIOUS
      <4>2. r \notin S
        BY <1>2, <4>1
      <4>3. Cardinality(S \cup {r}) = Cardinality(S) + 1
        BY <3>2, <4>1, <4>2, FS_AddElement
      <4>4. Cardinality(onDisk' \ inUse') = Cardinality(S \cup {r})
        BY <3>1, <4>1
      <4> QED
        BY <3>2, <4>1, <4>3, <4>4
    <3> QED
      BY <1>1, <2>2, <3>2, <3>3, RequestsFinite DEF RendersInv, RenderTypes, OnlyStuck
  <2> QED
    BY <1>3, <2>1, <2>2
<1>7. Booting'
  BY <1>1, <1>2 DEF RendersInv, Booting
<1>8. ASSUME NEW s \in Requests PROVE Served(s)' /\ Leased(s)'
  BY <1>1, <1>2, <1>3 DEF RendersInv, RenderTypes, Served, Leased, Working
<1> QED
  BY <1>4, <1>5, <1>6, <1>7, <1>8 DEF RendersInv

-----------------------------------------------------------------------------
(* Restarts. *)

LEMMA DieKeeps == ASSUME RendersInv, Die PROVE RendersInv'
<1>1. /\ earlier' = {r \in Requests : call[r] # "new"}
      /\ call' = [r \in Requests |-> IF call[r] = "new" THEN "new" ELSE "gone"]
      /\ thread' = [r \in Requests |-> "none"]
      /\ inUse' = {} /\ lease' = {} /\ boot' = TRUE
      /\ UNCHANGED <<onDisk, trouble>>
  BY DEF Die
<1>2. RenderTypes' /\ Booting' /\ OnlyStuck'
  BY <1>1 DEF RendersInv, RenderTypes, RequestStates, WorkerStates, Booting, OnlyStuck
<1>3. Alone'
  BY <1>1 DEF Alone, RendersHeld
<1>4. ASSUME NEW s \in Requests PROVE Served(s)' /\ Leased(s)'
  BY <1>1 DEF Served, Leased, Working
<1> QED
  BY <1>2, <1>3, <1>4 DEF RendersInv

LEMMA CleanKeeps == ASSUME RendersInv, Clean PROVE RendersInv'
<1>1. boot /\ boot' = FALSE /\ UNCHANGED <<call, thread, inUse, lease, earlier, restarts>>
  BY DEF Clean
<1>2. PICK remains \in SUBSET Stale(Requests) :
          Sweep(Requests, remains) /\ onDisk' = AfterSweep(Requests, remains)
  BY DEF Clean
<1>3. inUse = {} /\ lease = {} /\ \A r \in Requests : thread[r] = "none"
  BY <1>1 DEF RendersInv, Booting
<1>4. onDisk' = remains /\ remains \subseteq Requests
  BY <1>2, <1>3 DEF AfterSweep, Stale, RendersInv, RenderTypes
<1>5. trouble' \in Nat /\ Cardinality(remains) <= trouble'
  <2>1. Cardinality(remains) \in Nat /\ trouble \in Nat
    BY <1>4, RequestsFinite DEF RendersInv, RenderTypes
  <2>2. trouble' = trouble + Cardinality(remains)
    BY <1>2 DEF Sweep
  <2> QED
    BY <2>1, <2>2
<1>6. RenderTypes' /\ Booting'
  <2>1. RenderTypes'
    BY <1>1, <1>4, <1>5 DEF RendersInv, RenderTypes
  <2> QED
    BY <1>1, <2>1 DEF Booting
<1>7. OnlyStuck'
  <2>1. onDisk' \ inUse' = remains
    BY <1>1, <1>3, <1>4
  <2> QED
    BY <1>5, <2>1 DEF OnlyStuck
<1>8. Alone'
  BY <1>1 DEF RendersInv, Alone, RendersHeld, Group
<1>9. ASSUME NEW s \in Requests PROVE Served(s)' /\ Leased(s)'
  BY <1>1, <1>3 DEF RendersInv, Served, Leased, Working
<1> QED
  BY <1>6, <1>7, <1>8, <1>9 DEF RendersInv

LEMMA RendersInvStep == RendersInv /\ [RenderJobsNext]_renderJobVars => RendersInv'
<1> SUFFICES ASSUME RendersInv, [RenderJobsNext]_renderJobVars PROVE RendersInv'
  OBVIOUS
<1>1. CASE UNCHANGED renderJobVars
  <2>1. RenderTypes' /\ Booting' /\ Alone' /\ OnlyStuck'
    BY <1>1 DEF renderJobVars, RendersInv, RenderTypes, Booting, Alone, RendersHeld, Group, OnlyStuck
  <2>2. ASSUME NEW s \in Requests PROVE Served(s)' /\ Leased(s)'
    BY <1>1 DEF renderJobVars, RendersInv, Served, Leased, Working
  <2> QED
    BY <2>1, <2>2 DEF RendersInv
<1>2. CASE \E r \in Requests : Refuse(r) \/ AdmitRender(r) \/ Threads(r) \/ Handlers(r) \/ CancelRender(r)
  BY <1>2, RefuseKeeps, AdmitKeeps, ThreadKeeps, AnswerKeeps, EndKeeps, CancelKeeps DEF Handlers
<1>3. CASE Die \/ Clean
  BY <1>3, DieKeeps, CleanKeeps
<1> QED
  BY <1>1, <1>2, <1>3 DEF RenderJobsNext

(* For any number of requests, failed removals and restarts: nothing that   *)
(* is rendered into is taken away or left behind, a group renders one thing *)
(* at a time, and disk space is reserved as long as its bytes may be there. *)
THEOREM RendersOwned == RenderJobsSpec => []RendersAreOwned
<1>1. ASSUME RendersInv PROVE RendersAreOwned
  <2>1. \A r \in Requests : Served(r) /\ Leased(r)
    BY <1>1 DEF RendersInv
  <2>2. \A r \in Requests : (call[r] = "answering" \/ Working(r)) => r \in onDisk \cap inUse
    BY <2>1 DEF Served
  <2>3. \A r, s \in Requests : (Working(r) /\ Working(s) /\ Group(r) = Group(s)) => r = s
    BY <1>1, <2>1 DEF RendersInv, Alone, Served, RendersHeld
  <2>4. inUse = {} /\ ~boot => Cardinality(onDisk) <= trouble
    <3> SUFFICES ASSUME inUse = {}, ~boot PROVE Cardinality(onDisk) <= trouble
      OBVIOUS
    <3>1. onDisk \ inUse = onDisk
      OBVIOUS
    <3> QED
      BY <1>1, <3>1 DEF RendersInv, OnlyStuck
  <2>5. LeaseFollowsBytes
    BY <2>1 DEF LeaseFollowsBytes, Leased, Requests
  <2> QED
    BY <2>2, <2>3, <2>4, <2>5 DEF RendersAreOwned, ScratchIsOwned
<1> QED
  BY <1>1, RendersInvInit, RendersInvStep, PTL DEF RenderJobsSpec

-----------------------------------------------------------------------------
(* The timeline of a Story (stories.py).                                    *)

StoryTimelineSpec == StoryTimelineInit /\ [][StoryTimelineNext]_storyVars

Clip == [gen : Generations, pin : Versions \cup {NoPin}, start : 0..Timeline, track : Tracks,
         head : 0..ClipCap, tail : 0..ClipCap]

(* What a request may leave as the clips of the Story: something is left of *)
(* each by the durations, and its version is there.                         *)
Fit(c) ==
    /\ ~shrunk => HasLength(c)
    /\ c.pin # NoPin => takes[c.gen][c.pin] > 0
Sound(cs) ==
    /\ DOMAIN cs \subseteq 1..MaxItems /\ cs \in [DOMAIN cs -> Clip]
    /\ \A i \in DOMAIN cs : Fit(cs[i])

TimelineInv ==
    /\ story \in BOOLEAN /\ shrunk \in BOOLEAN /\ edits \in Nat
    /\ duration \in [Generations -> 1..ClipCap] /\ public \in [Generations -> 1..ClipCap]
    /\ takes \in [Generations -> [Versions -> 0..ClipCap]]
    /\ Sound(item) /\ (Items # {} => story)

LEMMA ClipFields ==
    ASSUME TimelineInv, NEW c \in Clip
    PROVE  /\ c.gen \in Generations /\ c.pin \in Versions \cup {NoPin} /\ c.track \in Tracks
           /\ c.start \in 0..Timeline /\ c.start \in Nat /\ c.head \in 0..ClipCap /\ c.head \in Nat
           /\ c.tail \in 0..ClipCap /\ c.tail \in Nat /\ c.track \in Nat
           /\ duration[c.gen] \in 1..ClipCap /\ duration[c.gen] \in Nat
           /\ Effective(c) = duration[c.gen] - c.head - c.tail /\ Effective(c) \in Int /\ Effective(c) <= ClipCap
<1>1. /\ c.gen \in Generations /\ c.pin \in Versions \cup {NoPin} /\ c.track \in Tracks
      /\ c.start \in 0..Timeline /\ c.head \in 0..ClipCap /\ c.tail \in 0..ClipCap
  BY DEF Clip
<1>2. duration[c.gen] \in 1..ClipCap
  BY <1>1 DEF TimelineInv
<1>3. Timeline \in Nat /\ ClipCap \in Nat /\ Tracks \subseteq Nat
  BY StoryTimelineAssumption
<1>4. Effective(c) = duration[c.gen] - c.head - c.tail
  BY DEF Effective
<1>5. /\ \A x \in 0..Timeline : x \in Nat
      /\ \A x \in 0..ClipCap : x \in Nat
      /\ \A x \in 1..ClipCap : x \in Nat
  BY <1>3
<1>6. c.start \in Nat /\ c.head \in Nat /\ c.tail \in Nat /\ c.track \in Nat /\ duration[c.gen] \in Nat
  BY <1>1, <1>2, <1>3, <1>5, Zenon
<1> QED
  BY <1>1, <1>2, <1>3, <1>4, <1>6

LEMMA TimelineStarts == StoryTimelineInit => TimelineInv
<1> SUFFICES ASSUME StoryTimelineInit PROVE TimelineInv
  OBVIOUS
<1>1. Max(Lengths) \in 1..ClipCap
  <2>1. Lengths \subseteq Int /\ IsFiniteSet(Lengths) /\ Lengths # {} /\ Lengths \subseteq 1..ClipCap
    <3>1. 1 \in Int /\ ClipCap \in Int
      BY StoryTimelineAssumption
    <3>2. IsFiniteSet(1..ClipCap)
      BY <3>1, FS_Interval
    <3>3. 1..ClipCap \subseteq Int
      BY <3>1
    <3> QED
      BY <3>2, <3>3, StoryTimelineAssumption, FS_Subset
  <2>2. \E m \in Lengths : \A x \in Lengths : m >= x
    BY <2>1, GreatestExists
  <2> QED
    BY <2>1, <2>2 DEF Max
<1>2. DOMAIN item = {}
  BY DEF StoryTimelineInit
<1>3. Sound(item)
  <2>1. item = [i \in DOMAIN item |-> item[i]]
    BY DEF StoryTimelineInit
  <2> QED
    BY <1>2, <2>1 DEF Sound
<1>4. duration \in [Generations -> 1..ClipCap] /\ public = duration
  BY <1>1 DEF StoryTimelineInit
<1>5. takes \in [Generations -> [Versions -> 0..ClipCap]]
  <2>1. Max(Lengths) \in 0..ClipCap /\ 0 \in 0..ClipCap
    BY <1>1, StoryTimelineAssumption
  <2> QED
    BY <2>1 DEF StoryTimelineInit
<1> QED
  BY <1>2, <1>3, <1>4, <1>5 DEF StoryTimelineInit, TimelineInv, Items

(* As long as there is room there is an id nobody has.                      *)
LEMMA FreshIdIs ==
    ASSUME TimelineInv, Cardinality(Items) < MaxItems
    PROVE  FreshId \in 1..MaxItems /\ FreshId \notin Items
<1>1. Items \subseteq 1..MaxItems
  BY DEF TimelineInv, Sound, Items
<1>2. IsFiniteSet(1..MaxItems) /\ Cardinality(1..MaxItems) = MaxItems
  <2>1. 1 \in Int /\ MaxItems \in Int /\ MaxItems \in Nat
    BY StoryTimelineAssumption
  <2>2. Cardinality(1..MaxItems) = IF 1 > MaxItems THEN 0 ELSE MaxItems - 1 + 1
    BY <2>1, FS_Interval
  <2> QED
    BY <2>1, <2>2, FS_Interval
<1>3. Items # 1..MaxItems
  BY <1>2, StoryTimelineAssumption
<1>4. \E i \in 1..MaxItems : i \notin Items
  BY <1>1, <1>3
<1> QED
  BY <1>4 DEF FreshId

(* A request whose target is sound keeps the invariant: the commit takes    *)
(* effect, and is told of, or neither.                                      *)
LEMMA Requested ==
    ASSUME TimelineInv, NEW s \in BOOLEAN, NEW cs, Sound(cs), DOMAIN cs # {} => s,
           NEW what \in {"edit", "place", "move", "split", "version", "reorder"},
           Committed(s, cs, what) \/ Reconciled(s, cs, what)
    PROVE  /\ TimelineInv' /\ UNCHANGED <<duration, public, takes, shrunk>>
           /\ \/ item' = cs /\ did' = what
              \/ item' = item /\ story' = story /\ did' \in {"error", "failed"}
<1>1. /\ UNCHANGED <<duration, public, takes, shrunk>> /\ edits' = edits + 1
      /\ \/ item' = cs /\ story' = s /\ did' = what
         \/ item' = item /\ story' = story /\ did' \in {"error", "failed"}
  BY DEF Committed, Reconciled, Edit, Ask, libraryRows
<1>2. Sound(item)' /\ (Items # {} => story)'
  BY <1>1 DEF TimelineInv, Items, Sound, Fit, HasLength, Effective
<1>3. TimelineInv'
  BY <1>1, <1>2 DEF TimelineInv
<1> QED
  BY <1>1, <1>3

(* A clip is put in, or another takes its place.                            *)
LEMMA PutIn ==
    ASSUME TimelineInv, NEW j \in 1..MaxItems, NEW c \in Clip, Fit(c),
           NEW cs, cs = [k \in Items \cup {j} |-> IF k = j THEN c ELSE item[k]]
    PROVE  /\ Sound(cs) /\ DOMAIN cs = Items \cup {j} /\ cs[j] = c
           /\ \A k \in Items : k # j => cs[k] = item[k]
<1>1. DOMAIN cs = Items \cup {j} /\ \A k \in DOMAIN cs : cs[k] = IF k = j THEN c ELSE item[k]
  OBVIOUS
<1>2. Items \subseteq 1..MaxItems /\ \A k \in Items : item[k] \in Clip /\ Fit(item[k])
  BY DEF TimelineInv, Sound, Items
<1>3. \A k \in DOMAIN cs : cs[k] \in Clip /\ Fit(cs[k])
  BY <1>1, <1>2
<1>4. DOMAIN cs \subseteq 1..MaxItems
  BY <1>1, <1>2
<1>5. cs \in [DOMAIN cs -> Clip]
  BY <1>1, <1>3
<1> QED
  BY <1>1, <1>3, <1>4, <1>5 DEF Sound

(* The clips keep what they play, wherever they are moved.                  *)
LEMMA ClipsMoved ==
    ASSUME TimelineInv, NEW start, \A i \in Items : start[i] \in 0..Timeline,
           NEW cs, cs = [i \in Items |-> [item[i] EXCEPT !.start = start[i]]]
    PROVE  Sound(cs) /\ DOMAIN cs = Items /\ \A i \in Items : Part(cs[i]) = Part(item[i])
<1>1. \A i \in Items : item[i] \in Clip /\ Fit(item[i])
  BY DEF TimelineInv, Sound, Items
<1>2. \A i \in Items : cs[i] \in Clip /\ Part(cs[i]) = Part(item[i]) /\ Fit(cs[i])
  BY <1>1 DEF Clip, Part, Effective, HasLength, Fit
<1>3. DOMAIN cs = Items /\ cs \in [Items -> Clip]
  BY <1>2
<1>4. Items \subseteq 1..MaxItems
  BY DEF TimelineInv, Sound, Items
<1> QED
  BY <1>2, <1>3, <1>4 DEF Sound

LEMMA SameClips == ASSUME TimelineInv PROVE Sound(item) /\ \A i \in Items : i \in 1..MaxItems /\ item[i] \in Clip
BY DEF TimelineInv, Sound, Items

(* What a step owes: what EditsAreWhole and PlacesAreFree say of it.        *)
EditIsWhole ==
    edits' # edits =>
       /\ did' = "split" => HeardOf(item') = HeardOf(item)
       /\ did' \in {"place", "move", "reorder"} => \A i \in Items : Part(item'[i]) = Part(item[i])
       /\ did' = "failed" => UNCHANGED <<story, item>>
PlaceIsFree ==
    /\ (did' = "place" /\ edits' # edits) =>
              \A i \in DOMAIN item' \ Items, j \in Items : ~Collide(item'[i], item[j])
    /\ (did' = "reorder" /\ edits' # edits) =>
              \A i, j \in Items : i # j => ~Collide([item'[i] EXCEPT !.track = 0], [item'[j] EXCEPT !.track = 0])
    /\ (did' = "reorder" /\ edits' # edits /\ Items' # {} /\ \A i \in Items' : Agrees(item[i])') => Exportable'

LEMMA CreateKeeps == ASSUME TimelineInv, CreateStory PROVE TimelineInv' /\ EditIsWhole /\ PlaceIsFree
<1>1. Reconciled(TRUE, item, "edit")
  BY DEF CreateStory
<1>2. /\ TimelineInv'
      /\ \/ item' = item /\ did' = "edit"
         \/ item' = item /\ story' = story /\ did' \in {"error", "failed"}
  BY <1>1, SameClips, Requested
<1> QED
  BY <1>2 DEF EditIsWhole, PlaceIsFree

LEMMA DeleteKeeps == ASSUME TimelineInv, DeleteStory PROVE TimelineInv' /\ EditIsWhole /\ PlaceIsFree
<1>1. Committed(FALSE, << >>, "edit")
  BY DEF DeleteStory
<1>2. PICK cs : cs = << >> /\ Committed(FALSE, cs, "edit")
  BY <1>1
<1>3. DOMAIN cs = {} /\ Sound(cs)
  <2>1. DOMAIN cs = {} /\ cs = [i \in DOMAIN cs |-> cs[i]]
    BY <1>2
  <2> QED
    BY <2>1 DEF Sound
<1>4. /\ TimelineInv'
      /\ \/ item' = cs /\ did' = "edit"
         \/ item' = item /\ story' = story /\ did' \in {"error", "failed"}
  BY <1>2, <1>3, Requested
<1> QED
  BY <1>4 DEF EditIsWhole, PlaceIsFree

(* One clip is changed. *)
LEMMA Changed ==
    ASSUME TimelineInv, NEW i \in Items, NEW c \in Clip, Fit(c),
           NEW cs, DOMAIN cs = Items, cs = [k \in DOMAIN cs |-> cs[k]],
           cs[i] = c, \A k \in Items : k # i => cs[k] = item[k]
    PROVE  Sound(cs)
<1>1. i \in 1..MaxItems /\ Items \cup {i} = Items
  BY SameClips
<1>2. cs = [k \in Items \cup {i} |-> IF k = i THEN c ELSE item[k]]
  BY <1>1
<1> QED
  BY <1>1, <1>2, PutIn

LEMMA MoveKeeps ==
    ASSUME TimelineInv, NEW i \in Items, NEW start, NEW t \in Tracks, Move(i, start, t)
    PROVE  TimelineInv' /\ EditIsWhole /\ PlaceIsFree
<1>1. PICK cs : /\ cs = [item EXCEPT ![i].start = start, ![i].track = t]
                /\ Committed(story, cs, "move") /\ start \in 0..Timeline
  BY DEF Move, ValidTimecode
<1>2. PICK c : c = [item[i] EXCEPT !.start = start, !.track = t]
  OBVIOUS
<1>3. item[i] \in Clip /\ Fit(item[i]) /\ item = [k \in Items |-> item[k]]
  BY DEF TimelineInv, Sound, Items
<1>4. c \in Clip /\ Part(c) = Part(item[i]) /\ Fit(c)
  BY <1>1, <1>2, <1>3 DEF Clip, Part, Fit, HasLength, Effective
<1>5. /\ DOMAIN cs = Items /\ cs = [k \in DOMAIN cs |-> cs[k]] /\ cs[i] = c
      /\ \A k \in Items : k # i => cs[k] = item[k]
  BY <1>1, <1>2, <1>3
<1>6. Sound(cs)
  BY <1>4, <1>5, Changed
<1>7. /\ TimelineInv'
      /\ \/ item' = cs /\ did' = "move"
         \/ item' = item /\ story' = story /\ did' \in {"error", "failed"}
  <2>1. story \in BOOLEAN /\ (DOMAIN cs # {} => story)
    BY <1>5 DEF TimelineInv
  <2> QED
    BY <1>1, <1>6, <2>1, Requested
<1>8. \A k \in Items : Part(cs[k]) = Part(item[k])
  BY <1>4, <1>5
<1> QED
  BY <1>7, <1>8 DEF EditIsWhole, PlaceIsFree

LEMMA RemoveItemKeeps ==
    ASSUME TimelineInv, NEW i \in Items, RemoveItem(i)
    PROVE  TimelineInv' /\ EditIsWhole /\ PlaceIsFree
<1>1. PICK cs : cs = [k \in Items \ {i} |-> item[k]] /\ Committed(story, cs, "edit")
  BY DEF RemoveItem, Restrict
<1>2. DOMAIN cs = Items \ {i} /\ \A k \in DOMAIN cs : cs[k] = item[k] /\ k \in Items
  BY <1>1
<1>3. Sound(cs)
  <2>1. \A k \in DOMAIN cs : k \in 1..MaxItems /\ cs[k] \in Clip /\ Fit(cs[k])
    BY <1>2 DEF TimelineInv, Sound, Items
  <2>2. cs \in [DOMAIN cs -> Clip]
    BY <1>1, <2>1
  <2> QED
    BY <2>1, <2>2 DEF Sound
<1>4. /\ TimelineInv'
      /\ \/ item' = cs /\ did' = "edit"
         \/ item' = item /\ story' = story /\ did' \in {"error", "failed"}
  <2>1. story \in BOOLEAN /\ (DOMAIN cs # {} => story)
    BY <1>2 DEF TimelineInv
  <2> QED
    BY <1>1, <1>3, <2>1, Requested
<1> QED
  BY <1>4 DEF EditIsWhole, PlaceIsFree

LEMMA SetVersionKeeps ==
    ASSUME TimelineInv, NEW i \in Items, NEW v \in Versions \cup {NoPin}, SetVersion(i, v)
    PROVE  TimelineInv' /\ EditIsWhole /\ PlaceIsFree
<1>1. PICK cs : /\ cs = [item EXCEPT ![i].pin = v] /\ Committed(story, cs, "version")
                /\ v = NoPin \/ takes[item[i].gen][v] > 0
  BY DEF SetVersion
<1>2. PICK c : c = [item[i] EXCEPT !.pin = v]
  OBVIOUS
<1>3. item[i] \in Clip /\ Fit(item[i]) /\ item = [k \in Items |-> item[k]]
  BY DEF TimelineInv, Sound, Items
<1>4. c \in Clip /\ Fit(c)
  BY <1>1, <1>2, <1>3 DEF Clip, Fit, HasLength, Effective
<1>5. /\ DOMAIN cs = Items /\ cs = [k \in DOMAIN cs |-> cs[k]] /\ cs[i] = c
      /\ \A k \in Items : k # i => cs[k] = item[k]
  BY <1>1, <1>2, <1>3
<1>6. Sound(cs)
  BY <1>4, <1>5, Changed
<1>7. /\ TimelineInv'
      /\ \/ item' = cs /\ did' = "version"
         \/ item' = item /\ story' = story /\ did' \in {"error", "failed"}
  <2>1. story \in BOOLEAN /\ (DOMAIN cs # {} => story)
    BY <1>5 DEF TimelineInv
  <2> QED
    BY <1>1, <1>6, <2>1, Requested
<1> QED
  BY <1>7 DEF EditIsWhole, PlaceIsFree

LEMMA TrimKeeps ==
    ASSUME TimelineInv, NEW i \in Items, NEW head, NEW tail, Trim(i, head, tail)
    PROVE  TimelineInv' /\ EditIsWhole /\ PlaceIsFree
<1>1. PICK cs : cs = [item EXCEPT ![i].head = head, ![i].tail = tail] /\ Committed(story, cs, "edit")
  BY DEF Trim
<1>2. PICK c : c = [item[i] EXCEPT !.head = head, !.tail = tail]
  OBVIOUS
<1>3. item[i] \in Clip /\ Fit(item[i]) /\ item = [k \in Items |-> item[k]]
  BY DEF TimelineInv, Sound, Items
<1>4. head \in 0..ClipCap /\ tail \in 0..ClipCap /\ head + tail < duration[item[i].gen]
  BY DEF Trim
<1>5. c \in Clip /\ c.gen = item[i].gen /\ c.pin = item[i].pin /\ c.head = head /\ c.tail = tail
  BY <1>2, <1>3, <1>4 DEF Clip
<1>6. HasLength(c)
  <2>1. c.head \in Nat /\ c.tail \in Nat /\ duration[c.gen] \in Nat /\ Effective(c) = duration[c.gen] - c.head - c.tail
    BY <1>5, ClipFields
  <2> QED
    BY <1>4, <1>5, <2>1 DEF HasLength
<1>7. /\ DOMAIN cs = Items /\ cs = [k \in DOMAIN cs |-> cs[k]] /\ cs[i] = c
      /\ \A k \in Items : k # i => cs[k] = item[k]
  BY <1>1, <1>2, <1>3
<1>8. Sound(cs)
  <2>1. Fit(c)
    BY <1>3, <1>5, <1>6 DEF Fit
  <2> QED
    BY <1>5, <1>7, <2>1, Changed
<1>9. /\ TimelineInv'
      /\ \/ item' = cs /\ did' = "edit"
         \/ item' = item /\ story' = story /\ did' \in {"error", "failed"}
  <2>1. story \in BOOLEAN /\ (DOMAIN cs # {} => story)
    BY <1>7 DEF TimelineInv
  <2> QED
    BY <1>1, <1>8, <2>1, Requested
<1> QED
  BY <1>9 DEF EditIsWhole, PlaceIsFree

LEMMA DuplicateKeeps ==
    ASSUME TimelineInv, NEW i \in Items, Duplicate(i)
    PROVE  TimelineInv' /\ EditIsWhole /\ PlaceIsFree
<1>1. PICK at : /\ at = item[i].start + Effective(item[i]) + Gap
                /\ Cardinality(Items) < MaxItems /\ HasLength(item[i]) /\ at \in 0..Timeline
                /\ Reconciled(story, WithClip(FreshId, [item[i] EXCEPT !.start = at]), "move")
  BY DEF Duplicate, ValidTimecode
<1>2. PICK c : c = [item[i] EXCEPT !.start = at]
  OBVIOUS
<1>3. item[i] \in Clip /\ Fit(item[i])
  BY DEF TimelineInv, Sound, Items
<1>4. c \in Clip /\ Fit(c)
  BY <1>1, <1>2, <1>3 DEF Clip, Fit, HasLength, Effective
<1>5. PICK j \in 1..MaxItems : j = FreshId /\ j \notin Items
  BY <1>1, FreshIdIs
<1>6. PICK cs : /\ cs = [k \in Items \cup {j} |-> IF k = j THEN c ELSE item[k]]
                /\ Reconciled(story, cs, "move")
  BY <1>1, <1>2, <1>5 DEF WithClip
<1>7. Sound(cs) /\ DOMAIN cs = Items \cup {j} /\ \A k \in Items : cs[k] = item[k]
  <2>1. Sound(cs) /\ DOMAIN cs = Items \cup {j} /\ \A k \in Items : k # j => cs[k] = item[k]
    BY <1>4, <1>6, PutIn
  <2> QED
    BY <1>5, <2>1
<1>8. /\ TimelineInv'
      /\ \/ item' = cs /\ did' = "move"
         \/ item' = item /\ story' = story /\ did' \in {"error", "failed"}
  <2>1. story \in BOOLEAN /\ story
    BY DEF TimelineInv
  <2> QED
    BY <1>6, <1>7, <2>1, Requested
<1> QED
  BY <1>7, <1>8 DEF EditIsWhole, PlaceIsFree

LEMMA SetTimesKeeps ==
    ASSUME TimelineInv, NEW times, SetTimes(times)
    PROVE  TimelineInv' /\ EditIsWhole /\ PlaceIsFree
<1>1. PICK cs : /\ cs = [i \in Items |-> IF i \in DOMAIN times THEN [item[i] EXCEPT !.start = times[i]] ELSE item[i]]
                /\ Committed(story, cs, "move") /\ story
                /\ \A i \in DOMAIN times : times[i] \in 0..Timeline
  BY DEF SetTimes, ValidTimecode
<1>2. PICK to : to = [i \in Items |-> IF i \in DOMAIN times THEN times[i] ELSE item[i].start]
  OBVIOUS
<1>3. \A i \in Items : item[i] \in Clip /\ to[i] \in 0..Timeline
  BY <1>1, <1>2, SameClips DEF Clip
<1>4. cs = [i \in Items |-> [item[i] EXCEPT !.start = to[i]]]
  <2>1. \A i \in Items : item[i] = [item[i] EXCEPT !.start = item[i].start]
    BY <1>3 DEF Clip
  <2> QED
    BY <1>1, <1>2, <2>1
<1>5. Sound(cs) /\ DOMAIN cs = Items /\ \A i \in Items : Part(cs[i]) = Part(item[i])
  BY <1>3, <1>4, ClipsMoved
<1>6. /\ TimelineInv'
      /\ \/ item' = cs /\ did' = "move"
         \/ item' = item /\ story' = story /\ did' \in {"error", "failed"}
  <2>1. story \in BOOLEAN
    BY DEF TimelineInv
  <2> QED
    BY <1>1, <1>5, <2>1, Requested
<1> QED
  BY <1>5, <1>6 DEF EditIsWhole, PlaceIsFree

(* A step of the library under the clips leaves them as they are.           *)
LEMMA ReworkedKeeps ==
    ASSUME TimelineInv, Reworked, shrunk' \in BOOLEAN,
           (duration \in [Generations -> 1..ClipCap])', (public \in [Generations -> 1..ClipCap])',
           (takes \in [Generations -> [Versions -> 0..ClipCap]])', \A i \in Items : Fit(item[i])'
    PROVE  TimelineInv' /\ EditIsWhole /\ PlaceIsFree
<1>1. UNCHANGED <<story, item, edits>>
  BY DEF Reworked
<1>2. Sound(item)'
  BY <1>1 DEF TimelineInv, Sound, Items
<1> QED
  BY <1>1, <1>2 DEF TimelineInv, Items, EditIsWhole, PlaceIsFree

LEMMA FitRows ==
    ASSUME TimelineInv
    PROVE  /\ shrunk \in BOOLEAN /\ duration \in [Generations -> 1..ClipCap] /\ public \in [Generations -> 1..ClipCap]
           /\ takes \in [Generations -> [Versions -> 0..ClipCap]]
           /\ \A i \in Items : item[i] \in Clip /\ Fit(item[i])
BY DEF TimelineInv, Sound, Items

(* A new duration is no shorter than the cuts of a clip, or shrunk is set.  *)
LEMMA MeasuredFits ==
    ASSUME TimelineInv, UNCHANGED item, NEW g \in Generations, NEW d \in Lengths, Measured(g, d)
    PROVE  /\ (duration \in [Generations -> 1..ClipCap])' /\ shrunk' \in BOOLEAN
           /\ \A i \in Items : (~shrunk => HasLength(item[i]))'
<1>1. /\ duration' = [duration EXCEPT ![g] = d]
      /\ shrunk' = (shrunk \/ (d < duration[g] /\ \E i \in Items : item[i].gen = g))
  BY DEF Measured
<1>2. duration \in [Generations -> 1..ClipCap] /\ duration' \in [Generations -> 1..ClipCap] /\ shrunk' \in BOOLEAN
  BY <1>1, StoryTimelineAssumption DEF TimelineInv
<1>3. ASSUME ~shrunk', NEW i \in Items PROVE HasLength(item[i])'
  <2>1. HasLength(item[i]) /\ item[i] \in Clip
    BY <1>1, <1>3, FitRows DEF Fit
  <2>2. /\ item[i].head \in Nat /\ item[i].tail \in Nat /\ item[i].gen \in Generations
        /\ duration[item[i].gen] \in Nat /\ Effective(item[i]) = duration[item[i].gen] - item[i].head - item[i].tail
    BY <2>1, ClipFields
  <2>3. duration'[item[i].gen] \in Nat /\ duration'[item[i].gen] >= duration[item[i].gen]
    <3>1. d \in Nat
      BY StoryTimelineAssumption
    <3>2. CASE item[i].gen = g
      <4>1. ~(d < duration[g])
        BY <1>1, <1>3, <3>2
      <4> QED
        BY <1>1, <1>2, <2>2, <3>1, <3>2, <4>1
    <3>3. CASE item[i].gen # g
      BY <1>1, <1>2, <2>2, <3>3
    <3> QED
      BY <3>2, <3>3
  <2> QED
    BY <1>1, <2>1, <2>2, <2>3 DEF HasLength, Effective
<1> QED
  BY <1>2, <1>3

LEMMA ReworkKeeps ==
    ASSUME TimelineInv, NEW g, Rework(g) PROVE TimelineInv' /\ EditIsWhole /\ PlaceIsFree
<1>1. Reworked /\ UNCHANGED <<item, duration, public, takes, shrunk>>
  BY DEF Rework, Reworked
<1>2. \A i \in Items : Fit(item[i])'
  BY <1>1, FitRows DEF Fit, HasLength, Effective
<1> QED
  BY <1>1, <1>2, FitRows, ReworkedKeeps

LEMMA RetriedKeeps ==
    ASSUME TimelineInv, NEW g \in Generations, NEW d \in Lengths, Retried(g, d)
    PROVE  TimelineInv' /\ EditIsWhole /\ PlaceIsFree
<1>1. Reworked /\ Measured(g, d) /\ UNCHANGED <<item, takes>> /\ public' = [public EXCEPT ![g] = d]
  BY DEF Retried, Reworked
<1>2. (public \in [Generations -> 1..ClipCap])'
  BY <1>1, FitRows, StoryTimelineAssumption
<1>3. /\ (duration \in [Generations -> 1..ClipCap])' /\ shrunk' \in BOOLEAN
      /\ \A i \in Items : (~shrunk => HasLength(item[i]))'
  BY <1>1, MeasuredFits
<1>4. \A i \in Items : Fit(item[i])'
  BY <1>1, <1>3, FitRows DEF Fit
<1> QED
  BY <1>1, <1>2, <1>3, <1>4, FitRows, ReworkedKeeps

(* A version a clip is pinned to keeps its file. *)
LEMMA PinsKept ==
    ASSUME TimelineInv, UNCHANGED item, NEW g \in Generations, NEW v \in Versions, NEW d \in 0..ClipCap,
           takes' = [takes EXCEPT ![g][v] = d], d > 0 \/ ~Pinned(g, v)
    PROVE  /\ (takes \in [Generations -> [Versions -> 0..ClipCap]])'
           /\ \A i \in Items : (item[i].pin # NoPin => takes[item[i].gen][item[i].pin] > 0)'
<1>1. (takes \in [Generations -> [Versions -> 0..ClipCap]])'
  BY FitRows
<1>2. ASSUME NEW i \in Items, item[i].pin # NoPin PROVE takes'[item[i].gen][item[i].pin] > 0
  <2>1. item[i] \in Clip /\ takes[item[i].gen][item[i].pin] > 0
    BY <1>2, FitRows DEF Fit
  <2>2. PICK h \in Generations : h = item[i].gen
    BY <2>1 DEF Clip
  <2>3. PICK w \in Versions : w = item[i].pin
    BY <1>2, <2>1 DEF Clip
  <2>4. takes[h][w] > 0
    BY <2>1, <2>2, <2>3
  <2>5. CASE h = g /\ w = v
    <3>1. Pinned(g, v) /\ takes'[h][w] = d
      BY <2>2, <2>3, <2>5, FitRows DEF Pinned
    <3> QED
      BY <2>2, <2>3, <3>1
  <2>6. CASE h # g \/ w # v
    <3>1. takes'[h][w] = takes[h][w]
      BY <2>6, FitRows
    <3> QED
      BY <2>2, <2>3, <2>4, <3>1
  <2> QED
    BY <2>5, <2>6
<1> QED
  BY <1>1, <1>2

LEMMA RegeneratedKeeps ==
    ASSUME TimelineInv, NEW g \in Generations, NEW v \in Versions, NEW d \in Lengths, Regenerated(g, v, d)
    PROVE  TimelineInv' /\ EditIsWhole /\ PlaceIsFree
<1>1. /\ Reworked /\ UNCHANGED item /\ takes' = [takes EXCEPT ![g][v] = d] /\ public' = [public EXCEPT ![g] = d]
      /\ Measured(g, d) \/ UNCHANGED <<duration, shrunk>>
  BY DEF Regenerated, Reworked
<1>2. d \in 1..ClipCap /\ d \in 0..ClipCap /\ d > 0
  BY StoryTimelineAssumption
<1>3. (public \in [Generations -> 1..ClipCap])'
  BY <1>1, <1>2, FitRows
<1>4. /\ (takes \in [Generations -> [Versions -> 0..ClipCap]])'
      /\ \A i \in Items : (item[i].pin # NoPin => takes[item[i].gen][item[i].pin] > 0)'
  BY <1>1, <1>2, PinsKept
<1>5. /\ (duration \in [Generations -> 1..ClipCap])' /\ shrunk' \in BOOLEAN
      /\ \A i \in Items : (~shrunk => HasLength(item[i]))'
  <2>1. CASE Measured(g, d)
    BY <1>1, <2>1, MeasuredFits
  <2>2. CASE UNCHANGED <<duration, shrunk>>
    BY <1>1, <2>2, FitRows DEF Fit, HasLength, Effective
  <2> QED
    BY <1>1, <2>1, <2>2
<1>6. \A i \in Items : Fit(item[i])'
  BY <1>4, <1>5 DEF Fit
<1> QED
  BY <1>1, <1>3, <1>4, <1>5, <1>6, ReworkedKeeps

LEMMA MakeDefaultKeeps ==
    ASSUME TimelineInv, NEW g \in Generations, NEW v \in Versions, MakeDefault(g, v)
    PROVE  TimelineInv' /\ EditIsWhole /\ PlaceIsFree
<1>1. /\ Reworked /\ UNCHANGED <<item, duration, takes, shrunk>> /\ public' = [public EXCEPT ![g] = takes[g][v]]
      /\ takes[g][v] > 0
  BY DEF MakeDefault, Reworked
<1>2. takes[g][v] \in 1..ClipCap
  <2>1. takes[g][v] \in 0..ClipCap
    BY FitRows
  <2> QED
    BY <1>1, <2>1, StoryTimelineAssumption
<1>3. (public \in [Generations -> 1..ClipCap])'
  BY <1>1, <1>2, FitRows
<1>4. \A i \in Items : Fit(item[i])'
  BY <1>1, FitRows DEF Fit, HasLength, Effective
<1> QED
  BY <1>1, <1>3, <1>4, FitRows, ReworkedKeeps

LEMMA DropVersionKeeps ==
    ASSUME TimelineInv, NEW g \in Generations, NEW v \in Versions, NEW w \in Versions, DropVersion(g, v, w)
    PROVE  TimelineInv' /\ EditIsWhole /\ PlaceIsFree
<1>1. /\ Reworked /\ UNCHANGED <<item, duration, shrunk>> /\ takes' = [takes EXCEPT ![g][v] = 0]
      /\ takes[g][w] > 0 /\ ~Pinned(g, v)
      /\ public' = [public EXCEPT ![g] = takes[g][w]] \/ public' = public
  BY DEF DropVersion, Reworked
<1>2. takes[g][w] \in 1..ClipCap
  <2>1. takes[g][w] \in 0..ClipCap
    BY FitRows
  <2> QED
    BY <1>1, <2>1, StoryTimelineAssumption
<1>3. (public \in [Generations -> 1..ClipCap])'
  BY <1>1, <1>2, FitRows
<1>4. /\ (takes \in [Generations -> [Versions -> 0..ClipCap]])'
      /\ \A i \in Items : (item[i].pin # NoPin => takes[item[i].gen][item[i].pin] > 0)'
  <2>1. 0 \in 0..ClipCap
    BY StoryTimelineAssumption
  <2> QED
    BY <1>1, <2>1, PinsKept
<1>5. \A i \in Items : Fit(item[i])'
  BY <1>1, <1>4, FitRows DEF Fit, HasLength, Effective
<1> QED
  BY <1>1, <1>3, <1>4, <1>5, FitRows, ReworkedKeeps

(* What is behind the last end on a track overlaps nothing there.           *)
LEMMA BehindIsFree ==
    ASSUME TimelineInv, NEW t \in Tracks, Behind(t) \in Nat, NEW j \in Items, item[j].track = t
    PROVE  item[j].start + Effective(item[j]) <= Behind(t)
<1> DEFINE on == {k \in Items : item[k].track = t}
           there == {item[k] : k \in on}
           Ends == {c.start + Effective(c) : c \in there}
<1>1. item[j] \in there
  OBVIOUS
<1>2. Behind(t) = Max(Ends) + Gap
  <2>1. Nowhere \notin Nat /\ there # {}
    BY <1>1 DEF Nowhere
  <2> QED
    BY <2>1 DEF Behind
<1>3. \A c \in there : c \in Clip
  BY SameClips
<1>4. Ends \subseteq Int
  <2> SUFFICES ASSUME NEW c \in there PROVE c.start + Effective(c) \in Int
    OBVIOUS
  <2>1. c.start \in Nat /\ Effective(c) \in Int
    BY <1>3, ClipFields
  <2> QED
    BY <2>1
<1>5. IsFiniteSet(Ends)
  <2>1. IsFiniteSet(on)
    <3>1. 1 \in Int /\ MaxItems \in Int /\ on \subseteq 1..MaxItems
      BY SameClips, StoryTimelineAssumption
    <3> QED
      BY <3>1, FS_Interval, FS_Subset
  <2>2. PICK f : f = [k \in on |-> item[k].start + Effective(item[k])]
    OBVIOUS
  <2>3. Ends = {f[k] : k \in on}
    BY <2>2
  <2> HIDE DEF on, Ends
  <2> QED
    BY <2>1, <2>3, FiniteImage
<1>6. item[j].start + Effective(item[j]) \in Ends
  BY <1>1
<1>7. Max(Ends) \in Ends /\ \A x \in Ends : Max(Ends) >= x
  <2> HIDE DEF Ends
  <2>1. \E m \in Ends : \A x \in Ends : m >= x
    BY <1>4, <1>5, <1>6, GreatestExists
  <2> QED
    BY <2>1 DEF Max
<1> HIDE DEF Ends
<1>8. PICK m \in Int, x \in Int : m = Max(Ends) /\ x = item[j].start + Effective(item[j]) /\ m >= x
  BY <1>4, <1>6, <1>7
<1> QED
  BY <1>2, <1>8, StoryTimelineAssumption

LEMMA AddKeeps ==
    ASSUME TimelineInv, NEW g \in Generations, NEW t \in Tracks, NEW start, Add(g, t, start)
    PROVE  TimelineInv' /\ EditIsWhole /\ PlaceIsFree
<1>1. PICK at, what, c :
        /\ at = (IF start = Wherever THEN Behind(t) ELSE start) /\ at \in 0..Timeline
        /\ what = (IF start = Wherever THEN "place" ELSE "edit")
        /\ c = [gen |-> g, pin |-> NoPin, start |-> at, track |-> t, head |-> 0, tail |-> 0]
        /\ Cardinality(Items) < MaxItems /\ story
        /\ Committed(story, WithClip(FreshId, c), what)
  BY DEF Add, ValidTimecode
<1>2. c \in Clip
  BY <1>1, StoryTimelineAssumption DEF Clip
<1>3. HasLength(c)
  <2>1. c.gen = g /\ c.head = 0 /\ c.tail = 0
    BY <1>1
  <2>2. Effective(c) = duration[c.gen] - c.head - c.tail /\ duration[c.gen] \in 1..ClipCap /\ duration[c.gen] \in Nat
    BY <1>2, ClipFields
  <2> QED
    BY <2>1, <2>2, StoryTimelineAssumption DEF HasLength
<1>4. PICK j \in 1..MaxItems : j = FreshId /\ j \notin Items
  BY <1>1, FreshIdIs
<1>5. PICK cs : /\ cs = [k \in Items \cup {j} |-> IF k = j THEN c ELSE item[k]]
                /\ Committed(story, cs, what)
  BY <1>1, <1>4 DEF WithClip
<1>6. Sound(cs) /\ DOMAIN cs = Items \cup {j} /\ cs[j] = c /\ \A k \in Items : cs[k] = item[k]
  <2>1. Sound(cs) /\ DOMAIN cs = Items \cup {j} /\ cs[j] = c /\ \A k \in Items : k # j => cs[k] = item[k]
    BY <1>1, <1>2, <1>3, <1>5, PutIn DEF Fit
  <2> QED
    BY <1>4, <2>1
<1>7. /\ TimelineInv'
      /\ \/ item' = cs /\ did' = what
         \/ item' = item /\ story' = story /\ did' \in {"error", "failed"}
  <2>1. story \in BOOLEAN /\ story
    BY <1>1 DEF TimelineInv
  <2> QED
    BY <1>1, <1>5, <1>6, <2>1, Requested
<1>8. EditIsWhole
  BY <1>1, <1>6, <1>7 DEF EditIsWhole
<1>9. PlaceIsFree
  <2> SUFFICES ASSUME item' = cs, what = "place", did' = what PROVE \A k \in Items : ~Collide(c, item[k])
    BY <1>1, <1>6, <1>7 DEF PlaceIsFree
  <2>1. at = Behind(t) /\ at \in Nat /\ c.start = at /\ c.track = t
    BY <1>1, StoryTimelineAssumption
  <2> SUFFICES ASSUME NEW k \in Items, item[k].track = t PROVE ~(c.start < item[k].start + Effective(item[k]))
    BY <2>1 DEF Collide
  <2>2. item[k].start + Effective(item[k]) <= at
    BY <2>1, BehindIsFree
  <2>3. item[k].start \in Nat /\ Effective(item[k]) \in Int
    BY SameClips, ClipFields
  <2> QED
    BY <2>1, <2>2, <2>3
<1> QED
  BY <1>7, <1>8, <1>9

(* Two pieces of a clip are heard like the clip.                            *)
LEMMA PiecesAreHeard ==
    ASSUME TimelineInv, NEW c \in Clip, NEW a \in Clip, NEW b \in Clip, Sounding(c) \in Int, NEW at \in 1..(Sounding(c) - 1),
           a.start = c.start, a.track = c.track, a.gen = c.gen, a.pin = c.pin, a.head = c.head, Sounding(a) = at,
           b.start = c.start + at, b.track = c.track, b.gen = c.gen, b.pin = c.pin, b.head = c.head + at,
           Sounding(b) = Sounding(c) - at
    PROVE  Heard(c) = Heard(a) \cup Heard(b)
<1>1. Sounding(c) \in Int /\ c.start \in Nat /\ c.head \in Nat
  BY ClipFields
<1> DEFINE At(i) == <<c.start + i, c.track, c.gen, c.pin, c.head + i>>
<1>2. Heard(c) = {At(i) : i \in 0..(Sounding(c) - 1)}
  BY DEF Heard
<1>3. Heard(a) = {At(i) : i \in 0..(at - 1)}
  BY DEF Heard
<1>4. Heard(b) = {At(at + i) : i \in 0..(Sounding(c) - at - 1)}
  <2>1. \A i \in 0..(Sounding(c) - at - 1) :
           <<b.start + i, b.track, b.gen, b.pin, b.head + i>> = At(at + i)
    <3> TAKE i \in 0..(Sounding(c) - at - 1)
    <3>1. (c.start + at) + i = c.start + (at + i) /\ (c.head + at) + i = c.head + (at + i)
      BY <1>1
    <3> QED
      BY <3>1
  <2> QED
    BY <2>1 DEF Heard
<1> HIDE DEF At
<1>5. \A i \in 0..(Sounding(c) - 1) : i \in 0..(at - 1) \/ \E k \in 0..(Sounding(c) - at - 1) : i = at + k
  <2> SUFFICES ASSUME NEW i \in 0..(Sounding(c) - 1), i \notin 0..(at - 1)
               PROVE  \E k \in 0..(Sounding(c) - at - 1) : i = at + k
    OBVIOUS
  <2>1. i - at \in 0..(Sounding(c) - at - 1) /\ i = at + (i - at)
    BY <1>1
  <2> QED
    BY <2>1
<1>6. \A i \in 0..(at - 1) : i \in 0..(Sounding(c) - 1)
  BY <1>1
<1>7. \A k \in 0..(Sounding(c) - at - 1) : at + k \in 0..(Sounding(c) - 1)
  BY <1>1
<1> QED
  BY <1>2, <1>3, <1>4, <1>5, <1>6, <1>7

LEMMA SplitKeeps ==
    ASSUME TimelineInv, NEW i \in Items, NEW at, Split(i, at)
    PROVE  TimelineInv' /\ EditIsWhole /\ PlaceIsFree
<1>1. PICK c \in Clip : c = item[i]
  BY SameClips
<1>2. PICK whole, cut :
        /\ whole = Effective(c) + c.head + c.tail /\ cut = c.head + at
        /\ Cardinality(Items) < MaxItems /\ HasLength(c) /\ at \in 1..(Effective(c) - 1)
        /\ c.start + at \in 0..Timeline
        /\ Reconciled(story, [WithClip(FreshId, [c EXCEPT !.start = @ + at, !.head = cut])
                              EXCEPT ![i].tail = whole - cut], "split")
  BY <1>1 DEF Split, ValidTimecode
<1>3. /\ c.gen \in Generations /\ c.start \in Nat /\ c.head \in Nat /\ c.tail \in Nat
      /\ c.head \in 0..ClipCap /\ c.tail \in 0..ClipCap
      /\ duration[c.gen] \in Nat /\ duration[c.gen] <= ClipCap /\ ClipCap \in Nat
      /\ Effective(c) = duration[c.gen] - c.head - c.tail /\ Effective(c) \in Int
  BY ClipFields, StoryTimelineAssumption
<1>4. at \in Nat /\ at >= 1 /\ at < Effective(c)
  BY <1>2, <1>3
<1>5. /\ whole = duration[c.gen] /\ cut = c.head + at
      /\ cut \in 0..ClipCap /\ whole - cut \in 0..ClipCap
      /\ duration[c.gen] - c.head - (whole - cut) = at
      /\ duration[c.gen] - cut - c.tail = Effective(c) - at
  BY <1>2, <1>3, <1>4
<1>6. PICK a, b : /\ a = [c EXCEPT !.tail = whole - cut]
                  /\ b = [c EXCEPT !.start = c.start + at, !.head = cut]
  OBVIOUS
<1>7. /\ a \in Clip /\ b \in Clip
      /\ a.start = c.start /\ a.track = c.track /\ a.gen = c.gen /\ a.pin = c.pin /\ a.head = c.head /\ a.tail = whole - cut
      /\ b.start = c.start + at /\ b.track = c.track /\ b.gen = c.gen /\ b.pin = c.pin /\ b.head = cut /\ b.tail = c.tail
  BY <1>2, <1>5, <1>6 DEF Clip
<1>8. Effective(a) = at /\ Effective(b) = Effective(c) - at
  BY <1>5, <1>7 DEF Effective
<1>9. Fit(a) /\ Fit(b)
  <2>1. HasLength(a) /\ HasLength(b)
    BY <1>3, <1>4, <1>8 DEF HasLength
  <2> QED
    BY <1>1, <1>7, <2>1, FitRows DEF Fit
<1>10. PICK j \in 1..MaxItems : j = FreshId /\ j \notin Items
  BY <1>2, FreshIdIs
<1>11. PICK cs : /\ cs = [[k \in Items \cup {j} |-> IF k = j THEN b ELSE item[k]] EXCEPT ![i].tail = whole - cut]
                 /\ Reconciled(story, cs, "split")
  BY <1>2, <1>6, <1>10 DEF WithClip
<1>12. /\ DOMAIN cs = Items \cup {j} /\ cs = [k \in DOMAIN cs |-> cs[k]]
       /\ cs[i] = a /\ cs[j] = b /\ \A k \in Items : k # i => cs[k] = item[k]
  BY <1>1, <1>6, <1>10, <1>11
<1>13. Sound(cs)
  <2>1. \A k \in Items : k \in 1..MaxItems /\ item[k] \in Clip /\ Fit(item[k])
    BY DEF TimelineInv, Sound, Items
  <2>2. \A k \in DOMAIN cs : k \in 1..MaxItems /\ cs[k] \in Clip /\ Fit(cs[k])
    BY <1>7, <1>9, <1>12, <2>1
  <2>3. cs \in [DOMAIN cs -> Clip]
    BY <1>12, <2>2
  <2> QED
    BY <2>2, <2>3 DEF Sound
<1>14. /\ TimelineInv'
       /\ \/ item' = cs /\ did' = "split"
          \/ item' = item /\ story' = story /\ did' \in {"error", "failed"}
  <2>1. story \in BOOLEAN /\ story
    BY DEF TimelineInv
  <2> QED
    BY <1>11, <1>13, <2>1, Requested
<1>15. HeardOf(cs) = HeardOf(item)
  <2>1. Played(a) = Played(c) /\ Played(b) = Played(c) /\ (Agrees(a) <=> Agrees(c)) /\ (Agrees(b) <=> Agrees(c))
    BY <1>7 DEF Played, Agrees
  <2>2. ASSUME Agrees(c) PROVE Heard(c) = Heard(a) \cup Heard(b)
    <3>1. Sounding(c) = Effective(c) /\ Sounding(a) = Effective(a) /\ Sounding(b) = Effective(b)
      BY <1>7, <2>1, <2>2 DEF Agrees, Sounding, Effective
    <3>2. Sounding(a) = at /\ Sounding(b) = Sounding(c) - at /\ Sounding(c) \in Int
      BY <1>3, <1>8, <3>1
    <3>3. b.head = c.head + at /\ at \in 1..(Sounding(c) - 1)
      BY <1>2, <1>5, <1>7, <3>1
    <3> QED
      BY <1>7, <3>2, <3>3, PiecesAreHeard
  <2>3. \A x : x \in HeardOf(cs) <=> \E k \in Items \cup {j} : Agrees(cs[k]) /\ x \in Heard(cs[k])
    BY <1>12 DEF HeardOf
  <2>4. \A x : x \in HeardOf(item) <=> \E k \in Items : Agrees(item[k]) /\ x \in Heard(item[k])
    BY DEF HeardOf, Items
  <2>5. \A x : x \in HeardOf(cs) <=> x \in HeardOf(item)
    BY <1>1, <1>10, <1>12, <2>1, <2>2, <2>3, <2>4
  <2> QED
    BY <2>5
<1> QED
  BY <1>14, <1>15 DEF EditIsWhole, PlaceIsFree

(* Where each clip goes, one after the other: partial sums.                 *)
IsRow(f, n, w) == f = [k \in 1..n |-> IF k = 1 THEN 0 ELSE f[k - 1] + w[k - 1]]

LEMMA RowExists == ASSUME NEW n \in Nat, NEW w \in [1..n -> Nat] PROVE \E f : IsRow(f, n, w)
<1> DEFINE Row(m, f) == \A k \in 1..m : f[k] = IF k = 1 THEN 0 ELSE f[k - 1] + w[k - 1]
           T == {m \in Nat : \E f : DOMAIN f = 1..m /\ f = [k \in DOMAIN f |-> f[k]] /\ Row(m, f)}
<1>1. 0 \in T
  <2>1. PICK f : f = [k \in 1..0 |-> 0]
    OBVIOUS
  <2>2. DOMAIN f = 1..0 /\ f = [k \in DOMAIN f |-> f[k]] /\ Row(0, f)
    BY <2>1
  <2> QED
    BY <2>2
<1>2. ASSUME NEW m \in T PROVE m + 1 \in T
  <2>1. PICK f : DOMAIN f = 1..m /\ f = [k \in DOMAIN f |-> f[k]] /\ Row(m, f)
    OBVIOUS
  <2>2. PICK g : g = [k \in 1..m + 1 |-> IF k \in 1..m THEN f[k] ELSE IF k = 1 THEN 0 ELSE f[k - 1] + w[k - 1]]
    OBVIOUS
  <2>3. \A k \in 1..m : g[k] = f[k] /\ (k # 1 => k - 1 \in 1..m /\ g[k - 1] = f[k - 1])
    BY <2>2
  <2>4. g[m + 1] = IF m + 1 = 1 THEN 0 ELSE g[m] + w[m]
    <3>1. m + 1 \in 1..m + 1 /\ m + 1 \notin 1..m /\ (m + 1) - 1 = m
      OBVIOUS
    <3>2. g[m + 1] = IF m + 1 = 1 THEN 0 ELSE f[m] + w[m]
      BY <2>2, <3>1
    <3>3. m + 1 # 1 => m \in 1..m
      OBVIOUS
    <3> QED
      BY <2>3, <3>2, <3>3
  <2>5. Row(m + 1, g)
    <3> SUFFICES ASSUME NEW k \in 1..m + 1 PROVE g[k] = IF k = 1 THEN 0 ELSE g[k - 1] + w[k - 1]
      OBVIOUS
    <3>1. CASE k \in 1..m
      BY <2>1, <2>3, <3>1
    <3>2. CASE k = m + 1
      <4>1. k - 1 = m
        BY <3>2
      <4> QED
        BY <2>4, <3>2, <4>1
    <3>3. k \in 1..m \/ k = m + 1
      OBVIOUS
    <3> QED
      BY <3>1, <3>2, <3>3
  <2>6. DOMAIN g = 1..m + 1 /\ g = [k \in DOMAIN g |-> g[k]]
    BY <2>2
  <2> HIDE DEF Row
  <2>7. \E h : DOMAIN h = 1..m + 1 /\ h = [k \in DOMAIN h |-> h[k]] /\ Row(m + 1, h)
    BY <2>5, <2>6
  <2> QED
    BY <2>7
<1>3. n \in T
  <2> HIDE DEF T
  <2>1. T \in SUBSET Nat
    BY DEF T
  <2> QED
    BY <1>1, <1>2, <2>1, NatSetInduction
<1>4. PICK f : DOMAIN f = 1..n /\ f = [k \in DOMAIN f |-> f[k]] /\ Row(n, f)
  BY <1>3
<1> QED
  BY <1>4 DEF IsRow

LEMMA RowGrows ==
    ASSUME NEW n \in Nat, NEW w \in [1..n -> Nat], NEW f, IsRow(f, n, w)
    PROVE  \A k \in 1..n : f[k] \in Nat /\ \A j \in 1..n : j < k => f[j] + w[j] <= f[k]
<1> DEFINE Grows(k) == f[k] \in Nat /\ \A j \in 1..n : j < k => f[j] + w[j] <= f[k]
           T == {m \in Nat : \A k \in 1..n : k <= m => Grows(k)}
<1>1. \A k \in 1..n : f[k] = IF k = 1 THEN 0 ELSE f[k - 1] + w[k - 1]
  BY DEF IsRow
<1>2. 0 \in T
  OBVIOUS
<1>3. ASSUME NEW m \in T PROVE m + 1 \in T
  <2>1. \A k \in 1..n : k <= m => Grows(k)
    OBVIOUS
  <2>2. ASSUME m + 1 \in 1..n PROVE Grows(m + 1)
    <3>1. CASE m = 0
      BY <1>1, <2>2, <3>1
    <3>2. CASE m # 0
      <4>1. m \in 1..n /\ m + 1 # 1 /\ (m + 1) - 1 = m
        BY <2>2, <3>2
      <4>2. f[m] \in Nat /\ w[m] \in Nat /\ f[m + 1] = f[m] + w[m]
        BY <1>1, <2>1, <2>2, <4>1
      <4>3. ASSUME NEW j \in 1..n, j < m + 1 PROVE f[j] + w[j] <= f[m + 1]
        <5>1. CASE j = m
          BY <4>2, <5>1
        <5>2. CASE j # m
          <6>1. j < m /\ j <= m
            BY <4>3, <5>2
          <6>2. f[j] \in Nat /\ w[j] \in Nat /\ f[j] + w[j] <= f[m]
            BY <2>1, <4>1, <6>1
          <6> QED
            BY <4>2, <6>2
        <5> QED
          BY <5>1, <5>2
      <4> QED
        BY <4>2, <4>3
    <3> QED
      BY <3>1, <3>2
  <2>3. \A k \in 1..n : k <= m + 1 => k <= m \/ k = m + 1
    OBVIOUS
  <2> HIDE DEF Grows
  <2>4. \A k \in 1..n : k <= m + 1 => Grows(k)
    BY <2>1, <2>2, <2>3
  <2> QED
    BY <2>4
<1>4. n \in T
  <2> HIDE DEF T
  <2>1. T \in SUBSET Nat
    BY DEF T
  <2> QED
    BY <1>2, <1>3, <2>1, NatSetInduction
<1>5. \A k \in 1..n : k <= n
  OBVIOUS
<1> QED
  BY <1>4, <1>5

LEMMA PositionsAre ==
    ASSUME TimelineInv, NEW order \in [1..Cardinality(Items) -> Items],
           \A k \in DOMAIN order : Effective(item[order[k]]) \in Nat
    PROVE  /\ DOMAIN order = 1..Cardinality(Items) /\ Len(order) = Cardinality(Items)
           /\ \A k \in DOMAIN order : /\ Positions(order)[k] \in Nat
                                      /\ \A j \in DOMAIN order :
                                            j < k => Positions(order)[j] + Effective(item[order[j]]) + Gap <= Positions(order)[k]
<1>1. PICK n \in Nat : n = Cardinality(Items)
  <2>1. 1 \in Int /\ MaxItems \in Int /\ Items \subseteq 1..MaxItems
    BY StoryTimelineAssumption, SameClips
  <2> QED
    BY <2>1, FS_Interval, FS_Subset, FS_CardinalityType
<1>2. Len(order) = n /\ DOMAIN order = 1..n
  BY <1>1
<1>3. PICK w \in [1..n -> Nat] : w = [k \in 1..n |-> Effective(item[order[k]]) + Gap]
  <2>1. \A k \in 1..n : Effective(item[order[k]]) + Gap \in Nat
    BY <1>2, StoryTimelineAssumption
  <2>2. [k \in 1..n |-> Effective(item[order[k]]) + Gap] \in [1..n -> Nat]
    BY <2>1
  <2> QED
    BY <2>2
<1>4. PICK at : at = Positions(order) /\ IsRow(at, n, w)
  <2>1. \E f : IsRow(f, n, w)
    BY <1>3, RowExists
  <2>2. \A f : IsRow(f, n, w) <=>
                 f = [k \in 1..n |-> IF k = 1 THEN 0 ELSE f[k - 1] + (Effective(item[order[k - 1]]) + Gap)]
    <3> TAKE f
    <3>1. \A k \in 1..n : k # 1 => w[k - 1] = Effective(item[order[k - 1]]) + Gap
      BY <1>3
    <3> QED
      BY <3>1 DEF IsRow
  <2>3. Positions(order) =
          CHOOSE f : f = [k \in 1..n |-> IF k = 1 THEN 0 ELSE f[k - 1] + (Effective(item[order[k - 1]]) + Gap)]
    BY <1>2 DEF Positions
  <2> QED
    BY <2>1, <2>2, <2>3
<1>5. \A k \in 1..n : at[k] \in Nat /\ \A j \in 1..n : j < k => at[j] + w[j] <= at[k]
  BY <1>4, RowGrows
<1>6. \A j \in 1..n : at[j] + w[j] = at[j] + Effective(item[order[j]]) + Gap
  BY <1>2, <1>3, <1>5, StoryTimelineAssumption
<1> QED
  BY <1>1, <1>2, <1>4, <1>5, <1>6

(* What a clip plays is there, and its length that of a file.               *)
LEMMA FilesAreThere == TimelineInv => \A i \in Items : Played(item[i]) \in 1..ClipCap
<1> SUFFICES ASSUME TimelineInv, NEW i \in Items PROVE Played(item[i]) \in 1..ClipCap
  OBVIOUS
<1>1. item[i] \in Clip /\ Fit(item[i])
  BY FitRows
<1>2. PICK g \in Generations : g = item[i].gen
  BY <1>1 DEF Clip
<1>3. CASE item[i].pin = NoPin
  BY <1>2, <1>3, FitRows DEF Played
<1>4. CASE item[i].pin # NoPin
  <2>1. PICK v \in Versions : v = item[i].pin
    BY <1>1, <1>4 DEF Clip
  <2>2. takes[g][v] \in 0..ClipCap /\ takes[g][v] > 0
    BY <1>1, <1>2, <1>4, <2>1, FitRows DEF Fit
  <2>3. takes[g][v] \in 1..ClipCap
    BY <2>2, StoryTimelineAssumption
  <2> QED
    BY <1>2, <1>4, <2>1, <2>3 DEF Played
<1> QED
  BY <1>3, <1>4

(* An export takes clips that are as long as the edits think, that have a   *)
(* length and that end in time.                                             *)
Timely == Items # {} /\ \A i \in Items : Agrees(item[i]) /\ HasLength(item[i]) /\ EndsInTime(item[i])

LEMMA TimelyIsExportable == TimelineInv /\ Timely => Exportable
<1> SUFFICES ASSUME TimelineInv, Timely PROVE Exportable
  OBVIOUS
<1>1. Cardinality(Items) <= MaxItems
  <2>1. 1 \in Int /\ MaxItems \in Int /\ MaxItems \in Nat /\ Items \subseteq 1..MaxItems
    BY StoryTimelineAssumption, SameClips
  <2>2. IsFiniteSet(1..MaxItems) /\ Cardinality(1..MaxItems) = IF 1 > MaxItems THEN 0 ELSE MaxItems - 1 + 1
    BY <2>1, FS_Interval
  <2>3. Cardinality(Items) <= Cardinality(1..MaxItems)
    BY <2>1, <2>2, FS_Subset
  <2> QED
    BY <2>1, <2>2, <2>3
<1>2. ASSUME NEW i \in Items PROVE Plays(item[i])
  <2>1. Agrees(item[i]) /\ HasLength(item[i]) /\ EndsInTime(item[i])
    BY DEF Timely
  <2>2. Played(item[i]) \in 1..ClipCap
    BY FilesAreThere
  <2>3. Sounding(item[i]) > 0
    BY <2>1 DEF Agrees, HasLength, Effective, Sounding
  <2>4. item[i] \in Clip
    BY SameClips
  <2>5. ValidTimecode(item[i].start) /\ {item[i].head, item[i].tail} \subseteq 0..ClipCap
    BY <2>4 DEF Clip, ValidTimecode
  <2> QED
    BY <2>1, <2>2, <2>3, <2>5 DEF Plays
<1>3. story /\ Items # {}
  BY DEF TimelineInv, Timely
<1> QED
  BY <1>1, <1>2, <1>3 DEF Exportable

LEMMA ReorderKeeps ==
    ASSUME TimelineInv, NEW order \in Orders, Reorder(order)
    PROVE  TimelineInv' /\ EditIsWhole /\ PlaceIsFree
<1> DEFINE Place(i) == CHOOSE k \in DOMAIN order : order[k] = i
<1>1. PICK at, cs :
        /\ at = Positions(order)
        /\ Range(order) = Items /\ order # << >>
        /\ \A k \in DOMAIN order : Effective(item[order[k]]) \in 1..ClipCap /\ at[k] + Effective(item[order[k]]) <= Timeline
        /\ cs = [i \in Items |-> [item[i] EXCEPT !.start = at[Place(i)]]]
        /\ Committed(story, cs, "reorder")
  BY DEF Reorder
<1>2. order \in [1..Cardinality(Items) -> Items]
  BY DEF Orders
<1>3. \A k \in DOMAIN order : Effective(item[order[k]]) \in Nat
  BY <1>1, StoryTimelineAssumption
<1>4. /\ DOMAIN order = 1..Cardinality(Items)
      /\ \A k \in DOMAIN order : /\ at[k] \in Nat
                                 /\ \A j \in DOMAIN order : j < k => at[j] + Effective(item[order[j]]) + Gap <= at[k]
  BY <1>1, <1>2, <1>3, PositionsAre
<1>5. PICK spot : spot = [i \in Items |-> Place(i)]
  OBVIOUS
<1>6. \A i \in Items : spot[i] \in DOMAIN order /\ order[spot[i]] = i
  <2> SUFFICES ASSUME NEW i \in Items PROVE Place(i) \in DOMAIN order /\ order[Place(i)] = i
    BY <1>5
  <2>1. \E k \in DOMAIN order : order[k] = i
    BY <1>1 DEF Range
  <2> QED
    BY <2>1
<1>7. cs = [i \in Items |-> [item[i] EXCEPT !.start = at[spot[i]]]]
  BY <1>1, <1>5
<1> HIDE DEF Place
<1>8. PICK to : to = [i \in Items |-> at[spot[i]]]
  OBVIOUS
<1>9. ASSUME NEW i \in Items
      PROVE  /\ to[i] \in Nat /\ Effective(item[i]) \in Nat /\ to[i] + Effective(item[i]) <= Timeline
             /\ to[i] \in 0..Timeline /\ to[i] = at[spot[i]] /\ item[i] \in Clip
  BY <1>1, <1>3, <1>4, <1>6, <1>8, SameClips, StoryTimelineAssumption
<1>10. cs = [i \in Items |-> [item[i] EXCEPT !.start = to[i]]]
  BY <1>7, <1>8
<1>11. Sound(cs) /\ DOMAIN cs = Items /\ \A i \in Items : Part(cs[i]) = Part(item[i])
  BY <1>9, <1>10, ClipsMoved
<1>12. /\ TimelineInv'
       /\ UNCHANGED <<duration, public, takes>>
       /\ \/ item' = cs /\ did' = "reorder"
          \/ item' = item /\ story' = story /\ did' \in {"error", "failed"}
  <2>1. story \in BOOLEAN /\ story
    BY DEF TimelineInv, Reorder
  <2> QED
    BY <1>1, <1>11, <2>1, Requested
<1>13. ASSUME NEW i \in Items, NEW j \in Items, i # j
       PROVE  to[i] + Effective(item[i]) <= to[j] \/ to[j] + Effective(item[j]) <= to[i]
  <2>1. spot[i] # spot[j] /\ spot[i] \in DOMAIN order /\ spot[j] \in DOMAIN order
    BY <1>6, <1>13
  <2>2. spot[i] \in Int /\ spot[j] \in Int
    BY <1>4, <2>1
  <2>3. /\ to[i] \in Nat /\ to[j] \in Nat /\ Effective(item[i]) \in Nat /\ Effective(item[j]) \in Nat /\ Gap \in Nat
        /\ to[i] = at[spot[i]] /\ to[j] = at[spot[j]]
    BY <1>9, StoryTimelineAssumption
  <2>4. CASE spot[i] < spot[j]
    <3>1. to[i] + Effective(item[i]) + Gap <= to[j]
      BY <1>4, <1>6, <2>1, <2>3, <2>4
    <3> QED
      BY <2>3, <3>1
  <2>5. CASE spot[j] < spot[i]
    <3>1. to[j] + Effective(item[j]) + Gap <= to[i]
      BY <1>4, <1>6, <2>1, <2>3, <2>5
    <3> QED
      BY <2>3, <3>1
  <2> QED
    BY <2>1, <2>2, <2>4, <2>5
<1>14. ASSUME NEW i \in Items, NEW j \in Items, i # j
       PROVE  ~Collide([cs[i] EXCEPT !.track = 0], [cs[j] EXCEPT !.track = 0])
  <2>1. PICK a, b : a = [cs[i] EXCEPT !.track = 0] /\ b = [cs[j] EXCEPT !.track = 0]
    OBVIOUS
  <2>2. \A k \in Items : LET c == [cs[k] EXCEPT !.track = 0] IN c.start = to[k] /\ Effective(c) = Effective(item[k])
    BY <1>9, <1>10 DEF Clip, Effective
  <2>3. a.start = to[i] /\ Effective(a) = Effective(item[i]) /\ b.start = to[j] /\ Effective(b) = Effective(item[j])
    BY <2>1, <2>2
  <2>4. to[i] \in Nat /\ to[j] \in Nat /\ Effective(item[i]) \in Nat /\ Effective(item[j]) \in Nat
    BY <1>9
  <2>5. ~(a.start < b.start + Effective(b) /\ b.start < a.start + Effective(a))
    BY <1>13, <1>14, <2>3, <2>4
  <2>6. ~Collide(a, b)
    BY <2>5 DEF Collide
  <2> QED
    BY <2>1, <2>6
<1>15. EditIsWhole
  BY <1>11, <1>12 DEF EditIsWhole
<1>16. ASSUME item' = cs, Items' # {}, \A i \in Items' : Agrees(item[i])' PROVE Exportable'
  <2>1. TimelineInv' /\ UNCHANGED <<duration, public, takes>>
    BY <1>12
  <2>2. Items' = Items
    BY <1>11, <1>16 DEF Items
  <2>3. ASSUME NEW i \in Items PROVE (HasLength(item[i]) /\ EndsInTime(item[i]))'
    <3>1. Effective(item[i]) \in 1..ClipCap /\ to[i] + Effective(item[i]) <= Timeline
      BY <1>1, <1>6, <1>9
    <3>2. PICK c \in Clip : c = item'[i] /\ c.start = to[i] /\ Effective(c) = Effective(item[i])
      BY <1>9, <1>10, <1>11, <1>16 DEF Clip, Sound, Effective
    <3>3. Effective(item[i])' = Effective(c) /\ Sounding(item[i])' = Effective(c)
      BY <1>16, <2>1, <2>2, <3>2 DEF Agrees, Effective, Sounding
    <3>4. HasLength(item[i])'
      BY <3>1, <3>2, <3>3, StoryTimelineAssumption DEF HasLength
    <3>5. EndsInTime(item[i])'
      BY <3>1, <3>2, <3>3 DEF EndsInTime
    <3> QED
      BY <3>4, <3>5
  <2>4. Timely'
    BY <1>16, <2>2, <2>3 DEF Timely
  <2>5. (TimelineInv /\ Timely => Exportable)'
    BY TimelyIsExportable, PTL
  <2> QED
    BY <2>1, <2>4, <2>5
<1>17. PlaceIsFree
  BY <1>12, <1>14, <1>16 DEF PlaceIsFree
<1> QED
  BY <1>12, <1>15, <1>17

LEMMA TimelineStep ==
    ASSUME TimelineInv, StoryTimelineNext PROVE TimelineInv' /\ EditIsWhole /\ PlaceIsFree
<1>1. CASE CreateStory \/ DeleteStory
  BY <1>1, CreateKeeps, DeleteKeeps
<1>2. ASSUME NEW g \in Generations, NEW t \in Tracks, NEW s \in Starts \cup {Wherever}, Add(g, t, s)
      PROVE TimelineInv' /\ EditIsWhole /\ PlaceIsFree
  BY <1>2, AddKeeps
<1>3. ASSUME NEW i \in Items, \/ RemoveItem(i) \/ Duplicate(i)
                              \/ \E s \in Starts, t \in Tracks : Move(i, s, t)
                              \/ \E v \in Versions \cup {NoPin} : SetVersion(i, v)
                              \/ \E h, l \in Cuts : Trim(i, h, l)
                              \/ \E at \in Cuts : Split(i, at)
      PROVE TimelineInv' /\ EditIsWhole /\ PlaceIsFree
  <2>1. CASE RemoveItem(i) \/ Duplicate(i)
    BY <2>1, RemoveItemKeeps, DuplicateKeeps
  <2>2. ASSUME NEW s \in Starts, NEW t \in Tracks, Move(i, s, t) PROVE TimelineInv' /\ EditIsWhole /\ PlaceIsFree
    BY <2>2, MoveKeeps
  <2>3. ASSUME NEW v \in Versions \cup {NoPin}, SetVersion(i, v) PROVE TimelineInv' /\ EditIsWhole /\ PlaceIsFree
    BY <2>3, SetVersionKeeps
  <2>4. ASSUME NEW h \in Cuts, NEW l \in Cuts, Trim(i, h, l) PROVE TimelineInv' /\ EditIsWhole /\ PlaceIsFree
    BY <2>4, TrimKeeps
  <2>5. ASSUME NEW at \in Cuts, Split(i, at) PROVE TimelineInv' /\ EditIsWhole /\ PlaceIsFree
    BY <2>5, SplitKeeps
  <2> QED
    BY <1>3, <2>1, <2>2, <2>3, <2>4, <2>5
<1>4. ASSUME NEW times, SetTimes(times) PROVE TimelineInv' /\ EditIsWhole /\ PlaceIsFree
  BY <1>4, SetTimesKeeps
<1>5. ASSUME NEW o \in Orders, Reorder(o) PROVE TimelineInv' /\ EditIsWhole /\ PlaceIsFree
  BY <1>5, ReorderKeeps
<1>6. ASSUME NEW g \in Generations, \/ Rework(g)
                                    \/ \E d \in Lengths : Retried(g, d) \/ \E v \in Versions : Regenerated(g, v, d)
                                    \/ \E v \in Versions : MakeDefault(g, v) \/ \E w \in Versions : DropVersion(g, v, w)
      PROVE TimelineInv' /\ EditIsWhole /\ PlaceIsFree
  <2>1. CASE Rework(g)
    BY <2>1, ReworkKeeps
  <2>2. ASSUME NEW d \in Lengths, Retried(g, d) PROVE TimelineInv' /\ EditIsWhole /\ PlaceIsFree
    BY <2>2, RetriedKeeps
  <2>3. ASSUME NEW d \in Lengths, NEW v \in Versions, Regenerated(g, v, d)
        PROVE TimelineInv' /\ EditIsWhole /\ PlaceIsFree
    BY <2>3, RegeneratedKeeps
  <2>4. ASSUME NEW v \in Versions, MakeDefault(g, v) PROVE TimelineInv' /\ EditIsWhole /\ PlaceIsFree
    BY <2>4, MakeDefaultKeeps
  <2>5. ASSUME NEW v \in Versions, NEW w \in Versions, DropVersion(g, v, w)
        PROVE TimelineInv' /\ EditIsWhole /\ PlaceIsFree
    BY <2>5, DropVersionKeeps
  <2> QED
    BY <1>6, <2>1, <2>2, <2>3, <2>4, <2>5
<1> QED
  BY <1>1, <1>2, <1>3, <1>4, <1>5, <1>6 DEF StoryTimelineNext

LEMMA TimelineStutters == TimelineInv /\ UNCHANGED storyVars => TimelineInv'
BY DEF storyVars, libraryRows, TimelineInv, Sound, Fit, Items, HasLength, Effective

LEMMA TimelineAlways == StoryTimelineSpec => []TimelineInv
<1>1. TimelineInv /\ [StoryTimelineNext]_storyVars => TimelineInv'
  BY TimelineStep, TimelineStutters
<1> QED
  BY <1>1, TimelineStarts, PTL DEF StoryTimelineSpec

(* Splits are not heard, moves and duplicates and new orders change nothing *)
(* that a clip plays, and a create, split or duplicate that is answered     *)
(* with an error has done nothing: for any Story, audio and requests        *)
(* (stories.py).                                                            *)
THEOREM EditsAreAlwaysWhole == StoryTimelineSpec => EditsAreWhole
<1>1. TimelineInv /\ [StoryTimelineNext]_storyVars =>
        [edits' # edits =>
           /\ did' = "split" => HeardOf(item') = HeardOf(item)
           /\ did' \in {"place", "move", "reorder"} => \A i \in Items : Part(item'[i]) = Part(item[i])
           /\ did' = "failed" => UNCHANGED <<story, item>>]_storyVars
  BY TimelineStep DEF EditIsWhole
<1> QED
  BY <1>1, TimelineAlways, PTL DEF StoryTimelineSpec, EditsAreWhole

(* A place the program chooses is free, no clip is left with a version that *)
(* is gone, and an export refuses no Story after a reorder, and after any   *)
(* edit none but for the three things that edits do not look at: files of   *)
(* another length, a duration that fell, and an end past the timeline.      *)
THEOREM PlacesAreAlwaysFree == StoryTimelineSpec => PlacesAreFree
<1>1. TimelineInv /\ TimelineInv' /\ [StoryTimelineNext]_storyVars =>
        [/\ (did' = "place" /\ edits' # edits) =>
                \A i \in DOMAIN item' \ Items, j \in Items : ~Collide(item'[i], item[j])
         /\ (did' = "reorder" /\ edits' # edits) =>
                \A i, j \in Items : i # j => ~Collide([item'[i] EXCEPT !.track = 0], [item'[j] EXCEPT !.track = 0])
         /\ \A i \in Items' : Played(item[i])' > 0
         /\ (/\ Items' # {} /\ \A i \in Items' : Agrees(item[i])'
             /\ \/ did' = "reorder" /\ edits' # edits
                \/ ~shrunk' /\ \A i \in Items' : EndsInTime(item[i])') => Exportable']_storyVars
  <2> DEFINE Other == /\ Items' # {} /\ \A i \in Items' : Agrees(item[i])'
                      /\ ~shrunk' /\ \A i \in Items' : EndsInTime(item[i])'
  <2> SUFFICES ASSUME TimelineInv, TimelineInv', StoryTimelineNext
               PROVE  PlaceIsFree /\ (\A i \in Items' : Played(item[i])' > 0) /\ (Other => Exportable')
    BY DEF PlaceIsFree
  <2>1. PlaceIsFree
    BY TimelineStep
  <2>2. \A i \in Items' : Played(item[i])' > 0
    <3>1. (TimelineInv => \A i \in Items : Played(item[i]) \in 1..ClipCap)'
      BY FilesAreThere, PTL
    <3>2. \A n \in 1..ClipCap : n > 0
      BY StoryTimelineAssumption
    <3> QED
      BY <3>1, <3>2
  <2>3. ASSUME Other PROVE Exportable'
    <3>1. (TimelineInv /\ Timely => Exportable)'
      BY TimelyIsExportable, PTL
    <3>2. \A i \in Items' : HasLength(item[i])'
      BY <2>3 DEF TimelineInv, Sound, Fit, Items
    <3>3. Timely'
      BY <2>3, <3>2 DEF Timely
    <3> QED
      BY <3>1, <3>3
  <2> QED
    BY <2>1, <2>2, <2>3
<1> QED
  BY <1>1, TimelineAlways, PTL DEF StoryTimelineSpec, PlacesAreFree


-----------------------------------------------------------------------------
JournalTypes ==
  /\ rows \in SUBSET (Files \cup {Profile})
  /\ place \in [Entries -> {Absent, Public} \cup Intents]
  /\ home \in [Samples -> Dirs]
  /\ intents \in SUBSET Intents
  /\ phase \in {"down", "recover", "refused", "idle", "staging", "undo", "discard"}
  /\ worklist \in SUBSET intents
  /\ todo \in SUBSET Entries
  /\ staging \in SUBSET intents /\ \A i, j \in staging : i = j
  /\ doomed \in SUBSET rows
  /\ stuck \in BOOLEAN
  /\ pubStep \in {"none", "checked", "created", "writing", "published", "committed", "failed"}
  /\ pubFile \in Files \cup {Absent}
  /\ faults \in 0..MaxFaults

Hidden(e) == place[e] \in Intents

(* A file that a deletion has hidden. *)
Deleting(e) == Hidden(e) /\ place[e].kind = "delete"

(* At most one directory there is. *)
Lone == \A d, e \in Dirs : place[d] # Absent /\ place[e] # Absent => d = e

(* What is hidden is hidden under its own intent; only a deletion hides what *)
(* a row owns, and what it hides in a place that is always in view it knows. *)
NamesHold ==
  /\ \A e \in Entries : Hidden(e) => place[e].of = e
  /\ \A e \in Entries : Hidden(e) /\ ~Deleting(e) => e \in Files \ rows
  /\ \A e \in Audio \cup Dirs : Deleting(e) => place[e] \in intents

(* One directory is public at a time; an intent of an owned profile keeps   *)
(* its directory.                                                           *)
DirectoriesHold ==
  /\ \A d, e \in PublicDirs : d = e
  /\ \A s \in Samples : place[home[s]] = Absent => place[s] = Absent
  /\ Profile \in rows =>
       \A i \in intents : /\ i.of \in Samples => place[home[i.of]] # Absent
                          /\ i.of \in Dirs => place[i.of] # Absent

(* What a row owns is there, and known unless two undos have failed.        *)
RowsHold ==
  /\ NoOrphanSample
  /\ \A f \in rows \cap Files : place[f] # Absent
  /\ \A s \in rows \cap Samples : place[s] \in {Public} \cup intents \/ (faults > 1 /\ ~Lone)

(* The operation that has the event loop. *)
PhasesHold ==
  /\ phase \in {"down", "refused", "idle"} => worklist = {}
  /\ phase # "staging" => todo = {} /\ staging = {} /\ doomed = {}
  /\ phase \in {"down", "refused", "recover"} => pubStep = "none"
  /\ phase \in {"staging", "discard"} => pubStep \in {"none", "checked", "writing"}
  /\ pubStep \in {"created", "published", "committed"} => phase = "idle"
  /\ pubStep = "failed" => phase = "undo"
  /\ stuck => phase \in {"recover", "refused"}
  /\ phase = "recover" /\ ~stuck => intents \subseteq worklist

(* The publication in flight. *)
OnlyIntent == \A i \in intents : i.of = pubFile => i = PubIntent
InSight == place[pubFile] = Public /\ InView(pubFile) /\ Profile \in rows

PublicationHolds ==
  /\ pubStep = "none" <=> pubFile = Absent
  /\ pubStep \in {"checked", "created"} => pubFile \notin rows /\ \A i \in intents : i.of # pubFile
  /\ pubStep = "checked" => place[pubFile] = Absent
  /\ pubStep = "created" => place[pubFile] = PubIntent /\ InView(pubFile)
  /\ pubStep \in {"writing", "published", "committed"} => PubIntent \in intents
  /\ pubStep \in {"writing", "published", "committed", "failed"} => OnlyIntent
  /\ pubStep = "writing" => pubFile \notin rows /\ place[pubFile] \in {PubIntent, Absent}
  /\ pubStep = "published" => pubFile \notin rows /\ InSight
  /\ pubStep = "committed" => pubFile \in rows /\ InSight
  /\ pubStep = "failed" => /\ worklist \subseteq {PubIntent}
                           /\ place[pubFile] \in {PubIntent, Public, Absent}
                           /\ pubFile \in rows => InSight

(* What a deletion has still to settle: files, or files and the directory, *)
(* never a sample by itself and the directory.                             *)
DeletionHolds ==
  phase \in {"staging", "undo", "discard"} /\ pubStep # "failed" =>
    /\ \A i \in worklist : /\ i.kind = "delete"
                           /\ InView(i.of)
                           /\ i.of \in Dirs => PublicDirs \subseteq {i.of}
    /\ \A i, j \in worklist : i.of \in Dirs => j.of \notin Samples /\ (j.of \in Dirs => j.of = i.of)
    /\ phase = "discard" => \A i \in worklist : ~Owns(i.of) /\ place[i.of] \in {i, Absent}

Covered(e) == \E i \in intents : i.of = e

(* A deletion until its commit: what it has hidden, what it is hiding and   *)
(* what it has still to hide cover what its rows own.                       *)
StagingHolds ==
  phase = "staging" =>
    /\ \A i \in worklist : /\ place[i.of] = i
                           /\ i.of \in doomed \cup Dirs
                           /\ i.of \in Dirs => todo = {} /\ staging = {}
    /\ \A i \in staging : /\ i.kind = "delete"
                          /\ place[i.of] = Public /\ InView(i.of)
                          /\ i.of \in todo
                          /\ i.of \in Dirs => todo = {i.of}
    /\ todo \subseteq (doomed \cap Files) \cup PublicDirs
    /\ todo \cap Dirs # {} => Profile \in doomed
    /\ \A i \in worklist : i.of \in Dirs => Profile \in doomed
    /\ Profile \in doomed => /\ doomed = rows
                             /\ pubFile \notin Audio
                             /\ todo \cap Samples = {}
                             /\ \A i \in worklist : i.of \notin Samples
    /\ Profile \notin doomed => \A e, f \in doomed : e = f
    /\ \A f \in doomed \cap Audio : f \in todo \/ Covered(f)
    /\ faults = 0 /\ Profile \notin doomed => \A s \in doomed \cap Samples : s \in todo \/ Covered(s)
    /\ faults = 0 /\ Profile \in doomed =>
         \A s \in rows \cap Samples : home[s] \in todo \/ Covered(home[s])

(* A file without a row that is nevertheless there. *)
Pending(f) == place[f] \in Intents \ intents /\ place[f].kind = "publish"
Accounted(f) == place[f] = Absent \/ Pending(f) \/ Covered(f)

AudioAccounted == \A f \in Audio \ rows : Accounted(f)

(* Before the first fault. *)
Faultless ==
  faults = 0 =>
    /\ Profile \in rows => Lone
    /\ \A s \in Samples : Deleting(s) => Profile \in rows /\ InView(s) /\ place[s] \in intents
    /\ phase # "down" => /\ \A s \in Samples : Deleting(s) => place[s] \in worklist
                         /\ Profile \in rows => \A d \in Dirs : Hidden(d) => place[d] \in worklist
    /\ \A s \in Samples \ rows : Accounted(s) \/ (Profile \notin rows /\ Covered(home[s]))
    /\ stuck \/ phase = "refused" => Profile \notin rows

(* With one fault: a sample is hidden below a hidden directory only while  *)
(* an operation, or the next startup, has the directory to settle.         *)
Nested(s) == place[s] # Public /\ place[home[s]] # Public
Loose(s) == place[s] \notin {Public} \cup worklist

OneFault ==
  faults <= 1 =>
    /\ \A s \in rows \cap Samples : Nested(s) =>
         faults = 1 /\ Lone /\ (phase = "down" \/ place[home[s]] \in worklist)
    /\ phase # "down" /\ (\E s \in rows \cap Samples : Loose(s)) =>
         Lone /\ \A d \in Dirs : Hidden(d) => place[d] \in worklist

JournalInv ==
  /\ JournalTypes /\ NamesHold /\ DirectoriesHold /\ RowsHold
  /\ PhasesHold /\ PublicationHolds /\ DeletionHolds /\ StagingHolds
  /\ AudioAccounted /\ Faultless /\ OneFault

-----------------------------------------------------------------------------
LEMMA Distinct ==
  /\ Entries = Audio \cup Samples \cup Dirs /\ Files = Audio \cup Samples
  /\ \A e \in Entries : e # Profile
  /\ \A e \in Audio : e \notin Samples /\ e \notin Dirs
  /\ \A e \in Samples : e \notin Dirs
  /\ Absent # Public /\ Absent \notin Intents /\ Public \notin Intents /\ Absent \notin Entries
BY NamesAssumption DEF Entries, Files

LEMMA IntentFacts == \A i \in Intents : i.of \in Entries /\ i.kind \in {"publish", "delete"}
BY DEF Intents

LEMMA PubIntentFacts ==
  pubFile \in Files => /\ PubIntent \in Intents
                       /\ PubIntent.of = pubFile /\ PubIntent.kind = "publish"
BY BoundsAssumption DEF PubIntent, Intents, Entries

LEMMA MovedTo ==
  ASSUME NEW e \in Entries, NEW w
  PROVE  \A x \in Entries :
           Moved(e, w)[x] = IF x = e \/ (w = Absent /\ x \in Samples /\ e \in Dirs /\ home[x] = e)
                              THEN w ELSE place[x]
BY DEF Moved

LEMMA InitJournal == Init => JournalInv
<1> SUFFICES ASSUME Init PROVE JournalInv
  OBVIOUS
<1>1. \A e \in Entries : place[e] = Absent
  BY DEF Init
<1>2. JournalTypes
  <2>1. place \in [Entries -> {Absent, Public} \cup Intents]
    BY DEF Init
  <2>2. home \in [Samples -> Dirs]
    BY DEF Init
  <2>3. faults \in 0..MaxFaults
    BY BoundsAssumption DEF Init
  <2>4. /\ rows = {} /\ intents = {} /\ worklist = {} /\ todo = {} /\ staging = {} /\ doomed = {}
        /\ phase = "idle" /\ stuck = FALSE /\ pubStep = "none" /\ pubFile = Absent
    BY DEF Init
  <2> QED
    BY <2>1, <2>2, <2>3, <2>4 DEF JournalTypes
<1>3. NamesHold /\ DirectoriesHold /\ RowsHold
  BY <1>1, <1>2, Distinct DEF Init, NamesHold, DirectoriesHold, RowsHold, Hidden, Deleting, PublicDirs, NoOrphanSample
<1>4. PhasesHold /\ PublicationHolds /\ DeletionHolds /\ StagingHolds
  BY <1>1, <1>2, Distinct DEF Init, PhasesHold, PublicationHolds, DeletionHolds, StagingHolds
<1>5. AudioAccounted /\ Faultless /\ OneFault
  BY <1>1, <1>2, Distinct DEF Init, AudioAccounted, Accounted, Faultless, OneFault, Deleting, Hidden, Lone, Nested, Loose
<1> QED
  BY <1>2, <1>3, <1>4, <1>5 DEF JournalInv

(* Steps that leave rows, files and intents alone. *)
LEMMA DurableKept ==
  ASSUME JournalInv, UNCHANGED durableVars, faults' \in {faults, faults + 1}
  PROVE  NamesHold' /\ DirectoriesHold' /\ RowsHold' /\ AudioAccounted'
<1>1. UNCHANGED <<rows, place, home, intents>> /\ faults \in Nat
  BY BoundsAssumption DEF durableVars, JournalInv, JournalTypes
<1>2. NamesHold'
  BY <1>1 DEF JournalInv, NamesHold, Hidden, Deleting
<1>3. DirectoriesHold'
  BY <1>1 DEF JournalInv, DirectoriesHold, PublicDirs
<1>4. RowsHold'
  BY <1>1 DEF JournalInv, RowsHold, NoOrphanSample, Lone
<1>5. AudioAccounted'
  BY <1>1 DEF JournalInv, AudioAccounted, Accounted, Pending, Covered
<1> QED
  BY <1>2, <1>3, <1>4, <1>5

(* ... and take nothing off the worklist, while the server is up. *)
LEMMA SettledKept ==
  ASSUME JournalInv, UNCHANGED durableVars, UNCHANGED faults, worklist \subseteq worklist',
         phase # "down", stuck' => stuck, phase' = "refused" => phase = "refused" \/ stuck
  PROVE  Faultless' /\ OneFault'
<1>1. UNCHANGED <<rows, place, home, intents>>
  BY DEF durableVars
<1>2. Faultless'
  BY <1>1 DEF JournalInv, Faultless, Lone, Deleting, Hidden, InView, Accounted, Pending, Covered
<1>3. OneFault'
  BY <1>1 DEF JournalInv, OneFault, Lone, Hidden, Nested, Loose
<1> QED
  BY <1>2, <1>3

(* ... and the publication in flight.                                       *)
LEMMA PublicationKept ==
  ASSUME JournalInv, UNCHANGED durableVars, UNCHANGED pubVars, pubStep # "failed"
  PROVE  PublicationHolds'
<1>1. UNCHANGED <<rows, place, home, intents, pubStep, pubFile>>
  BY DEF durableVars, pubVars
<1> QED
  BY <1>1 DEF JournalInv, PublicationHolds, OnlyIntent, PubIntent, InSight, InView

(* An upload claims a fresh name.                                           *)
LEMMA PubBeginKeeps == ASSUME JournalInv, NEW f \in Files, PubBegin(f) PROVE JournalInv'
<1>1. /\ phase = "idle" /\ pubStep = "none" /\ f \notin rows /\ place[f] = Absent
      /\ \A i \in intents : i.of # f
      /\ pubStep' = "checked" /\ pubFile' = f
      /\ UNCHANGED <<durableVars, phase, worklist, deleteVars, stuck, faults>>
  BY DEF PubBegin, Unused, LoopFree
<1>2. JournalTypes'
  BY <1>1 DEF JournalInv, JournalTypes, durableVars, deleteVars
<1>3. NamesHold' /\ DirectoriesHold' /\ RowsHold' /\ AudioAccounted'
  BY <1>1, DurableKept
<1>4. PhasesHold'
  BY <1>1 DEF JournalInv, PhasesHold, durableVars, deleteVars
<1>5. PublicationHolds'
  BY <1>1, Distinct DEF JournalInv, PublicationHolds, durableVars
<1>6. DeletionHolds' /\ StagingHolds'
  BY <1>1 DEF DeletionHolds, StagingHolds
<1>7. Faultless' /\ OneFault'
  BY <1>1, SettledKept
<1> QED
  BY <1>2, <1>3, <1>4, <1>5, <1>6, <1>7 DEF JournalInv

(* A deletion begins: nothing is hidden that nobody is about to settle. *)
LEMMA DeleteFileKeeps == ASSUME JournalInv, NEW f \in Files, DeleteFile(f) PROVE JournalInv'
<1>1. /\ phase = "idle" /\ pubStep \in {"none", "checked", "writing"} /\ f \in rows
      /\ phase' = "staging" /\ doomed' = {f} /\ todo' = {f}
      /\ UNCHANGED <<durableVars, worklist, staging, stuck, pubVars, faults>>
  BY DEF DeleteFile, LoopFree
<1>2. JournalTypes'
  BY <1>1, Distinct DEF JournalInv, JournalTypes, durableVars, pubVars
<1>3. NamesHold' /\ DirectoriesHold' /\ RowsHold' /\ AudioAccounted'
  BY <1>1, DurableKept
<1>4. PhasesHold'
  BY <1>1 DEF JournalInv, PhasesHold, durableVars, pubVars
<1>5. PublicationHolds'
  BY <1>1, PublicationKept
<1>6. worklist' = {} /\ staging' = {}
  BY <1>1 DEF JournalInv, PhasesHold
<1>7. DeletionHolds'
  BY <1>6 DEF DeletionHolds
<1>8. StagingHolds'
  BY <1>1, <1>6, Distinct DEF StagingHolds
<1>9. Faultless' /\ OneFault'
  BY <1>1, SettledKept DEF JournalInv, PhasesHold
<1> QED
  BY <1>2, <1>3, <1>4, <1>5, <1>7, <1>8, <1>9 DEF JournalInv

LEMMA DeleteProfileKeeps == ASSUME JournalInv, DeleteProfile PROVE JournalInv'
<1>1. /\ phase = "idle" /\ pubStep \in {"none", "checked", "writing"} /\ Profile \in rows
      /\ pubStep = "none" \/ pubFile \in Samples
      /\ phase' = "staging" /\ doomed' = rows
      /\ todo' = (rows \cap Audio) \cup PublicDirs
      /\ UNCHANGED <<durableVars, worklist, staging, stuck, pubVars, faults>>
  BY DEF DeleteProfile, LoopFree
<1>2. JournalTypes'
  BY <1>1, Distinct DEF JournalInv, JournalTypes, durableVars, pubVars, PublicDirs
<1>3. NamesHold' /\ DirectoriesHold' /\ RowsHold' /\ AudioAccounted'
  BY <1>1, DurableKept
<1>4. PhasesHold'
  BY <1>1 DEF JournalInv, PhasesHold, durableVars, pubVars
<1>5. PublicationHolds'
  BY <1>1, PublicationKept
<1>6. worklist' = {} /\ staging' = {} /\ worklist = {}
  BY <1>1 DEF JournalInv, PhasesHold
<1>7. DeletionHolds'
  BY <1>6 DEF DeletionHolds
<1>8. ASSUME faults = 0, NEW s \in rows \cap Samples PROVE home[s] \in PublicDirs
  <2>1. home[s] \in Dirs /\ home[s] \in Entries /\ s \in Files
    BY <1>8, Distinct DEF JournalInv, JournalTypes
  <2>2. place[home[s]] # Absent
    BY <1>8, <2>1 DEF JournalInv, RowsHold, DirectoriesHold
  <2>3. ~Hidden(home[s])
    BY <1>1, <1>6, <1>8, <2>1 DEF JournalInv, Faultless
  <2> QED
    BY <2>1, <2>2, <2>3 DEF JournalInv, JournalTypes, Hidden, PublicDirs
<1>9. StagingHolds'
  BY <1>1, <1>6, <1>8, Distinct DEF JournalInv, PublicationHolds, StagingHolds, durableVars, pubVars, PublicDirs
<1>10. Faultless' /\ OneFault'
  BY <1>1, SettledKept DEF JournalInv, PhasesHold
<1> QED
  BY <1>2, <1>3, <1>4, <1>5, <1>7, <1>9, <1>10 DEF JournalInv

(* A hidden directory is known to the journal. *)
LEMMA HiddenDirectory ==
  ASSUME JournalInv, NEW d \in Dirs
  PROVE  /\ place[d] \in {Absent, Public} \cup intents
         /\ Hidden(d) => Deleting(d) /\ place[d] \in intents
<1>1. d \in Entries /\ d \notin Files
  BY Distinct
<1> QED
  BY <1>1 DEF JournalInv, JournalTypes, NamesHold, Hidden, Deleting

(* Where the file of a row is. *)
LEMMA OwnedFile ==
  ASSUME JournalInv, NEW f \in rows \cap Files
  PROVE  /\ f \in Entries /\ place[f] # Absent
         /\ place[f] = Public \/ (Deleting(f) /\ place[f].of = f)
         /\ f \in Samples => place[home[f]] # Absent /\ home[f] \in Dirs /\ home[f] \in Entries
<1>1. f \in Entries
  BY Distinct
<1>2. place[f] # Absent
  BY DEF JournalInv, RowsHold
<1>3. place[f] = Public \/ (Deleting(f) /\ place[f].of = f)
  BY <1>1, <1>2 DEF JournalInv, JournalTypes, NamesHold, Hidden, Deleting
<1>4. f \in Samples => place[home[f]] # Absent /\ home[f] \in Dirs /\ home[f] \in Entries
  BY <1>2, Distinct DEF JournalInv, JournalTypes, DirectoriesHold
<1> QED
  BY <1>1, <1>2, <1>3, <1>4

(* Nothing to hide: the file is out of view or not there.                   *)
LEMMA StageSkipKeeps == ASSUME JournalInv, NEW e \in Entries, StageSkip(e) PROVE JournalInv'
<1>1. /\ phase = "staging" /\ staging = {} /\ e \in todo
      /\ ~(InView(e) /\ place[e] = Public)
      /\ todo' = todo \ {e}
      /\ UNCHANGED <<durableVars, phase, worklist, staging, doomed, stuck, pubVars, faults>>
  BY DEF StageSkip
<1>2. JournalTypes'
  BY <1>1 DEF JournalInv, JournalTypes, durableVars, pubVars
<1>3. NamesHold' /\ DirectoriesHold' /\ RowsHold' /\ AudioAccounted'
  BY <1>1, DurableKept
<1>4. PhasesHold'
  BY <1>1 DEF JournalInv, PhasesHold, durableVars, pubVars
<1>5. PublicationHolds'
  BY <1>1, PublicationKept DEF JournalInv, PhasesHold
<1>6. DeletionHolds'
  BY <1>1 DEF JournalInv, DeletionHolds, Owns, InView, PublicDirs, durableVars, pubVars
<1>7. e \in doomed \cap Files
  BY <1>1, Distinct DEF JournalInv, StagingHolds, InView, PublicDirs
<1>9. ASSUME e \in Audio PROVE Covered(e)
  <2>1. Deleting(e)
    BY <1>1, <1>7, <1>9, OwnedFile, Distinct DEF InView, JournalInv, JournalTypes
  <2>2. place[e] \in intents /\ place[e].of = e
    BY <1>7, <1>9, <2>1, Distinct DEF JournalInv, NamesHold, Deleting
  <2> QED
    BY <2>2 DEF Covered
<1>10. ASSUME faults = 0, Profile \notin doomed, e \in Samples PROVE Covered(e)
  <2>1. e \in rows \cap Files /\ Profile \in rows
    BY <1>7, <1>10 DEF JournalInv, JournalTypes, RowsHold, NoOrphanSample
  <2>2. InView(e)
    <3>1. home[e] \in Dirs /\ home[e] \in Entries /\ place[home[e]] # Absent
      BY <1>10, <2>1, OwnedFile
    <3>2. Hidden(home[e]) => place[home[e]] \in worklist /\ place[home[e]].of = home[e]
      BY <1>1, <1>10, <2>1, <3>1 DEF JournalInv, Faultless, NamesHold
    <3>3. ~Hidden(home[e])
      BY <1>1, <1>10, <3>1, <3>2 DEF JournalInv, StagingHolds
    <3> QED
      BY <3>1, <3>3 DEF JournalInv, JournalTypes, InView, Hidden
  <2>3. Deleting(e) /\ place[e].of = e
    BY <1>1, <2>1, <2>2, OwnedFile
  <2>4. place[e] \in intents
    BY <1>10, <2>3 DEF JournalInv, Faultless
  <2> QED
    BY <2>3, <2>4 DEF Covered
<1>11. StagingHolds'
  <2>1. /\ \A f \in doomed' \cap Audio : f \in todo' \/ Covered(f)'
        /\ faults' = 0 /\ Profile \notin doomed' =>
             \A s \in doomed' \cap Samples : s \in todo' \/ Covered(s)'
    BY <1>1, <1>9, <1>10 DEF JournalInv, StagingHolds, Covered, durableVars
  <2>2. faults' = 0 /\ Profile \in doomed' =>
             \A s \in rows' \cap Samples : home'[s] \in todo' \/ Covered(home[s])'
    BY <1>1, <1>7, Distinct DEF JournalInv, JournalTypes, StagingHolds, Covered, durableVars
  <2> QED
    BY <1>1, <2>1, <2>2 DEF JournalInv, StagingHolds, InView, PublicDirs, durableVars, pubVars
<1>12. Faultless' /\ OneFault'
  BY <1>1, SettledKept
<1> QED
  BY <1>2, <1>3, <1>4, <1>5, <1>6, <1>11, <1>12 DEF JournalInv

(* An operation fails with nothing half done, or has settled its worklist.  *)
LEMMA DeleteRaisesKeeps == ASSUME JournalInv, DeleteRaises PROVE JournalInv'
<1>1. /\ phase = "staging" /\ staging = {} /\ phase' = "undo" /\ todo' = {} /\ doomed' = {}
      /\ UNCHANGED <<durableVars, worklist, staging, stuck, pubVars, faults>>
  BY DEF DeleteRaises
<1>2. JournalTypes'
  BY <1>1 DEF JournalInv, JournalTypes, durableVars, pubVars
<1>3. NamesHold' /\ DirectoriesHold' /\ RowsHold' /\ AudioAccounted'
  BY <1>1, DurableKept
<1>4. PhasesHold'
  BY <1>1 DEF JournalInv, PhasesHold, durableVars, pubVars
<1>5. PublicationHolds'
  BY <1>1, PublicationKept DEF JournalInv, PhasesHold
<1>6. DeletionHolds'
  BY <1>1 DEF JournalInv, DeletionHolds, PhasesHold, InView, PublicDirs, durableVars, pubVars
<1>7. StagingHolds'
  BY <1>1 DEF StagingHolds
<1>8. Faultless' /\ OneFault'
  BY <1>1, SettledKept
<1> QED
  BY <1>2, <1>3, <1>4, <1>5, <1>6, <1>7, <1>8 DEF JournalInv

LEMMA DeleteEndsKeeps == ASSUME JournalInv, DeleteEnds PROVE JournalInv'
<1>1. /\ phase \in {"undo", "discard"} /\ pubStep # "failed" /\ worklist = {} /\ phase' = "idle"
      /\ UNCHANGED <<durableVars, worklist, deleteVars, stuck, pubVars, faults>>
  BY DEF DeleteEnds
<1>2. JournalTypes'
  BY <1>1 DEF JournalInv, JournalTypes, durableVars, deleteVars, pubVars
<1>3. NamesHold' /\ DirectoriesHold' /\ RowsHold' /\ AudioAccounted'
  BY <1>1, DurableKept
<1>4. PhasesHold'
  BY <1>1 DEF JournalInv, PhasesHold, durableVars, deleteVars, pubVars
<1>5. PublicationHolds'
  BY <1>1, PublicationKept
<1>6. DeletionHolds' /\ StagingHolds'
  BY <1>1 DEF DeletionHolds, StagingHolds
<1>7. Faultless' /\ OneFault'
  BY <1>1, SettledKept
<1> QED
  BY <1>2, <1>3, <1>4, <1>5, <1>6, <1>7 DEF JournalInv

(* The process dies, and starts again. *)
LEMMA CrashKeeps == ASSUME JournalInv, Crash PROVE JournalInv'
<1>1. /\ phase' = "down" /\ pubStep' = "none" /\ pubFile' = Absent /\ worklist' = {}
      /\ todo' = {} /\ staging' = {} /\ doomed' = {} /\ stuck' = FALSE
      /\ UNCHANGED <<durableVars, faults>>
  BY DEF Crash
<1>2. JournalTypes'
  BY <1>1 DEF JournalInv, JournalTypes, durableVars
<1>3. NamesHold' /\ DirectoriesHold' /\ RowsHold' /\ AudioAccounted'
  BY <1>1, DurableKept
<1>4. PhasesHold' /\ PublicationHolds' /\ DeletionHolds' /\ StagingHolds'
  BY <1>1 DEF PhasesHold, PublicationHolds, DeletionHolds, StagingHolds
<1>5. Faultless'
  BY <1>1 DEF JournalInv, Faultless, Lone, Deleting, Hidden, InView, Accounted, Pending, Covered, durableVars
<1>6. OneFault'
  BY <1>1 DEF JournalInv, OneFault, Lone, Nested, durableVars
<1> QED
  BY <1>2, <1>3, <1>4, <1>5, <1>6 DEF JournalInv

LEMMA StartKeeps == ASSUME JournalInv, Start PROVE JournalInv'
<1>1. /\ phase \in {"down", "refused"} /\ phase' = "recover" /\ worklist' = intents /\ stuck' = FALSE
      /\ UNCHANGED <<durableVars, deleteVars, pubVars, faults>>
  BY DEF Start
<1>2. JournalTypes'
  BY <1>1 DEF JournalInv, JournalTypes, durableVars, deleteVars, pubVars
<1>3. NamesHold' /\ DirectoriesHold' /\ RowsHold' /\ AudioAccounted'
  BY <1>1, DurableKept
<1>4. PhasesHold'
  BY <1>1 DEF JournalInv, PhasesHold, durableVars, deleteVars, pubVars
<1>5. PublicationHolds'
  BY <1>1, PublicationKept DEF JournalInv, PhasesHold
<1>6. DeletionHolds' /\ StagingHolds'
  BY <1>1 DEF DeletionHolds, StagingHolds
<1>7. \A d \in Dirs : Hidden(d) => place[d] \in worklist'
  BY <1>1, HiddenDirectory
<1>8. Faultless'
  BY <1>1, <1>7 DEF JournalInv, Faultless, Lone, Deleting, Hidden, InView, Accounted, Pending, Covered, durableVars
<1>9. ASSUME faults <= 1, NEW s \in rows \cap Samples
      PROVE  place[s] \in {Public} \cup intents /\ (Nested(s) => place[home[s]] \in intents)
  <2>1. place[s] \in {Public} \cup intents
    BY <1>9, BoundsAssumption DEF JournalInv, JournalTypes, RowsHold
  <2>2. place[home[s]] # Absent /\ home[s] \in Dirs
    BY OwnedFile, Distinct
  <2> QED
    BY <2>1, <2>2, HiddenDirectory DEF Nested
<1>10. OneFault'
  <2>1. UNCHANGED <<rows, place, home, intents, faults>>
    BY <1>1 DEF durableVars
  <2>2. ASSUME faults <= 1, NEW s \in rows \cap Samples, Nested(s) PROVE faults = 1 /\ Lone
    BY <2>2 DEF JournalInv, OneFault
  <2> QED
    BY <1>1, <1>9, <2>1, <2>2 DEF OneFault, Lone, Nested, Loose
<1> QED
  BY <1>2, <1>3, <1>4, <1>5, <1>6, <1>8, <1>10 DEF JournalInv

(* The server starts over a settled journal only.                           *)
LEMMA RecoverEndsKeeps == ASSUME JournalInv, RecoverEnds PROVE JournalInv'
<1>1. /\ phase = "recover" /\ worklist = {}
      /\ phase' = IF stuck THEN "refused" ELSE "idle"
      /\ UNCHANGED <<durableVars, worklist, deleteVars, stuck, pubVars, faults>>
  BY DEF RecoverEnds
<1>2. JournalTypes'
  BY <1>1 DEF JournalInv, JournalTypes, durableVars, deleteVars, pubVars
<1>3. NamesHold' /\ DirectoriesHold' /\ RowsHold' /\ AudioAccounted'
  BY <1>1, DurableKept
<1>4. PhasesHold'
  BY <1>1 DEF JournalInv, PhasesHold, durableVars, deleteVars, pubVars
<1>5. PublicationHolds'
  BY <1>1, PublicationKept DEF JournalInv, PhasesHold
<1>6. DeletionHolds' /\ StagingHolds'
  BY <1>1 DEF DeletionHolds, StagingHolds
<1>7. Faultless' /\ OneFault'
  BY <1>1, SettledKept
<1> QED
  BY <1>2, <1>3, <1>4, <1>5, <1>6, <1>7 DEF JournalInv

(* An intent is recorded before the file is touched. *)
LEMMA IntentRecorded ==
  ASSUME JournalInv, NEW i \in Intents, intents' = intents \cup {i},
         UNCHANGED <<rows, place, home, faults>>,
         i.of \in Samples => place[home[i.of]] # Absent,
         i.of \in Dirs => place[i.of] # Absent
  PROVE  /\ NamesHold' /\ DirectoriesHold' /\ RowsHold' /\ AudioAccounted'
         /\ \A f \in Files : Accounted(f) => Accounted(f)'
         /\ \A e \in Entries : Covered(e) => Covered(e)'
<1>1. \A e \in Entries : Covered(e) => Covered(e)'
  BY DEF Covered
<1>2. \A f \in Files : Accounted(f) => Accounted(f)'
  BY Distinct DEF JournalInv, NamesHold, Accounted, Pending, Covered, Hidden
<1>3. NamesHold'
  BY DEF JournalInv, NamesHold, Hidden, Deleting
<1>4. DirectoriesHold'
  BY DEF JournalInv, DirectoriesHold, PublicDirs
<1>5. RowsHold'
  BY DEF JournalInv, RowsHold, NoOrphanSample, Lone
<1>6. AudioAccounted'
  BY <1>2, Distinct DEF JournalInv, AudioAccounted
<1> QED
  BY <1>1, <1>2, <1>3, <1>4, <1>5, <1>6

(* It changes nothing of what is hidden and settled. *)
LEMMA RecordedSettled ==
  ASSUME JournalInv, NEW i \in Intents, intents' = intents \cup {i},
         UNCHANGED <<rows, place, home, faults, phase, worklist, stuck>>,
         \A f \in Files : Accounted(f) => Accounted(f)',
         \A e \in Entries : Covered(e) => Covered(e)'
  PROVE  Faultless' /\ OneFault'
<1>1. ASSUME faults = 0 PROVE \A s \in Samples \ rows : Accounted(s)' \/ (Profile \notin rows /\ Covered(home[s])')
  BY <1>1, Distinct DEF JournalInv, JournalTypes, Faultless
<1>2. Faultless'
  BY <1>1 DEF JournalInv, Faultless, Lone, Deleting, Hidden, InView, Covered
<1>3. OneFault'
  BY DEF JournalInv, OneFault, Lone, Hidden, Nested, Loose
<1> QED
  BY <1>2, <1>3

(* The intent of a deletion; then, once all is hidden, its commit.          *)
LEMMA StagePrepareKeeps == ASSUME JournalInv, NEW e \in Entries, StagePrepare(e) PROVE JournalInv'
<1>1. PICK i \in Intents :
        /\ i \notin intents /\ i.kind = "delete" /\ i.of = e
        /\ intents' = intents \cup {i} /\ staging' = {i}
  BY DEF StagePrepare, Fresh
<1>2. /\ phase = "staging" /\ staging = {} /\ e \in todo /\ (e \in Dirs => todo = {e})
      /\ InView(e) /\ place[e] = Public
      /\ UNCHANGED <<rows, place, home, phase, worklist, todo, doomed, stuck, pubVars, faults>>
  BY DEF StagePrepare
<1>3. JournalTypes'
  BY <1>1, <1>2 DEF JournalInv, JournalTypes, pubVars
<1>4. (i.of \in Samples => place[home[i.of]] # Absent) /\ place[i.of] # Absent
  BY <1>1, <1>2, Distinct DEF InView
<1>5. /\ NamesHold' /\ DirectoriesHold' /\ RowsHold' /\ AudioAccounted'
      /\ \A f \in Files : Accounted(f) => Accounted(f)'
      /\ \A x \in Entries : Covered(x) => Covered(x)'
  BY <1>1, <1>2, <1>4, IntentRecorded
<1>6. PhasesHold'
  BY <1>1, <1>2 DEF JournalInv, PhasesHold, pubVars
<1>7. e # pubFile
  BY <1>2, Distinct DEF JournalInv, JournalTypes, PhasesHold, PublicationHolds, StagingHolds, PublicDirs
<1>8. PublicationHolds'
  BY <1>1, <1>2, <1>7 DEF JournalInv, PublicationHolds, PhasesHold, pubVars, OnlyIntent, PubIntent, InSight, InView
<1>9. DeletionHolds'
  BY <1>1, <1>2 DEF JournalInv, DeletionHolds, InView, PublicDirs, Owns, pubVars
<1>10. StagingHolds'
  <2>1. /\ \A f \in doomed' \cap Audio : f \in todo' \/ Covered(f)'
        /\ faults' = 0 /\ Profile \notin doomed' =>
             \A s \in doomed' \cap Samples : s \in todo' \/ Covered(s)'
    BY <1>2, <1>5, Distinct DEF JournalInv, StagingHolds
  <2>2. faults' = 0 /\ Profile \in doomed' =>
             \A s \in rows' \cap Samples : home'[s] \in todo' \/ Covered(home[s])'
    BY <1>2, <1>5, Distinct DEF JournalInv, JournalTypes, StagingHolds
  <2>3. \A j \in worklist : j.of \notin Dirs
    BY <1>2 DEF JournalInv, StagingHolds
  <2> QED
    BY <1>1, <1>2, <2>1, <2>2, <2>3 DEF JournalInv, StagingHolds, InView, PublicDirs, pubVars
<1>11. Faultless' /\ OneFault'
  BY <1>1, <1>2, <1>5, RecordedSettled
<1> QED
  BY <1>3, <1>5, <1>6, <1>8, <1>9, <1>10, <1>11 DEF JournalInv

LEMMA DeleteCommitKeeps == ASSUME JournalInv, DeleteCommit PROVE JournalInv'
<1>1. /\ phase = "staging" /\ staging = {} /\ todo = {}
      /\ rows' = rows \ doomed /\ phase' \in {"discard", "undo"} /\ doomed' = {} /\ todo' = {}
      /\ UNCHANGED <<place, home, intents, worklist, staging, stuck, pubVars, faults>>
  BY DEF DeleteCommit
<1>2. JournalTypes'
  BY <1>1 DEF JournalInv, JournalTypes, pubVars
<1>3. Profile \in doomed => rows' = {}
  BY <1>1 DEF JournalInv, StagingHolds
<1>4. NamesHold' /\ DirectoriesHold'
  BY <1>1 DEF JournalInv, NamesHold, DirectoriesHold, Hidden, Deleting, PublicDirs
<1>5. RowsHold'
  BY <1>1, <1>3 DEF JournalInv, RowsHold, NoOrphanSample, Lone
<1>6. AudioAccounted'
  BY <1>1 DEF JournalInv, AudioAccounted, StagingHolds, Accounted, Pending, Covered
<1>7. PhasesHold'
  BY <1>1 DEF JournalInv, PhasesHold, pubVars
<1>8. PublicationHolds'
  BY <1>1 DEF JournalInv, PublicationHolds, PhasesHold, pubVars, OnlyIntent, PubIntent, InSight, InView
<1>9. \A i \in worklist : ~Owns(i.of)' /\ place'[i.of] = i
  BY <1>1, <1>3, Distinct DEF JournalInv, StagingHolds, Owns
<1>10. DeletionHolds' /\ StagingHolds'
  BY <1>1, <1>9 DEF JournalInv, DeletionHolds, PhasesHold, StagingHolds, InView, PublicDirs, pubVars
<1>11. Faultless'
  <2> SUFFICES ASSUME faults = 0 PROVE Faultless'
    BY <1>1 DEF Faultless
  <2>1. \A s \in Samples : Deleting(s) => Profile \notin doomed
    BY <1>1, Distinct DEF JournalInv, Faultless, NamesHold, StagingHolds, Deleting
  <2>2. ASSUME NEW s \in Samples \ rows'
        PROVE  Accounted(s)' \/ (Profile \notin rows' /\ Covered(home[s])')
    BY <1>1, <1>3, <2>2 DEF JournalInv, Faultless, StagingHolds, Accounted, Pending, Covered
  <2> QED
    BY <1>1, <2>1, <2>2 DEF JournalInv, Faultless, PhasesHold, Lone, Deleting, Hidden, InView
<1>12. OneFault'
  BY <1>1 DEF JournalInv, OneFault, Lone, Hidden, Nested, Loose
<1> QED
  BY <1>2, <1>4, <1>5, <1>6, <1>7, <1>8, <1>10, <1>11, <1>12 DEF JournalInv

(* What a deletion is about to hide. *)
LEMMA StagedEntry ==
  ASSUME JournalInv, phase = "staging", NEW i \in staging
  PROVE  /\ i \in intents /\ i \in Intents /\ i.kind = "delete" /\ i.of \in Entries /\ i # Absent
         /\ place[i.of] = Public /\ InView(i.of)
         /\ i.of \in todo /\ i.of \notin Files \ rows
         /\ i.of \in Files => i.of \in doomed /\ i.of \notin Dirs
         /\ i.of \in Dirs => /\ todo = {i.of} /\ Profile \in doomed /\ PublicDirs = {i.of}
                             /\ \A j \in worklist : j.of \notin Samples
         /\ \A j \in worklist : j.of \notin Dirs /\ j.of # i.of /\ j # i
         /\ i.of # pubFile
<1>1. /\ i \in intents /\ i \in Intents /\ i.kind = "delete" /\ i.of \in Entries /\ i # Absent
      /\ place[i.of] = Public /\ InView(i.of) /\ i.of \in todo
  BY IntentFacts, Distinct DEF JournalInv, JournalTypes, StagingHolds
<1>2. i.of \in Files => i.of \in doomed /\ i.of \notin Dirs
  BY <1>1, Distinct DEF JournalInv, StagingHolds, PublicDirs
<1>3. i.of \in Dirs => /\ todo = {i.of} /\ Profile \in doomed /\ PublicDirs = {i.of}
                       /\ \A j \in worklist : j.of \notin Samples
  BY <1>1 DEF JournalInv, StagingHolds, DirectoriesHold, PublicDirs
<1>4. \A j \in worklist : j.of \notin Dirs /\ j.of # i.of /\ j # i
  BY <1>1, Distinct DEF JournalInv, JournalTypes, StagingHolds
<1>5. i.of \notin Files \ rows
  BY <1>2 DEF JournalInv, JournalTypes
<1>6. i.of # pubFile
  BY <1>1, <1>5, Distinct DEF JournalInv, JournalTypes, PhasesHold, PublicationHolds
<1> QED
  BY <1>1, <1>2, <1>3, <1>4, <1>5, <1>6

(* Hiding it leaves names, directories, rows and the publication in order.  *)
LEMMA StagedMove ==
  ASSUME JournalInv, phase = "staging", NEW i \in staging, place' = Moved(i.of, i),
         UNCHANGED <<rows, home, intents, pubVars>>, faults' \in {faults, faults + 1}
  PROVE  /\ NamesHold' /\ DirectoriesHold' /\ RowsHold' /\ AudioAccounted' /\ PublicationHolds'
         /\ \A x \in Entries : place'[x] = IF x = i.of THEN i ELSE place[x]
         /\ \A j \in worklist : InView(j.of)'
         /\ InView(i.of)' /\ (Lone' <=> Lone)
         /\ \A s \in Samples \ rows : Accounted(s) => Accounted(s)'
<1> DEFINE e == i.of
<1>1. /\ i \in intents /\ i \in Intents /\ i.kind = "delete" /\ e \in Entries /\ i # Absent
      /\ place[e] = Public /\ InView(e) /\ e \notin Files \ rows
      /\ e \in Dirs => \A j \in worklist : j.of \notin Samples
      /\ e # pubFile
  BY StagedEntry
<1>2. \A x \in Entries : place'[x] = IF x = e THEN i ELSE place[x]
  BY <1>1, MovedTo
<1>3. faults \in Nat /\ UNCHANGED <<rows, home, intents, pubStep, pubFile>>
  BY BoundsAssumption DEF JournalInv, JournalTypes, pubVars
<1> HIDE DEF e
<1>4. Lone' <=> Lone
  BY <1>1, <1>2, Distinct DEF Lone
<1>5. NamesHold'
  BY <1>1, <1>2, <1>3, Distinct DEF JournalInv, NamesHold, Hidden, Deleting, e
<1>6. DirectoriesHold'
  <2>1. \A d \in PublicDirs' : d \in PublicDirs
    BY <1>1, <1>2, Distinct DEF PublicDirs, JournalInv, JournalTypes
  <2>2. \A x \in Entries : place'[x] = Absent <=> place[x] = Absent
    BY <1>1, <1>2, Distinct
  <2>3. \A s \in Samples : home[s] \in Entries
    BY Distinct DEF JournalInv, JournalTypes
  <2> QED
    BY <1>3, <2>1, <2>2, <2>3, Distinct DEF JournalInv, DirectoriesHold
<1>7. RowsHold'
  BY <1>1, <1>2, <1>3, <1>4, Distinct DEF JournalInv, RowsHold, NoOrphanSample
<1>8. \A f \in Files \ rows : Accounted(f) => Accounted(f)'
  BY <1>1, <1>2, <1>3, Distinct DEF Accounted, Pending, Covered
<1>9. AudioAccounted'
  BY <1>3, <1>8, Distinct DEF JournalInv, AudioAccounted
<1>10. PublicationHolds'
  <2>1. pubStep \in {"none", "checked", "writing"}
    BY DEF JournalInv, PhasesHold
  <2>2. pubStep # "none" => pubFile \in Entries /\ place'[pubFile] = place[pubFile]
    BY <1>1, <1>2, Distinct DEF JournalInv, JournalTypes, PublicationHolds
  <2> QED
    BY <1>3, <2>1, <2>2 DEF JournalInv, PublicationHolds, OnlyIntent, PubIntent
<1>11. InView(e)'
  BY <1>1, <1>2, <1>3, Distinct DEF InView, JournalInv, JournalTypes
<1>12. \A j \in worklist : InView(j.of)'
  BY <1>1, <1>2, <1>3, Distinct DEF InView, JournalInv, JournalTypes, DeletionHolds, PhasesHold
<1> QED
  BY <1>2, <1>4, <1>5, <1>6, <1>7, <1>8, <1>9, <1>10, <1>11, <1>12, Distinct DEF e

LEMMA StageRenameKeeps == ASSUME JournalInv, StageRename PROVE JournalInv'
<1>1. PICK i \in staging :
        /\ phase = "staging" /\ place' = Moved(i.of, i) /\ worklist' = worklist \cup {i}
        /\ todo' = todo \ {i.of} /\ staging' = {}
        /\ UNCHANGED <<rows, home, intents, phase, doomed, stuck, pubVars, faults>>
  BY DEF StageRename
<1> DEFINE e == i.of
<1>2. /\ i \in intents /\ i \in Intents /\ i.kind = "delete" /\ e \in Entries
      /\ place[e] = Public /\ InView(e) /\ e \in todo /\ e \notin Files \ rows
      /\ e \in Files => e \in doomed /\ e \notin Dirs
      /\ e \in Dirs => /\ todo = {e} /\ Profile \in doomed /\ PublicDirs = {e}
                       /\ \A j \in worklist : j.of \notin Samples
      /\ \A j \in worklist : j.of \notin Dirs /\ j.of # e
  BY <1>1, StagedEntry
<1>3. /\ NamesHold' /\ DirectoriesHold' /\ RowsHold' /\ AudioAccounted' /\ PublicationHolds'
      /\ \A x \in Entries : place'[x] = IF x = e THEN i ELSE place[x]
      /\ \A j \in worklist : InView(j.of)'
      /\ InView(e)' /\ (Lone' <=> Lone)
      /\ \A s \in Samples \ rows : Accounted(s) => Accounted(s)'
  BY <1>1, StagedMove
<1>4. i.of = e
  OBVIOUS
<1> HIDE DEF e
<1>5. JournalTypes'
  <2>1. place' \in [Entries -> {Absent, Public} \cup Intents]
    BY <1>1, <1>2 DEF JournalInv, JournalTypes, Moved
  <2> QED
    BY <1>1, <1>2, <2>1 DEF JournalInv, JournalTypes, pubVars
<1>6. PhasesHold'
  BY <1>1 DEF JournalInv, PhasesHold, pubVars
<1>7. \A d \in PublicDirs' : d \in PublicDirs /\ d # e
  BY <1>2, <1>3, Distinct DEF PublicDirs, JournalInv, JournalTypes
<1>8. DeletionHolds'
  BY <1>1, <1>2, <1>3, <1>4, <1>7, Distinct DEF JournalInv, DeletionHolds, PhasesHold
<1>9. StagingHolds'
  <2>1. \A j \in worklist : place'[j.of] = j /\ j.of \in Entries
    BY <1>1, <1>2, <1>3, IntentFacts DEF JournalInv, JournalTypes, StagingHolds
  <2>2. \A x \in Entries : Covered(x)' <=> Covered(x)
    BY <1>1 DEF Covered
  <2>3. Covered(e)
    BY <1>2, <1>4 DEF Covered
  <2>4. todo' \subseteq (doomed \cap Files) \cup PublicDirs'
    BY <1>1, <1>2, <1>3, <1>4, Distinct DEF JournalInv, StagingHolds, PublicDirs
  <2>5. /\ \A f \in doomed' \cap Audio : f \in todo' \/ Covered(f)'
        /\ faults' = 0 /\ Profile \notin doomed' =>
             \A s \in doomed' \cap Samples : s \in todo' \/ Covered(s)'
    BY <1>1, <1>4, <2>2, <2>3, Distinct DEF JournalInv, StagingHolds
  <2>6. faults' = 0 /\ Profile \in doomed' =>
             \A s \in rows' \cap Samples : home'[s] \in todo' \/ Covered(home[s])'
    BY <1>1, <1>4, <2>2, <2>3, Distinct DEF JournalInv, JournalTypes, StagingHolds
  <2>7. /\ place'[e] = i /\ e \in doomed \cup Dirs /\ (e \in Dirs => todo' = {} /\ staging' = {})
    BY <1>1, <1>2, <1>3, <1>4, Distinct
  <2> QED
    BY <1>1, <1>2, <1>4, <2>1, <2>4, <2>5, <2>6, <2>7, Distinct DEF JournalInv, StagingHolds, pubVars
<1>10. ASSUME faults = 0, NEW s \in Samples, Deleting(s)'
       PROVE  Profile \in rows /\ InView(s)' /\ place'[s] \in intents /\ place'[s] \in worklist'
  <2>1. CASE s = e
    <3>1. s \in rows
      BY <1>2, <2>1, Distinct
    <3> QED
      BY <1>1, <1>2, <1>3, <2>1, <3>1, Distinct DEF JournalInv, RowsHold, NoOrphanSample
  <2>2. CASE s # e
    <3>1. Deleting(s) /\ place'[s] = place[s]
      BY <1>3, <1>10, <2>2, Distinct DEF Deleting, Hidden
    <3>2. Profile \in rows /\ InView(s) /\ place[s] \in intents /\ place[s] \in worklist
      BY <1>1, <1>10, <3>1 DEF JournalInv, Faultless
    <3>3. place[s].of = s
      BY <3>1, Distinct DEF JournalInv, NamesHold, Deleting
    <3> QED
      BY <1>1, <1>3, <3>1, <3>2, <3>3
  <2> QED
    BY <2>1, <2>2
<1>11. Profile \in rows /\ faults = 0 => \A d \in Dirs : Hidden(d)' => place'[d] \in worklist'
  BY <1>1, <1>3, Distinct DEF JournalInv, Faultless, Hidden
<1>12. Faultless'
  <2>1. \A s \in Samples : Covered(home[s])' <=> Covered(home[s])
    BY <1>1 DEF Covered
  <2> QED
    BY <1>1, <1>3, <1>10, <1>11, <2>1 DEF JournalInv, Faultless
<1>13. ASSUME faults <= 1, NEW s \in rows \cap Samples, Nested(s)'
       PROVE  faults = 1 /\ Lone /\ place'[home[s]] \in worklist'
  <2>1. s \in Entries /\ home[s] \in Dirs /\ home[s] \in Entries /\ s \notin Dirs /\ s \in Files
    BY Distinct DEF JournalInv, JournalTypes
  <2>2. s # e
    BY <1>1, <1>3, <1>13 DEF Nested, InView
  <2>3. place[s] # Public
    BY <1>3, <1>13, <2>1, <2>2 DEF Nested
  <2>4. CASE home[s] # e
    BY <1>1, <1>3, <1>13, <2>1, <2>3, <2>4 DEF JournalInv, OneFault, Nested
  <2>5. CASE home[s] = e
    <3>1. place[s].of = s /\ Deleting(s)
      BY <2>1, <2>3, OwnedFile
    <3>2. place[s] \notin worklist
      BY <1>2, <2>1, <2>5, <3>1
    <3>3. faults # 0
      BY <1>1, <3>1, <3>2 DEF JournalInv, Faultless
    <3>4. faults \in Nat
      BY BoundsAssumption DEF JournalInv, JournalTypes
    <3>5. Lone
      BY <1>1, <1>13, <2>3, <3>2 DEF JournalInv, OneFault, Loose
    <3> QED
      BY <1>1, <1>3, <1>13, <2>1, <2>5, <3>3, <3>4, <3>5
  <2> QED
    BY <2>4, <2>5
<1>14. ASSUME NEW s \in rows \cap Samples, Loose(s)' PROVE Loose(s)
  BY <1>1, <1>3, <1>14, Distinct DEF Loose
<1>15. OneFault'
  BY <1>1, <1>3, <1>13, <1>14, Distinct DEF JournalInv, OneFault, Hidden
<1> QED
  BY <1>3, <1>5, <1>6, <1>8, <1>9, <1>12, <1>15 DEF JournalInv

(* A rename that raises, whether or not it has taken place.                 *)
LEMMA StageRaisesKeeps == ASSUME JournalInv, StageRaises PROVE JournalInv'
<1>1. PICK i \in staging :
        /\ phase = "staging"
        /\ \/ UNCHANGED place /\ intents' = intents \ {i}
           \/ place' \in {place, Moved(i.of, i)} /\ UNCHANGED intents
        /\ faults < MaxFaults /\ faults' = faults + 1
        /\ phase' = "undo" /\ todo' = {} /\ staging' = {} /\ doomed' = {}
        /\ UNCHANGED <<rows, home, worklist, stuck, pubVars>>
  BY DEF StageRaises, Fault
<1>2. /\ i \in intents /\ i \in Intents /\ i.kind = "delete" /\ i.of \in Entries /\ i # Absent
      /\ place[i.of] = Public /\ InView(i.of) /\ i.of \notin Files \ rows
      /\ i.of \in Dirs => /\ Profile \in doomed /\ PublicDirs = {i.of}
                          /\ \A j \in worklist : j.of \notin Samples
      /\ \A j \in worklist : j # i
      /\ i.of # pubFile
  BY <1>1, StagedEntry
<1>3. faults \in Nat /\ MaxFaults \in Nat
  BY BoundsAssumption DEF JournalInv, JournalTypes
<1>4. JournalTypes'
  <2>1. place' \in [Entries -> {Absent, Public} \cup Intents]
    BY <1>1, <1>2 DEF JournalInv, JournalTypes, Moved
  <2>2. faults' \in 0..MaxFaults
    BY <1>1, <1>3
  <2>3. worklist' \in SUBSET intents' /\ intents' \in SUBSET Intents
    BY <1>1, <1>2 DEF JournalInv, JournalTypes
  <2> QED
    BY <1>1, <2>1, <2>2, <2>3 DEF JournalInv, JournalTypes, pubVars
<1>5. PhasesHold'
  BY <1>1 DEF JournalInv, PhasesHold, pubVars
<1>6. StagingHolds' /\ Faultless'
  BY <1>1, <1>3 DEF StagingHolds, Faultless
<1>7. ASSUME faults = 0, NEW s \in Samples, Deleting(s)
      PROVE  Profile \in rows /\ InView(s) /\ place[s] \in worklist /\ place[s].of = s
  BY <1>1, <1>7, Distinct DEF JournalInv, Faultless, NamesHold, Deleting
<1>8. ASSUME faults = 0, NEW s \in rows \cap Samples PROVE ~Nested(s) /\ ~Loose(s)
  <2>1. ~Nested(s)
    BY <1>3, <1>8 DEF JournalInv, OneFault
  <2>2. ~Loose(s)
    BY <1>7, <1>8, OwnedFile, Distinct DEF Loose
  <2> QED
    BY <2>1, <2>2
<1>9. CASE UNCHANGED place
  <2>1. \A x \in Entries : place[x] \in Intents /\ place[x] \in intents => place[x] \in intents'
    BY <1>1, <1>2, Distinct DEF JournalInv, NamesHold, Hidden
  <2>2. NamesHold'
    BY <1>1, <1>9, <2>1, Distinct DEF JournalInv, NamesHold, Hidden, Deleting
  <2>3. DirectoriesHold'
    BY <1>1, <1>9 DEF JournalInv, DirectoriesHold, PublicDirs
  <2>4. RowsHold'
    <3>1. \A s \in rows \cap Samples : place[s] \in {Public} \cup intents => place[s] \in {Public} \cup intents'
      BY <2>1, Distinct DEF JournalInv, JournalTypes
    <3> QED
      BY <1>1, <1>3, <1>9, <3>1 DEF JournalInv, RowsHold, NoOrphanSample, Lone
  <2>5. AudioAccounted'
    BY <1>1, <1>2, <1>9, <2>1, Distinct DEF JournalInv, AudioAccounted, Accounted, Pending, Covered
  <2>6. PublicationHolds'
    <3>1. pubStep = "writing" => PubIntent \in intents'
      BY <1>1, <1>2 DEF JournalInv, PublicationHolds, PubIntent
    <3> QED
      BY <1>1, <1>9, <3>1 DEF JournalInv, PublicationHolds, PhasesHold, OnlyIntent, PubIntent, InSight, InView, pubVars
  <2>7. DeletionHolds'
    BY <1>1, <1>9 DEF JournalInv, DeletionHolds, PhasesHold, InView, PublicDirs, pubVars
  <2>8. OneFault'
    BY <1>1, <1>3, <1>8, <1>9 DEF OneFault, Nested, Loose
  <2> QED
    BY <1>4, <1>5, <1>6, <2>2, <2>3, <2>4, <2>5, <2>6, <2>7, <2>8 DEF JournalInv
<1>10. CASE place' = Moved(i.of, i) /\ UNCHANGED intents
  <2>1. /\ NamesHold' /\ DirectoriesHold' /\ RowsHold' /\ AudioAccounted' /\ PublicationHolds'
        /\ \A x \in Entries : place'[x] = IF x = i.of THEN i ELSE place[x]
        /\ \A j \in worklist : InView(j.of)'
        /\ InView(i.of)' /\ (Lone' <=> Lone)
    BY <1>1, <1>10, StagedMove
  <2>2. \A d \in PublicDirs' : d \in PublicDirs
    BY <1>2, <2>1, Distinct DEF PublicDirs, JournalInv, JournalTypes
  <2>3. DeletionHolds'
    BY <1>1, <2>1, <2>2 DEF JournalInv, DeletionHolds, PhasesHold, pubVars
  <2>4. ASSUME faults = 0, NEW s \in rows \cap Samples PROVE ~Nested(s)'
    <3>1. s \in Entries /\ home[s] \in Dirs /\ home[s] \in Entries /\ s \notin Dirs
      BY Distinct DEF JournalInv, JournalTypes
    <3>2. CASE s = i.of
      BY <1>1, <2>1, <3>2 DEF Nested, InView
    <3>3. CASE s # i.of /\ place[s] = Public
      BY <1>1, <2>1, <3>1, <3>3 DEF Nested
    <3>4. CASE s # i.of /\ place[s] # Public
      <4>1. Deleting(s)
        BY <3>4, OwnedFile, Distinct
      <4>2. InView(s) /\ place[s] \in worklist /\ place[s].of = s
        BY <1>7, <2>4, <4>1
      <4>3. home[s] # i.of
        BY <1>2, <3>1, <4>2
      <4> QED
        BY <1>1, <2>1, <3>1, <4>2, <4>3 DEF Nested, InView
    <3> QED
      BY <3>2, <3>3, <3>4
  <2>5. ASSUME faults = 0, NEW s \in rows \cap Samples, Loose(s)'
        PROVE  Lone' /\ \A d \in Dirs : Hidden(d)' => place'[d] \in worklist'
    <3>1. s = i.of
      BY <1>1, <1>8, <2>1, <2>5, Distinct DEF Loose
    <3>2. Profile \in rows
      BY DEF JournalInv, RowsHold, NoOrphanSample
    <3> QED
      BY <1>1, <2>1, <2>5, <3>1, <3>2, Distinct DEF JournalInv, Faultless, Hidden
  <2>6. OneFault'
    BY <1>1, <1>3, <2>4, <2>5 DEF OneFault
  <2> QED
    BY <1>4, <1>5, <1>6, <2>1, <2>3, <2>6 DEF JournalInv
<1> QED
  BY <1>1, <1>9, <1>10

(* What nobody owns is removed, a directory with all that is in it. *)
LEMMA Removed ==
  ASSUME JournalInv, NEW e \in Entries, ~Owns(e), place' = Moved(e, Absent),
         UNCHANGED <<rows, home, intents, faults, worklist, stuck>>,
         {phase, phase'} \cap {"down", "refused"} = {}
  PROVE  /\ NamesHold' /\ DirectoriesHold' /\ RowsHold' /\ AudioAccounted'
         /\ Faultless' /\ OneFault'
         /\ place' \in [Entries -> {Absent, Public} \cup Intents]
         /\ \A x \in Entries : place'[x] \in {place[x], Absent}
         /\ e \notin Dirs => \A x \in Entries : InView(x) => InView(x)'
         /\ \A d \in PublicDirs' : d \in PublicDirs
         /\ place'[e] = Absent
<1>1. \A x \in Entries :
        place'[x] = IF x = e \/ (x \in Samples /\ e \in Dirs /\ home[x] = e) THEN Absent ELSE place[x]
  BY MovedTo
<1>2. e \in Dirs => rows \cap Samples = {} /\ Profile \notin rows
  BY DEF Owns
<1>3. e \notin Dirs => e \notin rows
  BY DEF Owns
<1>4. \A s \in Samples : home[s] \in Dirs /\ home[s] \in Entries /\ s \in Entries /\ s \notin Dirs /\ s \in Files
  BY Distinct DEF JournalInv, JournalTypes
<1>5. \A x \in Entries : place'[x] \in {place[x], Absent}
  BY <1>1
<1>6. \A d \in Dirs : d \in Entries /\ (place'[d] = IF d = e THEN Absent ELSE place[d])
  BY <1>1, Distinct
<1>7. \A d \in PublicDirs' : d \in PublicDirs
  BY <1>6, Distinct DEF PublicDirs
<1>8. e \notin Dirs => \A x \in Entries : InView(x) => InView(x)'
  BY <1>4, <1>6 DEF InView
<1>9. place' \in [Entries -> {Absent, Public} \cup Intents]
  BY DEF JournalInv, JournalTypes, Moved
<1>10. NamesHold'
  BY <1>5, Distinct DEF JournalInv, NamesHold, Hidden, Deleting
<1>11. DirectoriesHold'
  <2>1. \A s \in Samples : place'[home[s]] = Absent => place'[s] = Absent
    BY <1>1, <1>4, <1>6 DEF JournalInv, DirectoriesHold
  <2>2. Profile \in rows =>
          \A i \in intents : /\ i.of \in Samples => place'[home[i.of]] # Absent
                             /\ i.of \in Dirs => place'[i.of] # Absent
    BY <1>2, <1>4, <1>6 DEF JournalInv, DirectoriesHold
  <2> QED
    BY <1>7, <2>1, <2>2 DEF JournalInv, DirectoriesHold
<1>12. \A f \in rows \cap Files : place'[f] = place[f]
  BY <1>1, <1>2, <1>3, Distinct
<1>13. e \notin Dirs => (Lone' <=> Lone)
  BY <1>6 DEF Lone
<1>14. RowsHold'
  BY <1>2, <1>4, <1>12, <1>13 DEF JournalInv, RowsHold, NoOrphanSample
<1>15. \A f \in Files : Accounted(f) => Accounted(f)'
  BY <1>5, Distinct DEF Accounted, Pending, Covered
<1>16. AudioAccounted'
  BY <1>15, Distinct DEF JournalInv, AudioAccounted
<1>17. Faultless'
  <2> SUFFICES ASSUME faults = 0 PROVE Faultless'
    BY DEF Faultless
  <2>1. Profile \in rows => Lone'
    BY <1>2, <1>13 DEF JournalInv, Faultless
  <2>2. \A s \in Samples : Deleting(s)' => Deleting(s) /\ place'[s] = place[s]
    BY <1>4, <1>5, Distinct DEF Deleting, Hidden
  <2>3. \A s \in Samples : Deleting(s)' => Profile \in rows /\ InView(s)' /\ place'[s] \in intents
    BY <1>2, <1>4, <1>8, <2>2 DEF JournalInv, Faultless
  <2>4. phase # "down" => /\ \A s \in Samples : Deleting(s)' => place'[s] \in worklist
                          /\ Profile \in rows => \A d \in Dirs : Hidden(d)' => place'[d] \in worklist
    BY <1>6, <2>2, Distinct DEF JournalInv, Faultless, Hidden
  <2>5. \A s \in Samples \ rows : Accounted(s)' \/ (Profile \notin rows /\ Covered(home[s])')
    BY <1>4, <1>15 DEF JournalInv, Faultless, Covered
  <2> QED
    BY <2>1, <2>3, <2>4, <2>5 DEF JournalInv, Faultless
<1>18. OneFault'
  <2>1. phase # "down" /\ phase' # "down"
    OBVIOUS
  <2>2. CASE e \in Dirs
    BY <1>2, <2>2 DEF OneFault
  <2>3. CASE e \notin Dirs
    <3>1. \A d \in Dirs : place'[d] = place[d]
      BY <1>6, <2>3
    <3>2. \A s \in rows \cap Samples : (Nested(s)' <=> Nested(s)) /\ (Loose(s)' <=> Loose(s))
      BY <1>4, <1>12, <3>1 DEF Nested, Loose
    <3> QED
      BY <1>4, <1>13, <2>1, <2>3, <3>1, <3>2 DEF JournalInv, OneFault, Hidden
  <2> QED
    BY <2>2, <2>3
<1> QED
  BY <1>5, <1>7, <1>8, <1>9, <1>1, <1>10, <1>11, <1>14, <1>16, <1>17, <1>18

(* An intent is cleared when nothing is under its staged name any more, or *)
(* when it cannot see the name.                                            *)
LEMMA Cleared ==
  ASSUME JournalInv, NEW i \in intents,
         UNCHANGED <<rows, place, home, faults, phase, stuck>>,
         intents' = intents \ {i}, worklist' = worklist \ {i},
         \A x \in Entries : place[x] = i =>
           x \in Samples /\ ~InView(x) /\ (PublicDirs # {} \/ x \notin rows),
         i.of \in Files \ rows => ~(place[i.of] = Public /\ InView(i.of)),
         i.of \in Samples \ rows /\ ~InView(i.of) => PublicDirs # {} \/ Profile \notin rows,
         i.of \in Dirs /\ place[i.of] = Public => Profile \in rows
  PROVE  NamesHold' /\ DirectoriesHold' /\ RowsHold' /\ AudioAccounted' /\ Faultless' /\ OneFault'
<1>1. \A s \in Samples : home[s] \in Dirs /\ home[s] \in Entries /\ s \in Entries /\ s \notin Dirs /\ s \in Files
  BY Distinct DEF JournalInv, JournalTypes
<1>2. \A e \in Audio \cup Dirs : e \in Entries /\ e \notin Samples /\ place[e] # i
  BY Distinct
<1>3. faults \in Nat
  BY BoundsAssumption DEF JournalInv, JournalTypes
<1>4. ASSUME NEW s \in rows \cap Samples, place[s] = i PROVE faults > 1 /\ ~Lone
  <2>1. ~InView(s) /\ PublicDirs # {} /\ place[home[s]] # Absent
    BY <1>1, <1>4, OwnedFile
  <2>2. ~Lone
    BY <1>1, <2>1, Distinct DEF InView, PublicDirs, Lone
  <2>3. Nested(s)
    BY <1>1, <1>4, <2>1, Distinct DEF InView, Nested, JournalInv, JournalTypes
  <2> QED
    BY <1>3, <2>2, <2>3 DEF JournalInv, OneFault
<1>5. NamesHold'
  BY <1>2 DEF JournalInv, NamesHold, Hidden, Deleting
<1>6. DirectoriesHold'
  BY DEF JournalInv, DirectoriesHold, PublicDirs
<1>7. RowsHold'
  BY <1>4 DEF JournalInv, RowsHold, NoOrphanSample, Lone
<1>8. ASSUME NEW f \in Files \ rows, Accounted(f), place[f] # Public \/ i.of # f,
             place[f] # i, Deleting(f) => place[f] \in intents
      PROVE  Accounted(f)'
  <2>1. CASE Pending(f) \/ place[f] = Absent
    BY <2>1 DEF Accounted, Pending
  <2>2. CASE Covered(f) /\ i.of # f
    BY <2>2 DEF Accounted, Covered
  <2>3. CASE i.of = f /\ Hidden(f)
    <3>1. f \in Entries /\ place[f].of = f /\ place[f].kind \in {"publish", "delete"}
      BY <2>3, Distinct, IntentFacts DEF JournalInv, NamesHold, Hidden
    <3> QED
      BY <1>8, <2>3, <3>1 DEF Accounted, Pending, Covered, Hidden, Deleting
  <2> QED
    BY <1>8, <2>1, <2>2, <2>3, Distinct DEF Accounted, JournalInv, JournalTypes, Hidden
<1>9. AudioAccounted'
  <2> SUFFICES ASSUME NEW f \in Audio \ rows PROVE Accounted(f)'
    BY DEF AudioAccounted
  <2>1. f \in Files \ rows /\ Accounted(f) /\ place[f] # i /\ InView(f)
    BY <1>2, Distinct DEF JournalInv, AudioAccounted, InView
  <2>2. Deleting(f) => place[f] \in intents
    BY DEF JournalInv, NamesHold
  <2> QED
    BY <1>8, <2>1, <2>2
<1>10. Faultless'
  <2> SUFFICES ASSUME faults = 0 PROVE Faultless'
    BY DEF Faultless
  <2>1. \A s \in Samples : Deleting(s) => /\ Profile \in rows /\ InView(s) /\ place[s] \in intents /\ place[s] # i
                                          /\ phase # "down" => place[s] \in worklist
    BY <1>1 DEF JournalInv, Faultless
  <2>2. ASSUME NEW s \in Samples \ rows
        PROVE  Accounted(s)' \/ (Profile \notin rows /\ Covered(home[s])')
    <3>1. Accounted(s) \/ (Profile \notin rows /\ Covered(home[s]))
      BY DEF JournalInv, Faultless
    <3>2. place[home[s]] = Absent => place[s] = Absent
      BY DEF JournalInv, DirectoriesHold
    <3>3. place[s] = Absent => Accounted(s)'
      BY DEF Accounted
    <3>4. Hidden(home[s]) => Covered(home[s])'
      BY <1>1, <1>2, HiddenDirectory, IntentFacts DEF JournalInv, NamesHold, Covered, Hidden
    <3>5. CASE i.of = home[s]
      <4>1. place[home[s]] = Public => Profile \in rows
        BY <1>1, <3>5
      <4>2. CASE Profile \in rows
        BY <1>1, <3>1, <3>5, <4>2 DEF Accounted, Pending, Covered
      <4> QED
        BY <1>1, <3>2, <3>3, <3>4, <4>1, <4>2 DEF JournalInv, JournalTypes, Hidden
    <3>6. CASE i.of = s /\ InView(s)
      <4>1. place[s] # i /\ place[s] # Public /\ Accounted(s)
        BY <1>1, <3>6 DEF Covered, Accounted
      <4>2. s \in Files \ rows /\ (Deleting(s) => place[s] \in intents)
        BY <1>1, <2>1
      <4>3. Accounted(s)'
        BY <1>8, <4>1, <4>2
      <4> QED
        BY <4>3
    <3>7. CASE i.of = s /\ ~InView(s)
      <4>1. place[s] = Absent \/ Hidden(home[s])
        BY <1>1, <3>2, <3>7 DEF InView, JournalInv, JournalTypes, Hidden
      <4>2. place[s] = Absent \/ Profile \notin rows
        <5> SUFFICES ASSUME Profile \in rows, place[s] # Absent PROVE FALSE
          OBVIOUS
        <5>1. Lone /\ PublicDirs # {} /\ place[home[s]] # Absent /\ home[s] \notin PublicDirs
          BY <1>1, <3>2, <3>7 DEF JournalInv, Faultless, InView, PublicDirs
        <5> QED
          BY <1>1, <5>1, Distinct DEF Lone, PublicDirs
      <4> QED
        BY <3>3, <3>4, <4>1, <4>2
    <3>8. CASE i.of # s /\ i.of # home[s]
      <4>1. Accounted(s) => Accounted(s)'
        BY <3>8 DEF Accounted, Pending, Covered
      <4>2. Covered(home[s]) => Covered(home[s])'
        BY <3>8 DEF Covered
      <4> QED
        BY <3>1, <4>1, <4>2
    <3> QED
      BY <3>5, <3>6, <3>7, <3>8
  <2> QED
    <3>1. (Lone' <=> Lone) /\ \A s \in Samples : (Deleting(s)' <=> Deleting(s)) /\ (InView(s)' <=> InView(s))
      BY DEF Lone, Deleting, Hidden, InView
    <3>2. Profile \in rows => Lone
      BY DEF JournalInv, Faultless
    <3>3. Profile \in rows /\ phase # "down" => \A d \in Dirs : Hidden(d)' => place[d] \in worklist'
      BY <1>2 DEF JournalInv, Faultless, Hidden
    <3>4. stuck \/ phase = "refused" => Profile \notin rows
      BY DEF JournalInv, Faultless
    <3>5. \A s \in Samples : Deleting(s)' => /\ Profile \in rows /\ InView(s)' /\ place[s] \in intents'
                                             /\ phase # "down" => place[s] \in worklist'
      BY <2>1, <3>1
    <3>6. \A s \in Samples \ rows' : Accounted(s)' \/ (Profile \notin rows' /\ Covered(home[s])')
      BY <2>2
    <3> QED
      BY <3>1, <3>2, <3>3, <3>4, <3>5, <3>6 DEF Faultless
<1>11. OneFault'
  BY <1>1, <1>2, <1>3, <1>4, Distinct DEF JournalInv, OneFault, Lone, Hidden, Nested, Loose
<1> QED
  BY <1>5, <1>6, <1>7, <1>9, <1>10, <1>11

(* What is owned gets its public name back. *)
LEMMA Restored ==
  ASSUME JournalInv, NEW e \in Entries, Deleting(e), Owns(e), InView(e),
         e \in Dirs => PublicDirs = {}, place' = Moved(e, Public),
         UNCHANGED <<rows, home, intents, faults, phase, worklist, stuck>>
  PROVE  /\ NamesHold' /\ DirectoriesHold' /\ RowsHold' /\ AudioAccounted'
         /\ Faultless' /\ OneFault'
         /\ place' \in [Entries -> {Absent, Public} \cup Intents]
         /\ \A x \in Entries : place'[x] = IF x = e THEN Public ELSE place[x]
         /\ \A x \in Entries : InView(x) => InView(x)'
         /\ \A d \in PublicDirs' : d \in PublicDirs \cup {e}
         /\ e \in Dirs => PublicDirs' \subseteq {e}
<1>1. \A x \in Entries : place'[x] = IF x = e THEN Public ELSE place[x]
  BY MovedTo, Distinct
<1>2. /\ place[e] # Absent /\ place[e] # Public /\ place[e] \in Intents
      /\ e \in rows \/ e \in Dirs
      /\ Profile \in rows \/ e \in Audio
  BY Distinct DEF Deleting, Hidden, Owns, JournalInv, RowsHold, NoOrphanSample
<1>3. \A s \in Samples : home[s] \in Dirs /\ home[s] \in Entries /\ s \in Entries /\ s \notin Dirs /\ s \in Files
  BY Distinct DEF JournalInv, JournalTypes
<1>4. \A d \in Dirs : d \in Entries /\ (place'[d] = IF d = e THEN Public ELSE place[d])
  BY <1>1, Distinct
<1>5. \A d \in PublicDirs' : d \in PublicDirs \cup {e}
  BY <1>4 DEF PublicDirs
<1>6. \A x \in Entries : InView(x) => InView(x)'
  BY <1>3, <1>4 DEF InView
<1>7. place' \in [Entries -> {Absent, Public} \cup Intents]
  BY DEF JournalInv, JournalTypes, Moved
<1>8. \A x \in Entries : place'[x] = Absent <=> place[x] = Absent
  BY <1>1, <1>2, Distinct
<1>9. Lone' <=> Lone
  BY <1>4, <1>8 DEF Lone
<1>10. NamesHold'
  BY <1>1, Distinct DEF JournalInv, NamesHold, Hidden, Deleting
<1>11. DirectoriesHold'
  <2>1. \A c, d \in PublicDirs' : c = d
    BY <1>4, <1>5 DEF JournalInv, DirectoriesHold, PublicDirs
  <2>2. Profile \in rows =>
          \A i \in intents : /\ i.of \in Samples => place'[home[i.of]] # Absent
                             /\ i.of \in Dirs => place'[i.of] # Absent
    BY <1>3, <1>4, <1>8 DEF JournalInv, DirectoriesHold
  <2> QED
    BY <1>3, <1>8, <2>1, <2>2 DEF JournalInv, DirectoriesHold
<1>12. RowsHold'
  BY <1>1, <1>3, <1>8, <1>9, Distinct DEF JournalInv, RowsHold, NoOrphanSample
<1>13. \A f \in Files \ rows : Accounted(f) => Accounted(f)'
  BY <1>1, <1>2, Distinct DEF Accounted, Pending, Covered
<1>14. AudioAccounted'
  BY <1>13, Distinct DEF JournalInv, AudioAccounted
<1>15. Faultless'
  <2> SUFFICES ASSUME faults = 0 PROVE Faultless'
    BY DEF Faultless
  <2>1. \A s \in Samples : Deleting(s)' => Deleting(s) /\ place'[s] = place[s]
    BY <1>1, <1>3, Distinct DEF Deleting, Hidden
  <2>2. \A s \in Samples : Deleting(s)' => Profile \in rows /\ InView(s)' /\ place'[s] \in intents
    BY <1>3, <1>6, <2>1 DEF JournalInv, Faultless
  <2>3. phase # "down" => /\ \A s \in Samples : Deleting(s)' => place'[s] \in worklist
                          /\ Profile \in rows => \A d \in Dirs : Hidden(d)' => place'[d] \in worklist
    BY <1>4, <2>1, Distinct DEF JournalInv, Faultless, Hidden
  <2>4. \A s \in Samples \ rows : Accounted(s)' \/ (Profile \notin rows /\ Covered(home[s])')
    BY <1>3, <1>13 DEF JournalInv, Faultless, Covered
  <2> QED
    BY <1>9, <2>2, <2>3, <2>4 DEF JournalInv, Faultless
<1>16. OneFault'
  <2>1. \A s \in rows \cap Samples : Nested(s)' => Nested(s) /\ place'[home[s]] = place[home[s]]
    BY <1>1, <1>3 DEF Nested
  <2>2. \A s \in rows \cap Samples : Loose(s)' => Loose(s)
    BY <1>1, <1>3 DEF Loose
  <2>3. \A d \in Dirs : Hidden(d)' => Hidden(d) /\ place'[d] = place[d]
    BY <1>4, Distinct DEF Hidden
  <2> QED
    BY <1>9, <2>1, <2>2, <2>3 DEF JournalInv, OneFault
<1> QED
  BY <1>1, <1>5, <1>6, <1>7, <1>10, <1>11, <1>12, <1>14, <1>15, <1>16, <1>4 DEF PublicDirs

(* A fault leaves one entry as it is. *)
LEMMA LeftByFault ==
  ASSUME JournalInv, NEW i \in worklist, phase # "down",
         UNCHANGED <<rows, place, home, intents, phase>>,
         faults' = faults + 1, worklist' = worklist \ {i}
  PROVE  NamesHold' /\ DirectoriesHold' /\ RowsHold' /\ AudioAccounted' /\ Faultless' /\ OneFault'
<1>1. faults \in Nat
  BY BoundsAssumption DEF JournalInv, JournalTypes
<1>2. NamesHold' /\ DirectoriesHold' /\ RowsHold' /\ AudioAccounted'
  BY DurableKept DEF durableVars
<1>3. Faultless'
  BY <1>1 DEF Faultless
<1>4. ASSUME faults = 0, NEW s \in rows \cap Samples
      PROVE  /\ ~Nested(s) /\ Profile \in rows /\ s \in Entries
             /\ Loose(s)' => place[s] = i
  <2>1. ~Nested(s) /\ Profile \in rows /\ s \in Entries /\ s \in Files
    BY <1>1, <1>4, Distinct DEF JournalInv, OneFault, RowsHold, NoOrphanSample
  <2>2. place[s] = Public \/ Deleting(s)
    BY <2>1, OwnedFile
  <2>3. Deleting(s) => place[s] \in worklist
    BY <1>4 DEF JournalInv, Faultless
  <2> QED
    BY <2>1, <2>2, <2>3 DEF Loose
<1>5. ASSUME faults = 0, NEW s \in rows \cap Samples, Loose(s)'
      PROVE  Lone' /\ \A d \in Dirs : Hidden(d)' => place'[d] \in worklist'
  <2>1. place[s] = i /\ s \in Entries /\ s \notin Dirs /\ Profile \in rows
    BY <1>4, <1>5, Distinct
  <2>2. \A d \in Dirs : place[d] # i
    BY <2>1, Distinct DEF JournalInv, JournalTypes, NamesHold, Hidden
  <2> QED
    BY <1>5, <2>1, <2>2 DEF JournalInv, Faultless, Lone, Hidden
<1>6. OneFault'
  BY <1>1, <1>4, <1>5 DEF OneFault, Nested
<1> QED
  BY <1>2, <1>3, <1>6

(* After the commit: nothing that is discarded belongs to anybody.          *)
LEMMA DiscardKeeps == ASSUME JournalInv, NEW i \in worklist, Discard(i) PROVE JournalInv'
<1>1. /\ phase = "discard" /\ UNCHANGED <<rows, home, phase, stuck, todo, staging, doomed, pubStep, pubFile>>
      /\ \/ /\ AtStaged(i) /\ place' = Moved(i.of, Absent) /\ faults' = faults
            /\ UNCHANGED <<intents, worklist>>
         \/ /\ ~AtStaged(i) /\ intents' = intents \ {i} /\ worklist' = worklist \ {i}
            /\ UNCHANGED place /\ faults' = faults
         \/ /\ faults < MaxFaults /\ faults' = faults + 1 /\ worklist' = worklist \ {i}
            /\ UNCHANGED <<place, intents>>
  BY DEF Discard, NoFault, Fault, deleteVars, pubVars
<1>2. /\ i \in intents /\ i \in Intents /\ i.of \in Entries /\ i.kind = "delete" /\ i # Absent /\ i # Public
      /\ ~Owns(i.of) /\ place[i.of] \in {i, Absent} /\ InView(i.of)
      /\ pubStep \in {"none", "checked", "writing"}
      /\ staging = {}
  BY <1>1, IntentFacts, Distinct DEF JournalInv, JournalTypes, DeletionHolds, PhasesHold
<1>3. faults \in Nat /\ faults <= MaxFaults /\ MaxFaults \in Nat
  BY BoundsAssumption DEF JournalInv, JournalTypes
<1>4. StagingHolds'
  BY <1>1 DEF StagingHolds
<1>5. CASE AtStaged(i) /\ place' = Moved(i.of, Absent) /\ UNCHANGED <<intents, worklist, faults>>
  <2>1. /\ NamesHold' /\ DirectoriesHold' /\ RowsHold' /\ AudioAccounted' /\ Faultless' /\ OneFault'
        /\ place' \in [Entries -> {Absent, Public} \cup Intents]
        /\ \A x \in Entries : place'[x] \in {place[x], Absent}
        /\ i.of \notin Dirs => \A x \in Entries : InView(x) => InView(x)'
        /\ \A d \in PublicDirs' : d \in PublicDirs
    BY <1>1, <1>2, <1>5, Removed
  <2>2. JournalTypes'
    BY <1>1, <1>5, <2>1 DEF JournalInv, JournalTypes
  <2>3. PhasesHold'
    BY <1>1, <1>5 DEF JournalInv, PhasesHold
  <2>4. PublicationHolds'
    <3>1. pubStep # "none" => pubFile \in Entries
      BY Distinct DEF JournalInv, JournalTypes, PublicationHolds
    <3> QED
      BY <1>1, <1>2, <1>5, <2>1, <3>1 DEF JournalInv, PublicationHolds, OnlyIntent, PubIntent
  <2>5. \A j \in worklist : /\ j.of \in Entries /\ j.kind = "delete" /\ ~Owns(j.of)' /\ InView(j.of)'
                            /\ place'[j.of] \in {j, Absent}
                            /\ j.of \in Dirs => PublicDirs' \subseteq {j.of}
    <3> SUFFICES ASSUME NEW j \in worklist
                 PROVE  /\ j.of \in Entries /\ j.kind = "delete" /\ ~Owns(j.of)' /\ InView(j.of)'
                        /\ place'[j.of] \in {j, Absent}
                        /\ j.of \in Dirs => PublicDirs' \subseteq {j.of}
      OBVIOUS
    <3>1. j.of \in Entries /\ j.kind = "delete" /\ ~Owns(j.of) /\ InView(j.of) /\ place[j.of] \in {j, Absent}
      BY <1>1, <1>2, IntentFacts DEF JournalInv, JournalTypes, DeletionHolds
    <3>2. ~Owns(j.of)'
      BY <1>1, <3>1 DEF Owns
    <3>3. InView(j.of)'
      <4>1. i.of \in Dirs => j.of \notin Samples
        BY <1>1, <1>2 DEF JournalInv, DeletionHolds
      <4> QED
        BY <2>1, <3>1, <4>1 DEF InView
    <3>4. j.of \in Dirs => PublicDirs' \subseteq {j.of}
      BY <1>1, <1>2, <2>1 DEF JournalInv, DeletionHolds
    <3> QED
      BY <2>1, <3>1, <3>2, <3>3, <3>4
  <2>6. DeletionHolds'
    BY <1>1, <1>2, <1>5, <2>5 DEF JournalInv, DeletionHolds
  <2> QED
    BY <1>4, <2>1, <2>2, <2>3, <2>4, <2>6 DEF JournalInv
<1>6. CASE /\ ~AtStaged(i) /\ intents' = intents \ {i} /\ worklist' = worklist \ {i}
           /\ UNCHANGED <<place, faults>>
  <2>1. place[i.of] = Absent
    BY <1>2, <1>6 DEF AtStaged
  <2>2. \A x \in Entries : place[x] # i
    BY <1>2, <2>1 DEF JournalInv, NamesHold, Hidden
  <2>3. NamesHold' /\ DirectoriesHold' /\ RowsHold' /\ AudioAccounted' /\ Faultless' /\ OneFault'
    BY <1>1, <1>2, <1>6, <2>1, <2>2, Cleared, Distinct
  <2>4. JournalTypes'
    BY <1>1, <1>2, <1>6 DEF JournalInv, JournalTypes
  <2>5. PhasesHold'
    BY <1>1, <1>6 DEF JournalInv, PhasesHold
  <2>6. PublicationHolds'
    BY <1>1, <1>2, <1>6 DEF JournalInv, PublicationHolds, OnlyIntent, PubIntent
  <2>7. DeletionHolds'
    BY <1>1, <1>2, <1>6 DEF JournalInv, DeletionHolds, Owns, InView, PublicDirs
  <2> QED
    BY <1>4, <2>3, <2>4, <2>5, <2>6, <2>7 DEF JournalInv
<1>7. CASE /\ faults < MaxFaults /\ faults' = faults + 1 /\ worklist' = worklist \ {i}
           /\ UNCHANGED <<place, intents>>
  <2>1. NamesHold' /\ DirectoriesHold' /\ RowsHold' /\ AudioAccounted' /\ Faultless' /\ OneFault'
    BY <1>1, <1>7, LeftByFault
  <2>2. JournalTypes'
    BY <1>1, <1>2, <1>3, <1>7 DEF JournalInv, JournalTypes
  <2>3. PhasesHold'
    BY <1>1, <1>7 DEF JournalInv, PhasesHold
  <2>4. PublicationHolds'
    BY <1>1, <1>2, <1>7, PublicationKept DEF durableVars, pubVars
  <2>5. DeletionHolds'
    BY <1>1, <1>2, <1>7 DEF JournalInv, DeletionHolds, Owns, InView, PublicDirs
  <2> QED
    BY <1>4, <2>1, <2>2, <2>3, <2>4, <2>5 DEF JournalInv
<1> QED
  BY <1>1, <1>5, <1>6, <1>7

(* When a reconciliation cannot look the names up. *)
LEMMA CannotResolve ==
  ASSUME JournalInv, NEW i \in Intents, ~Resolvable(i)
  PROVE  \/ i.of \in Samples /\ PublicDirs = {}
         \/ i.of \in Dirs /\ \E d \in PublicDirs : d # i.of
BY DEF Resolvable, ParentThere, JournalInv, DirectoriesHold

(* What a reconciliation decides. *)
LEMMA OutcomeFacts ==
  ASSUME JournalInv, NEW i \in intents, Resolvable(i)
  PROVE  /\ Outcome(i) # place[i.of] =>
              \/ Outcome(i) = Absent /\ ~Owns(i.of)
              \/ /\ Outcome(i) = Public /\ Owns(i.of) /\ Deleting(i.of) /\ place[i.of] = i
                 /\ InView(i.of) /\ i.kind = "delete"
                 /\ i.of \in Dirs => PublicDirs = {}
         /\ Outcome(i) = place[i.of] =>
              /\ \A x \in Entries : place[x] = i => x \in Samples /\ ~InView(x) /\ PublicDirs # {}
              /\ i.of \in Files \ rows => ~(place[i.of] = Public /\ InView(i.of))
              /\ i.of \in Samples => PublicDirs # {}
              /\ i.of \in Dirs /\ place[i.of] = Public => Profile \in rows
<1>1. /\ i \in Intents /\ i.of \in Entries /\ i.kind \in {"publish", "delete"} /\ i # Absent /\ i # Public
      /\ Absent # Public
  BY IntentFacts, Distinct DEF JournalInv, JournalTypes
<1>2. \A x \in Entries : place[x] = i => x = i.of
  BY <1>1 DEF JournalInv, NamesHold, Hidden
<1>3. i.of \in Samples => PublicDirs # {}
  BY DEF Resolvable, ParentThere
<1>4. CASE AtOriginal(i)
  <2>1. place[i.of] = Public /\ InView(i.of)
    BY <1>4, Distinct DEF AtOriginal, Resolvable, PublicDirs, InView
  <2>2. ~AtStaged(i)
    BY <1>1, <2>1 DEF AtStaged
  <2>3. Outcome(i) = IF Owns(i.of) THEN Public ELSE Absent
    BY <1>4, <2>2 DEF Outcome
  <2>4. i.of \in Dirs /\ Owns(i.of) => Profile \in rows
    BY DEF Owns, JournalInv, RowsHold, NoOrphanSample
  <2>5. i.of \in Files \ rows => ~Owns(i.of)
    BY Distinct DEF Owns
  <2> QED
    BY <1>1, <1>2, <1>3, <2>1, <2>3, <2>4, <2>5
<1>5. CASE ~AtOriginal(i) /\ AtStaged(i)
  <2>1. place[i.of] = i /\ InView(i.of)
    BY <1>5 DEF AtStaged
  <2>2. Outcome(i) = IF i.kind = "delete" /\ Owns(i.of) THEN Public ELSE Absent
    BY <1>5 DEF Outcome
  <2>3. i.kind # "delete" => ~Owns(i.of)
    BY <1>1, <2>1, Distinct DEF JournalInv, NamesHold, Hidden, Deleting, Owns
  <2>4. i.of \in Dirs => PublicDirs = {}
    BY <1>1, <1>5 DEF AtOriginal
  <2> QED
    BY <1>1, <2>1, <2>2, <2>3, <2>4 DEF Deleting, Hidden
<1>6. CASE ~AtOriginal(i) /\ ~AtStaged(i)
  <2>1. Outcome(i) = place[i.of]
    BY <1>6 DEF Outcome
  <2>2. place[i.of] = i => i.of \in Samples /\ ~InView(i.of)
    BY <1>6, <1>1 DEF AtStaged, InView
  <2>3. i.of \in Files => ~(place[i.of] = Public /\ InView(i.of))
    BY <1>1, <1>6, Distinct DEF AtOriginal
  <2>4. i.of \in Dirs => place[i.of] # Public
    BY <1>6 DEF AtOriginal, PublicDirs
  <2> QED
    BY <1>2, <1>3, <2>1, <2>2, <2>3, <2>4
<1> QED
  BY <1>4, <1>5, <1>6

(* Undone or recovered: the phases in which an intent is reconciled. *)
Reconciling(i) ==
  \/ phase = "undo"
  \/ phase = "recover" /\ \A j \in worklist : Rank(i) <= Rank(j)

LEMMA ReconcileMoveKeeps ==
  ASSUME JournalInv, NEW i \in worklist, ReconcileMove(i), Reconciling(i),
         UNCHANGED <<phase, deleteVars, pubVars>>
  PROVE  JournalInv'
<1>1. /\ Resolvable(i) /\ Outcome(i) # place[i.of] /\ place' = Moved(i.of, Outcome(i))
      /\ UNCHANGED <<rows, home, intents, worklist, stuck, faults>>
      /\ UNCHANGED <<phase, todo, staging, doomed, pubStep, pubFile>>
      /\ phase \in {"undo", "recover"}
  BY DEF ReconcileMove, Reconciling, deleteVars, pubVars
<1>2. /\ i \in intents /\ i \in Intents /\ i.of \in Entries /\ i # Absent /\ i # Public
      /\ Absent # Public
  BY IntentFacts, Distinct DEF JournalInv, JournalTypes
<1>3. PhasesHold' /\ StagingHolds'
  BY <1>1 DEF JournalInv, PhasesHold, StagingHolds
<1>4. pubStep # "none" => pubFile \in Files /\ pubFile \in Entries
  BY Distinct DEF JournalInv, JournalTypes, PublicationHolds
<1>5. ASSUME phase = "undo", pubStep # "failed"
      PROVE  \A j \in worklist : j.kind = "delete" /\ InView(j.of) /\ j.of \in Entries
  BY <1>5, IntentFacts DEF JournalInv, JournalTypes, DeletionHolds
<1>6. CASE Outcome(i) = Absent /\ ~Owns(i.of)
  <2>1. /\ NamesHold' /\ DirectoriesHold' /\ RowsHold' /\ AudioAccounted' /\ Faultless' /\ OneFault'
        /\ place' \in [Entries -> {Absent, Public} \cup Intents]
        /\ \A x \in Entries : place'[x] \in {place[x], Absent}
        /\ i.of \notin Dirs => \A x \in Entries : InView(x) => InView(x)'
        /\ \A d \in PublicDirs' : d \in PublicDirs
    BY <1>1, <1>2, <1>6, Removed
  <2>2. JournalTypes'
    BY <1>1, <2>1 DEF JournalInv, JournalTypes
  <2>3. ASSUME pubStep = "failed", pubFile \in rows PROVE FALSE
    <3>1. i = PubIntent /\ i.of = pubFile
      BY <1>4, <2>3, PubIntentFacts DEF JournalInv, PublicationHolds
    <3> QED
      BY <1>4, <1>6, <2>3, <3>1, Distinct DEF Owns
  <2>4. PublicationHolds'
    BY <1>1, <1>3, <1>4, <2>1, <2>3 DEF JournalInv, PublicationHolds, PhasesHold, OnlyIntent, PubIntent
  <2>5. DeletionHolds'
    <3> SUFFICES ASSUME phase = "undo", pubStep # "failed" PROVE DeletionHolds'
      BY <1>1 DEF DeletionHolds
    <3>1. \A j \in worklist : InView(j.of)'
      <4> SUFFICES ASSUME NEW j \in worklist PROVE InView(j.of)'
        OBVIOUS
      <4>1. j.of \in Entries /\ InView(j.of) /\ (i.of \in Dirs => j.of \notin Samples)
        BY <1>5 DEF JournalInv, DeletionHolds
      <4> QED
        BY <2>1, <4>1 DEF InView
    <3> QED
      BY <1>1, <2>1, <3>1 DEF JournalInv, DeletionHolds
  <2> QED
    BY <1>3, <2>1, <2>2, <2>4, <2>5 DEF JournalInv
<1>7. CASE /\ Outcome(i) = Public /\ Owns(i.of) /\ Deleting(i.of) /\ place[i.of] = i
           /\ InView(i.of) /\ i.kind = "delete" /\ (i.of \in Dirs => PublicDirs = {})
  <2>1. /\ NamesHold' /\ DirectoriesHold' /\ RowsHold' /\ AudioAccounted' /\ Faultless' /\ OneFault'
        /\ place' \in [Entries -> {Absent, Public} \cup Intents]
        /\ \A x \in Entries : place'[x] = IF x = i.of THEN Public ELSE place[x]
        /\ \A x \in Entries : InView(x) => InView(x)'
        /\ \A d \in PublicDirs' : d \in PublicDirs \cup {i.of}
        /\ i.of \in Dirs => PublicDirs' \subseteq {i.of}
    BY <1>1, <1>2, <1>7, Restored
  <2>2. JournalTypes'
    BY <1>1, <2>1 DEF JournalInv, JournalTypes
  <2>3. pubStep # "failed"
    BY <1>4, <1>7, PubIntentFacts DEF JournalInv, PublicationHolds
  <2>4. pubStep # "none" => pubFile # i.of
    <3>1. pubStep # "none" => pubFile \notin rows
      BY <1>1, <2>3 DEF JournalInv, PublicationHolds, PhasesHold, JournalTypes
    <3>2. i.of \in rows \/ i.of \in Dirs
      BY <1>7 DEF Owns
    <3> QED
      BY <1>4, <3>1, <3>2, Distinct
  <2>5. PublicationHolds'
    BY <1>1, <1>3, <1>4, <2>1, <2>3, <2>4 DEF JournalInv, PublicationHolds, PhasesHold, OnlyIntent, PubIntent
  <2>6. DeletionHolds'
    <3> SUFFICES ASSUME phase = "undo", pubStep # "failed" PROVE DeletionHolds'
      BY <1>1 DEF DeletionHolds
    <3>1. \A j \in worklist : InView(j.of)'
      BY <1>5, <2>1
    <3>2. \A j \in worklist : j.of \in Dirs => PublicDirs' \subseteq {j.of}
      BY <2>1, <1>2, Distinct DEF JournalInv, DeletionHolds, PublicDirs
    <3> QED
      BY <1>1, <3>1, <3>2 DEF JournalInv, DeletionHolds
  <2> QED
    BY <1>3, <2>1, <2>2, <2>5, <2>6 DEF JournalInv
<1> QED
  BY <1>1, <1>2, <1>6, <1>7, OutcomeFacts

LEMMA ReconcileFinishKeeps ==
  ASSUME JournalInv, NEW i \in worklist, ReconcileFinish(i), Reconciling(i),
         UNCHANGED <<phase, deleteVars, pubVars>>
  PROVE  JournalInv'
<1>1. /\ Resolvable(i) /\ Outcome(i) = place[i.of]
      /\ intents' = intents \ {i} /\ worklist' = worklist \ {i}
      /\ UNCHANGED <<rows, place, home, stuck, faults>>
      /\ UNCHANGED <<phase, todo, staging, doomed, pubStep, pubFile>>
      /\ phase \in {"undo", "recover"}
  BY DEF ReconcileFinish, Reconciling, deleteVars, pubVars
<1>2. i \in intents
  BY DEF JournalInv, JournalTypes
<1>3. /\ \A x \in Entries : place[x] = i => x \in Samples /\ ~InView(x) /\ PublicDirs # {}
      /\ i.of \in Files \ rows => ~(place[i.of] = Public /\ InView(i.of))
      /\ i.of \in Samples => PublicDirs # {}
      /\ i.of \in Dirs /\ place[i.of] = Public => Profile \in rows
  BY <1>1, <1>2, OutcomeFacts
<1>4. NamesHold' /\ DirectoriesHold' /\ RowsHold' /\ AudioAccounted' /\ Faultless' /\ OneFault'
  BY <1>1, <1>2, <1>3, Cleared
<1>5. JournalTypes'
  BY <1>1, <1>2 DEF JournalInv, JournalTypes, PhasesHold
<1>6. PhasesHold' /\ StagingHolds'
  BY <1>1 DEF JournalInv, PhasesHold, StagingHolds
<1>7. PublicationHolds'
  <2>1. pubStep = "writing" => PubIntent \in intents'
    <3> SUFFICES ASSUME pubStep = "writing" PROVE PubIntent # i
      BY <1>1 DEF JournalInv, PublicationHolds
    <3>1. phase = "undo" /\ i.kind = "delete"
      BY <1>1 DEF JournalInv, PhasesHold, DeletionHolds
    <3> QED
      BY <3>1 DEF PubIntent
  <2> QED
    BY <1>1, <1>6, <2>1 DEF JournalInv, PublicationHolds, PhasesHold, OnlyIntent, PubIntent, InSight, InView
<1>8. DeletionHolds'
  BY <1>1 DEF JournalInv, DeletionHolds, InView, PublicDirs
<1> QED
  BY <1>4, <1>5, <1>6, <1>7, <1>8 DEF JournalInv

(* An intent that recovery cannot settle leaves nothing behind that an     *)
(* owned file needs, as long as there has been one fault at most.          *)
LEMMA LeftUnresolved ==
  ASSUME JournalInv, NEW i \in worklist, ~Resolvable(i), Reconciling(i),
         UNCHANGED <<rows, place, home, intents, phase, faults>>,
         worklist' = worklist \ {i}, stuck' = (phase = "recover" \/ stuck)
  PROVE  Faultless' /\ OneFault'
<1>1. /\ i \in intents /\ i \in Intents /\ i.of \in Entries
      /\ \A x \in Entries : place[x] = i => x = i.of
  BY IntentFacts DEF JournalInv, JournalTypes, NamesHold, Hidden
<1>2. \A s \in Samples : home[s] \in Dirs /\ home[s] \in Entries /\ s \in Entries /\ s \notin Dirs /\ s \in Files
  BY Distinct DEF JournalInv, JournalTypes
<1>3. \A d \in Dirs : d \in Entries
  BY Distinct
<1>4. \/ i.of \in Samples /\ PublicDirs = {}
      \/ i.of \in Dirs /\ \E d \in PublicDirs : d # i.of
  BY <1>1, CannotResolve
<1>5. CASE phase = "undo" /\ pubStep # "failed"
  <2>1. InView(i.of) /\ (i.of \in Dirs => PublicDirs \subseteq {i.of})
    BY <1>5 DEF JournalInv, DeletionHolds
  <2> QED
    BY <1>2, <1>4, <2>1 DEF InView, PublicDirs
<1>6. CASE phase = "undo" /\ pubStep = "failed"
  <2>1. i = PubIntent /\ i.kind = "publish" /\ worklist = {i}
    BY <1>6 DEF JournalInv, PublicationHolds, PubIntent
  <2>2. \A x \in Entries : Deleting(x) \/ (x \in Dirs /\ Hidden(x)) \/ x \in rows => place[x] # i
    BY <1>1, <2>1, Distinct DEF JournalInv, NamesHold, Hidden, Deleting
  <2>3. Faultless'
    <3>1. \A s \in Samples : Deleting(s)' <=> Deleting(s)
      BY DEF Deleting, Hidden
    <3>2. faults = 0 => /\ \A s \in Samples : Deleting(s) => place[s] \in worklist \ {i}
                        /\ Profile \in rows => \A d \in Dirs : Hidden(d) => place[d] \in worklist \ {i}
      BY <1>2, <1>3, <1>6, <2>2 DEF JournalInv, Faultless
    <3>3. stuck' = stuck
      BY <1>6 DEF JournalInv, JournalTypes
    <3> QED
      BY <3>1, <3>2, <3>3 DEF JournalInv, Faultless, Lone, Hidden, InView, Accounted, Pending, Covered
  <2>4. OneFault'
    <3>1. \A s \in rows \cap Samples : Loose(s)' => Loose(s)
      BY <1>2, <2>2 DEF Loose
    <3>2. \A d \in Dirs : Hidden(d) => place[d] # i
      BY <1>3, <2>2
    <3>3. \A s \in rows \cap Samples : place[home[s]] \in worklist => place[home[s]] # i
      BY <1>2, <3>2, <1>1 DEF JournalInv, JournalTypes, Hidden
    <3> QED
      BY <1>6, <3>1, <3>2, <3>3 DEF JournalInv, OneFault, Lone, Hidden, Nested
  <2> QED
    BY <2>3, <2>4
<1>7. CASE phase = "recover" /\ \A j \in worklist : Rank(i) <= Rank(j)
  <2>1. i.of \in Samples => \A j \in worklist : j.of \notin Dirs
    <3> SUFFICES ASSUME i.of \in Samples, NEW j \in worklist, j.of \in Dirs PROVE FALSE
      OBVIOUS
    <3>1. Rank(i) = 2 /\ Rank(j) = 0
      BY <1>2, Distinct DEF Rank
    <3> QED
      BY <1>7, <3>1
  <2>2. \A d \in Dirs : Hidden(d) => place[d] \in intents /\ place[d].of = d
    BY <1>3, HiddenDirectory DEF JournalInv, NamesHold
  <2>3. ASSUME Lone, i.of \in Dirs, place[i.of] # Absent PROVE FALSE
    BY <1>4, <1>2, <2>3, Distinct DEF Lone, PublicDirs
  <2>4. ASSUME faults = 0, Profile \in rows PROVE FALSE
    <3>1. Lone /\ \A d \in Dirs : Hidden(d) => place[d] \in worklist
      BY <1>7, <2>4 DEF JournalInv, Faultless
    <3>2. CASE i.of \in Samples
      <4>1. place[home[i.of]] # Absent /\ home[i.of] \notin PublicDirs /\ home[i.of] \in Dirs
        BY <1>1, <1>2, <1>4, <2>4, <3>2 DEF JournalInv, DirectoriesHold
      <4>2. Hidden(home[i.of])
        BY <1>2, <3>2, <4>1 DEF JournalInv, JournalTypes, Hidden, PublicDirs
      <4> QED
        BY <2>1, <2>2, <3>1, <3>2, <4>1, <4>2
    <3>3. CASE i.of \in Dirs
      BY <1>1, <2>3, <2>4, <3>1, <3>3 DEF JournalInv, DirectoriesHold
    <3> QED
      BY <1>4, <3>2, <3>3
  <2>5. Faultless'
    <3> SUFFICES ASSUME faults = 0, Profile \notin rows PROVE Faultless'
      BY <2>4 DEF Faultless
    <3>1. \A s \in Samples : ~Deleting(s)
      BY DEF JournalInv, Faultless
    <3>2. \A s \in Samples : ~Deleting(s)'
      BY <3>1 DEF Deleting, Hidden
    <3> QED
      BY <3>2 DEF JournalInv, Faultless, Accounted, Pending, Covered
  <2>6. ASSUME faults <= 1, NEW s \in rows \cap Samples, Nested(s)
        PROVE  faults = 1 /\ Lone /\ place[home[s]] \in worklist'
    <3>1. faults = 1 /\ Lone /\ place[home[s]] \in worklist
      BY <1>7, <2>6 DEF JournalInv, OneFault
    <3>2. place[home[s]] # i
      BY <1>1, <1>2, <2>3, <3>1, Distinct DEF JournalInv, JournalTypes
    <3> QED
      BY <3>1, <3>2
  <2>7. ASSUME faults <= 1, NEW s \in rows \cap Samples, Loose(s)' PROVE Loose(s)
    <3> SUFFICES ASSUME place[s] = i PROVE FALSE
      BY <2>7 DEF Loose
    <3>1. i.of = s /\ PublicDirs = {} /\ place[home[s]] # Absent
      BY <1>1, <1>2, <1>4, OwnedFile
    <3>2. Nested(s) /\ Hidden(home[s])
      BY <1>1, <1>2, <3>1, Distinct DEF Nested, PublicDirs, JournalInv, JournalTypes, Hidden
    <3>3. place[home[s]] \in worklist
      BY <1>7, <2>7, <3>2 DEF JournalInv, OneFault
    <3> QED
      BY <1>2, <2>1, <2>2, <3>1, <3>2, <3>3
  <2>8. ASSUME faults <= 1, NEW s \in rows \cap Samples, Loose(s)', NEW d \in Dirs, Hidden(d)
        PROVE  Lone /\ place[d] \in worklist'
    <3>1. Lone /\ place[d] \in worklist
      BY <1>7, <2>7, <2>8 DEF JournalInv, OneFault
    <3>2. place[d] # i
      BY <1>1, <1>3, <2>3, <2>8, <3>1, Distinct DEF Hidden
    <3> QED
      BY <3>1, <3>2
  <2>9. ASSUME faults <= 1, NEW s \in rows \cap Samples, Loose(s)' PROVE Lone
    BY <1>7, <2>7, <2>9 DEF JournalInv, OneFault
  <2>10. OneFault'
    BY <2>6, <2>8, <2>9 DEF OneFault, Lone, Nested, Hidden
  <2> QED
    BY <2>5, <2>10
<1> QED
  BY <1>5, <1>6, <1>7 DEF Reconciling

(* An intent is given up: the journal keeps it.                             *)
LEMMA ReconcileRaisesKeeps ==
  ASSUME JournalInv, NEW i \in worklist, ReconcileRaises(i), Reconciling(i),
         UNCHANGED <<phase, deleteVars, pubVars>>
  PROVE  JournalInv'
<1>1. /\ \/ ~Resolvable(i) /\ faults' = faults
         \/ faults < MaxFaults /\ faults' = faults + 1
      /\ worklist' = worklist \ {i} /\ stuck' = (phase = "recover" \/ stuck)
      /\ UNCHANGED <<rows, place, home, intents>>
      /\ UNCHANGED <<phase, todo, staging, doomed, pubStep, pubFile>>
      /\ phase \in {"undo", "recover"}
  BY DEF ReconcileRaises, Reconciling, NoFault, Fault, durableVars, deleteVars, pubVars
<1>2. faults \in Nat /\ faults <= MaxFaults /\ MaxFaults \in Nat
  BY BoundsAssumption DEF JournalInv, JournalTypes
<1>3. NamesHold' /\ DirectoriesHold' /\ RowsHold' /\ AudioAccounted'
  BY <1>1, DurableKept DEF durableVars
<1>4. Faultless' /\ OneFault'
  BY <1>1, LeftByFault, LeftUnresolved
<1>5. JournalTypes'
  BY <1>1, <1>2 DEF JournalInv, JournalTypes
<1>6. PhasesHold' /\ StagingHolds'
  BY <1>1 DEF JournalInv, PhasesHold, StagingHolds
<1>7. PublicationHolds'
  BY <1>1, <1>6 DEF JournalInv, PublicationHolds, PhasesHold, OnlyIntent, PubIntent, InSight, InView
<1>8. DeletionHolds'
  BY <1>1 DEF JournalInv, DeletionHolds, InView, PublicDirs
<1> QED
  BY <1>3, <1>4, <1>5, <1>6, <1>7, <1>8 DEF JournalInv

LEMMA ReconcileKeeps ==
  ASSUME JournalInv, NEW i \in worklist, Undo(i) \/ Recover(i)
  PROVE  JournalInv'
<1>1. Reconcile(i) /\ Reconciling(i) /\ UNCHANGED <<phase, deleteVars, pubVars>>
  BY DEF Undo, Recover, Reconciling
<1> QED
  BY <1>1, ReconcileMoveKeeps, ReconcileFinishKeeps, ReconcileRaisesKeeps DEF Reconcile

-----------------------------------------------------------------------------
(* Publications. *)

LEMMA CreateProfileKeeps == ASSUME JournalInv, CreateProfile PROVE JournalInv'
<1>1. /\ phase = "idle" /\ pubStep = "none" /\ Profile \notin rows
      /\ \A e \in Dirs \cup Samples : place[e] = Absent /\ \A i \in intents : i.of # e
      /\ rows' = rows \cup {Profile}
      /\ UNCHANGED <<home, intents, phase, worklist, deleteVars, stuck, pubVars, faults>>
  BY DEF CreateProfile, LoopFree, Unused
<1>2. PICK D \in SUBSET Dirs : /\ \A d, e \in D : d = e
                               /\ place' = [x \in Entries |-> IF x \in D THEN Public ELSE place[x]]
  <2>1. CASE UNCHANGED place
    <3>1. place' = [x \in Entries |-> IF x \in {} THEN Public ELSE place[x]]
      BY <2>1 DEF JournalInv, JournalTypes
    <3> WITNESS {} \in SUBSET Dirs
    <3> QED
      BY <3>1
  <2>2. CASE \E d \in Dirs : place' = Moved(d, Public)
    <3>1. PICK d \in Dirs : place' = Moved(d, Public)
      BY <2>2
    <3>2. place' = [x \in Entries |-> IF x \in {d} THEN Public ELSE place[x]]
      BY <3>1, Distinct DEF Moved
    <3> WITNESS {d} \in SUBSET Dirs
    <3> QED
      BY <3>2
  <2> QED
    BY <2>1, <2>2 DEF CreateProfile
<1>3. \A s \in Samples : home[s] \in Dirs /\ home[s] \in Entries /\ s \in Entries /\ s \notin Dirs /\ s \in Files
  BY Distinct DEF JournalInv, JournalTypes
<1>4. /\ \A x \in Entries : place'[x] = IF x \in D THEN Public ELSE place[x]
      /\ \A f \in Files : f \in Entries /\ place'[f] = place[f]
      /\ \A d \in Dirs : place'[d] \in {Absent, Public} /\ (place'[d] = Public <=> d \in D)
  BY <1>1, <1>2, Distinct
<1>5. JournalTypes'
  <2>1. place' \in [Entries -> {Absent, Public} \cup Intents]
    BY <1>2 DEF JournalInv, JournalTypes
  <2>2. rows' \in SUBSET (Files \cup {Profile})
    BY <1>1 DEF JournalInv, JournalTypes
  <2> QED
    BY <1>1, <2>1, <2>2 DEF JournalInv, JournalTypes, PhasesHold, deleteVars, pubVars
<1>6. NamesHold'
  BY <1>1, <1>4, Distinct DEF JournalInv, NamesHold, Hidden, Deleting
<1>7. DirectoriesHold'
  BY <1>1, <1>2, <1>3, <1>4 DEF JournalInv, DirectoriesHold, PublicDirs
<1>8. rows \cap Samples = {}
  BY <1>1 DEF JournalInv, RowsHold, NoOrphanSample
<1>9. RowsHold'
  BY <1>1, <1>4, <1>8, Distinct DEF JournalInv, RowsHold, NoOrphanSample
<1>10. PhasesHold' /\ PublicationHolds' /\ DeletionHolds' /\ StagingHolds'
  BY <1>1 DEF JournalInv, PhasesHold, PublicationHolds, DeletionHolds, StagingHolds, deleteVars, pubVars
<1>11. AudioAccounted'
  BY <1>1, <1>4, Distinct DEF JournalInv, AudioAccounted, Accounted, Pending, Covered
<1>12. Faultless'
  <2>1. Lone' /\ \A d \in Dirs : ~Hidden(d)'
    BY <1>2, <1>4, Distinct DEF Lone, Hidden
  <2>2. \A s \in Samples : ~Deleting(s)' /\ Accounted(s)'
    BY <1>1, <1>3, <1>4, Distinct DEF Deleting, Hidden, Accounted
  <2> QED
    BY <1>1, <2>1, <2>2 DEF JournalInv, PhasesHold, Faultless
<1>13. OneFault'
  BY <1>1, <1>8, Distinct DEF OneFault
<1> QED
  BY <1>5, <1>6, <1>7, <1>9, <1>10, <1>11, <1>12, <1>13 DEF JournalInv

(* The pending file, and the sample's directory if there is none.           *)
LEMMA PubCreateKeeps == ASSUME JournalInv, PubCreate PROVE JournalInv'
<1>1. /\ phase = "idle" /\ pubStep = "checked" /\ pubStep' = "created"
      /\ UNCHANGED <<rows, intents, phase, worklist, deleteVars, stuck, pubFile, faults>>
  BY DEF PubCreate, LoopFree
<1>2. /\ pubFile \in Files /\ pubFile \in Entries /\ pubFile \notin rows /\ place[pubFile] = Absent
      /\ pubFile \notin Dirs
      /\ \A i \in intents : i.of # pubFile
      /\ PubIntent \in Intents /\ PubIntent.of = pubFile /\ PubIntent.kind = "publish"
      /\ worklist = {} /\ todo = {} /\ staging = {} /\ doomed = {} /\ ~stuck
  BY <1>1, PubIntentFacts, Distinct DEF JournalInv, JournalTypes, PublicationHolds, PhasesHold
<1>3. \A s \in Samples : home[s] \in Dirs /\ home[s] \in Entries /\ s \in Entries /\ s \notin Dirs /\ s \in Files
  BY Distinct DEF JournalInv, JournalTypes
<1>4. PICK D \in SUBSET Dirs :
        /\ \A x \in Entries : place'[x] = IF x = pubFile THEN PubIntent
                                          ELSE IF x \in D THEN Public ELSE place[x]
        /\ place' \in [Entries -> {Absent, Public} \cup Intents]
        /\ home' \in [Samples -> Dirs]
        /\ \A s \in Samples : home'[s] = home[s] \/ (s = pubFile /\ home'[s] \in D)
        /\ \A d \in D : PublicDirs \cup {d} = {d} /\ (place[d] = Public \/ (place[d] = Absent /\ PublicDirs = {}))
        /\ pubFile \in Samples => home'[pubFile] \in D
        /\ \A c, d \in D : c = d
  <2>1. CASE pubFile \in Audio
    <3>1. place' = [place EXCEPT ![pubFile] = PubIntent] /\ home' = home
      BY <2>1 DEF PubCreate
    <3>2. \A x \in Entries : place'[x] = IF x = pubFile THEN PubIntent
                                         ELSE IF x \in {} THEN Public ELSE place[x]
      BY <1>2, <3>1 DEF JournalInv, JournalTypes
    <3>3. place' \in [Entries -> {Absent, Public} \cup Intents] /\ home' \in [Samples -> Dirs]
      BY <1>2, <3>1 DEF JournalInv, JournalTypes
    <3>4. pubFile \notin Samples
      BY <2>1, Distinct
    <3> WITNESS {} \in SUBSET Dirs
    <3> QED
      BY <3>1, <3>2, <3>3, <3>4
  <2>2. CASE pubFile \in Samples
    <3>1. PICK d \in Dirs : /\ IF PublicDirs = {} THEN Unused(d) ELSE d \in PublicDirs
                            /\ place' = [place EXCEPT ![d] = Public, ![pubFile] = PubIntent]
                            /\ home' = [home EXCEPT ![pubFile] = d]
      BY <2>2, Distinct DEF PubCreate
    <3>2. d \in Entries /\ d # pubFile
      BY <1>2, Distinct
    <3>3. \A x \in Entries : place'[x] = IF x = pubFile THEN PubIntent
                                         ELSE IF x \in {d} THEN Public ELSE place[x]
      BY <1>2, <3>1, <3>2 DEF JournalInv, JournalTypes
    <3>4. place' \in [Entries -> {Absent, Public} \cup Intents]
      BY <1>2, <3>1, <3>2 DEF JournalInv, JournalTypes
    <3>5. /\ home' \in [Samples -> Dirs] /\ home'[pubFile] = d
          /\ \A s \in Samples : home'[s] = home[s] \/ s = pubFile
      BY <2>2, <3>1 DEF JournalInv, JournalTypes
    <3>6. PublicDirs \cup {d} = {d} /\ (place[d] = Public \/ (place[d] = Absent /\ PublicDirs = {}))
      BY <3>1 DEF JournalInv, DirectoriesHold, PublicDirs, Unused
    <3> QED
      BY <3>3, <3>4, <3>5, <3>6
  <2> QED
    BY <1>2, <2>1, <2>2 DEF Files
<1>5. /\ \A f \in Files : f \in Entries /\ (f # pubFile => place'[f] = place[f])
      /\ \A d \in Dirs : d \in Entries /\ (place'[d] = IF d \in D THEN Public ELSE place[d])
      /\ place'[pubFile] = PubIntent
  BY <1>2, <1>4, Distinct
<1>6. JournalTypes'
  BY <1>1, <1>2, <1>4 DEF JournalInv, JournalTypes, deleteVars
<1>7. NamesHold'
  BY <1>1, <1>2, <1>4, Distinct DEF JournalInv, NamesHold, Hidden, Deleting
<1>8. \A d \in PublicDirs' : d \in D \/ d \in PublicDirs
  BY <1>5 DEF PublicDirs
<1>9. \A d \in Dirs : place'[d] = Absent => place[d] = Absent /\ d \notin D
  BY <1>5, Distinct
<1>10. DirectoriesHold'
  <2>1. \A c, d \in PublicDirs' : c = d
    BY <1>4, <1>8 DEF JournalInv, DirectoriesHold
  <2>2. \A s \in Samples : place'[home'[s]] = Absent => place'[s] = Absent
    BY <1>3, <1>4, <1>5, <1>9 DEF JournalInv, DirectoriesHold, JournalTypes
  <2>3. Profile \in rows =>
          \A i \in intents : /\ i.of \in Samples => place'[home'[i.of]] # Absent
                             /\ i.of \in Dirs => place'[i.of] # Absent
    BY <1>2, <1>3, <1>4, <1>9 DEF JournalInv, DirectoriesHold
  <2> QED
    BY <1>1, <2>1, <2>2, <2>3 DEF DirectoriesHold
<1>11. \A s \in rows \cap Samples :
         /\ s \in Entries /\ s \in Files /\ s # pubFile /\ place'[s] = place[s] /\ home'[s] = home[s]
         /\ place[home[s]] # Absent
  BY <1>2, <1>3, <1>4, <1>5, OwnedFile
<1>12. ASSUME NEW s \in rows \cap Samples, Lone, Hidden(home[s]) => place[home[s]] \in worklist
       PROVE  Lone'
  <2>1. home[s] \in PublicDirs
    BY <1>2, <1>3, <1>11, <1>12 DEF JournalInv, JournalTypes, Hidden, PublicDirs
  <2>2. \A d \in D : place[d] # Absent
    BY <1>4, <2>1, Distinct
  <2> QED
    BY <1>5, <1>12, <2>2 DEF Lone
<1>13. RowsHold'
  <2>1. \A f \in rows \cap Files : place'[f] = place[f]
    BY <1>2, <1>5
  <2>2. ~Lone => ~Lone'
    BY <1>9, <1>5 DEF Lone
  <2> QED
    BY <1>1, <2>1, <2>2, Distinct DEF JournalInv, RowsHold, NoOrphanSample
<1>14. PhasesHold' /\ DeletionHolds' /\ StagingHolds'
  BY <1>1 DEF JournalInv, PhasesHold, DeletionHolds, StagingHolds, deleteVars
<1>15. InView(pubFile)'
  BY <1>1, <1>2, <1>4, <1>5 DEF InView
<1>16. PublicationHolds'
  BY <1>1, <1>2, <1>5, <1>15 DEF JournalInv, PublicationHolds, PubIntent
<1>17. \A f \in Files : (f = pubFile => Accounted(f)') /\ (Accounted(f) => Accounted(f)')
  BY <1>1, <1>2, <1>5 DEF Accounted, Pending, Covered
<1>18. AudioAccounted'
  BY <1>1, <1>17, Distinct DEF JournalInv, AudioAccounted
<1>19. Faultless'
  <2> SUFFICES ASSUME faults = 0 PROVE Faultless'
    BY <1>1 DEF Faultless
  <2>1. \A s \in Samples : ~Deleting(s)
    BY <1>1, <1>2, <2>1 DEF JournalInv, Faultless
  <2>2. \A s \in Samples : ~Deleting(s)'
    BY <1>2, <1>3, <1>5, <2>1 DEF Deleting, Hidden
  <2>3. Profile \in rows => \A d \in Dirs : ~Hidden(d) /\ ~Hidden(d)'
    BY <1>1, <1>2, <1>5, Distinct DEF JournalInv, Faultless, Hidden
  <2>4. Profile \in rows => Lone'
    <3> SUFFICES ASSUME Profile \in rows PROVE Lone'
      OBVIOUS
    <3>1. \A d \in Dirs : place[d] \in {Absent, Public} /\ d \in Entries
      BY <2>3, <1>5 DEF JournalInv, JournalTypes, Hidden
    <3>2. \A c, d \in Dirs : place[c] = Public /\ place[d] = Public => c = d
      BY DEF JournalInv, DirectoriesHold, PublicDirs
    <3>3. \A d \in D, c \in Dirs : place[c] = Public => c = d
      BY <1>4 DEF PublicDirs
    <3> QED
      BY <1>4, <1>5, <3>1, <3>2, <3>3 DEF Lone
  <2>5. \A s \in Samples \ rows : Accounted(s)' \/ (Profile \notin rows /\ Covered(home[s])')
    <3> SUFFICES ASSUME NEW s \in Samples \ rows, s # pubFile
                 PROVE  Accounted(s)' \/ (Profile \notin rows /\ Covered(home[s])')
      BY <1>3, <1>17
    <3>1. home'[s] = home[s]
      BY <1>4
    <3>2. Covered(home[s]) => Covered(home[s])'
      BY <1>1, <3>1 DEF Covered
    <3> QED
      BY <1>3, <1>17, <3>2 DEF JournalInv, Faultless
  <2> QED
    BY <1>1, <1>2, <2>2, <2>3, <2>4, <2>5 DEF JournalInv, Faultless
<1>20. OneFault'
  <2> SUFFICES ASSUME faults <= 1 PROVE OneFault'
    BY <1>1 DEF OneFault
  <2>1. \A s \in rows \cap Samples : ~Nested(s)
    BY <1>1, <1>2 DEF JournalInv, OneFault
  <2>2. \A s \in rows \cap Samples : ~Nested(s)'
    BY <1>3, <1>5, <1>11, <2>1 DEF Nested
  <2>3. ASSUME NEW s \in rows \cap Samples, Loose(s)'
        PROVE  Lone' /\ \A d \in Dirs : Hidden(d)' => place'[d] \in worklist'
    <3>1. Loose(s)
      BY <1>1, <1>11, <2>3 DEF Loose
    <3>2. Lone /\ \A d \in Dirs : Hidden(d) => place[d] \in worklist
      BY <1>1, <3>1 DEF JournalInv, OneFault
    <3> QED
      BY <1>1, <1>3, <1>5, <1>12, <3>2, Distinct DEF Hidden
  <2> QED
    BY <1>1, <2>2, <2>3 DEF OneFault
<1> QED
  BY <1>6, <1>7, <1>10, <1>13, <1>14, <1>16, <1>18, <1>19, <1>20 DEF JournalInv

(* Nothing is hidden while the server waits, before the first fault. *)
LEMMA IdleFault ==
  ASSUME JournalInv, phase = "idle", phase' # "down", UNCHANGED <<rows, place, home, intents>>,
         faults' = faults + 1
  PROVE  NamesHold' /\ DirectoriesHold' /\ RowsHold' /\ AudioAccounted' /\ Faultless' /\ OneFault'
<1>1. faults \in Nat /\ worklist = {}
  BY BoundsAssumption DEF JournalInv, JournalTypes, PhasesHold
<1>2. NamesHold' /\ DirectoriesHold' /\ RowsHold' /\ AudioAccounted'
  BY DurableKept DEF durableVars
<1>3. Faultless'
  BY <1>1 DEF Faultless
<1>4. ASSUME faults = 0, NEW s \in rows \cap Samples PROVE place[s] = Public
  BY <1>1, <1>4, OwnedFile, Distinct DEF JournalInv, Faultless
<1>5. OneFault'
  BY <1>1, <1>4 DEF OneFault, Nested, Loose
<1> QED
  BY <1>2, <1>3, <1>5

(* From the intent to the commit.                                           *)
LEMMA PubJournalKeeps == ASSUME JournalInv, PubJournal PROVE JournalInv'
<1>1. /\ phase = "idle" /\ pubStep = "created" /\ pubStep' = "writing"
      /\ intents' = intents \cup {PubIntent}
      /\ UNCHANGED <<rows, place, home, phase, worklist, deleteVars, stuck, pubFile, faults>>
  BY DEF PubJournal
<1>2. /\ pubFile \in Files /\ pubFile \notin Dirs /\ pubFile \notin rows
      /\ place[pubFile] = PubIntent /\ InView(pubFile)
      /\ \A i \in intents : i.of # pubFile
      /\ PubIntent \in Intents /\ PubIntent.of = pubFile
      /\ worklist = {} /\ ~stuck
  BY <1>1, PubIntentFacts, Distinct DEF JournalInv, JournalTypes, PublicationHolds, PhasesHold
<1>3. PubIntent.of \in Samples => place[home[PubIntent.of]] # Absent
  BY <1>2, Distinct DEF InView
<1>4. JournalTypes'
  BY <1>1, <1>2 DEF JournalInv, JournalTypes, PhasesHold, deleteVars
<1>5. /\ NamesHold' /\ DirectoriesHold' /\ RowsHold' /\ AudioAccounted'
      /\ \A f \in Files : Accounted(f) => Accounted(f)'
      /\ \A x \in Entries : Covered(x) => Covered(x)'
  BY <1>1, <1>2, <1>3, IntentRecorded
<1>6. Faultless' /\ OneFault'
  BY <1>1, <1>2, <1>5, RecordedSettled
<1>7. PhasesHold' /\ DeletionHolds' /\ StagingHolds'
  BY <1>1 DEF JournalInv, PhasesHold, DeletionHolds, StagingHolds, deleteVars
<1>8. PublicationHolds'
  BY <1>1, <1>2 DEF JournalInv, PublicationHolds, OnlyIntent, PubIntent
<1> QED
  BY <1>4, <1>5, <1>6, <1>7, <1>8 DEF JournalInv

LEMMA PubRenameKeeps == ASSUME JournalInv, PubRename PROVE JournalInv'
<1>1. /\ phase = "idle" /\ pubStep = "writing" /\ pubStep' = "published"
      /\ AtStaged(PubIntent) /\ Profile \in rows
      /\ place' = Moved(pubFile, Public)
      /\ UNCHANGED <<rows, home, intents, phase, worklist, deleteVars, stuck, pubFile, faults>>
  BY DEF PubRename, LoopFree
<1>2. /\ pubFile \in Files /\ pubFile \in Entries /\ pubFile \notin Dirs /\ pubFile \notin rows
      /\ PubIntent \in intents /\ PubIntent \in Intents /\ PubIntent.of = pubFile /\ PubIntent.kind = "publish"
      /\ place[pubFile] = PubIntent /\ InView(pubFile)
      /\ PubIntent # Absent /\ PubIntent # Public
      /\ worklist = {}
  BY <1>1, PubIntentFacts, Distinct DEF JournalInv, JournalTypes, PublicationHolds, PhasesHold, AtStaged
<1>3. \A x \in Entries : place'[x] = IF x = pubFile THEN Public ELSE place[x]
  BY <1>1, <1>2, MovedTo, Distinct
<1>4. \A s \in Samples : home[s] \in Dirs /\ home[s] \in Entries /\ s \in Entries /\ s \notin Dirs /\ s \in Files
  BY Distinct DEF JournalInv, JournalTypes
<1>5. \A d \in Dirs : d \in Entries /\ place'[d] = place[d]
  BY <1>2, <1>3, Distinct
<1>6. JournalTypes'
  <2>1. place' \in [Entries -> {Absent, Public} \cup Intents]
    BY <1>1 DEF JournalInv, JournalTypes, Moved
  <2> QED
    BY <1>1, <2>1 DEF JournalInv, JournalTypes, deleteVars
<1>7. NamesHold'
  BY <1>1, <1>3, Distinct DEF JournalInv, NamesHold, Hidden, Deleting
<1>8. InView(pubFile)'
  BY <1>1, <1>2, <1>4, <1>5 DEF InView
<1>9. DirectoriesHold'
  <2>1. \A s \in Samples : place'[home[s]] = Absent => place'[s] = Absent
    BY <1>2, <1>3, <1>4, <1>5, Distinct DEF JournalInv, DirectoriesHold, InView
  <2> QED
    BY <1>1, <1>4, <1>5, <2>1 DEF JournalInv, DirectoriesHold, PublicDirs
<1>10. Lone' <=> Lone
  BY <1>5 DEF Lone
<1>11. \A f \in rows \cap Files : place'[f] = place[f]
  BY <1>2, <1>3, Distinct
<1>12. RowsHold'
  BY <1>1, <1>10, <1>11, Distinct DEF JournalInv, RowsHold, NoOrphanSample
<1>13. PhasesHold' /\ DeletionHolds' /\ StagingHolds'
  BY <1>1 DEF JournalInv, PhasesHold, DeletionHolds, StagingHolds, deleteVars
<1>14. PublicationHolds'
  BY <1>1, <1>2, <1>3, <1>8 DEF JournalInv, PublicationHolds, InSight, OnlyIntent, PubIntent
<1>15. \A f \in Files : Accounted(f) => Accounted(f)'
  BY <1>1, <1>2, <1>3, Distinct DEF Accounted, Pending, Covered
<1>16. AudioAccounted'
  BY <1>1, <1>15, Distinct DEF JournalInv, AudioAccounted
<1>17. \A s \in Samples : Deleting(s)' => Deleting(s) /\ place'[s] = place[s]
  BY <1>3, <1>4, Distinct DEF Deleting, Hidden
<1>18. Faultless'
  <2> SUFFICES ASSUME faults = 0 PROVE Faultless'
    BY <1>1 DEF Faultless
  <2>1. \A s \in Samples : ~Deleting(s)'
    BY <1>1, <1>2, <1>17 DEF JournalInv, Faultless
  <2>2. \A d \in Dirs : ~Hidden(d)'
    BY <1>1, <1>2, <1>5 DEF JournalInv, Faultless, Hidden
  <2>3. \A s \in Samples \ rows : Accounted(s)'
    BY <1>1, <1>4, <1>15 DEF JournalInv, Faultless
  <2> QED
    BY <1>1, <1>10, <2>1, <2>2, <2>3 DEF JournalInv, Faultless
<1>19. OneFault'
  <2>1. \A s \in rows \cap Samples : (Nested(s)' <=> Nested(s)) /\ (Loose(s)' <=> Loose(s))
    BY <1>1, <1>4, <1>5, <1>11 DEF Nested, Loose
  <2> QED
    BY <1>1, <1>4, <1>5, <1>10, <2>1 DEF JournalInv, OneFault, Hidden, JournalTypes
<1> QED
  BY <1>6, <1>7, <1>9, <1>12, <1>13, <1>14, <1>16, <1>18, <1>19 DEF JournalInv

LEMMA PubCommitKeeps == ASSUME JournalInv, PubCommit PROVE JournalInv'
<1>1. /\ phase = "idle" /\ pubStep = "published" /\ pubStep' = "committed"
      /\ rows' = rows \cup {pubFile}
      /\ UNCHANGED <<place, home, intents, phase, worklist, deleteVars, stuck, pubFile, faults>>
  BY DEF PubCommit
<1>2. /\ pubFile \in Files /\ pubFile # Profile /\ place[pubFile] = Public /\ InView(pubFile)
      /\ Profile \in rows /\ Public \notin Intents /\ Absent # Public
      /\ doomed = {} /\ PubIntent \in intents
  BY <1>1, Distinct DEF JournalInv, JournalTypes, PublicationHolds, PhasesHold, InSight
<1>3. JournalTypes'
  BY <1>1, <1>2 DEF JournalInv, JournalTypes, deleteVars
<1>4. NamesHold' /\ DirectoriesHold'
  BY <1>1, <1>2 DEF JournalInv, NamesHold, DirectoriesHold, Hidden, Deleting, PublicDirs
<1>5. RowsHold'
  BY <1>1, <1>2 DEF JournalInv, RowsHold, NoOrphanSample, Lone
<1>6. AudioAccounted'
  BY <1>1 DEF JournalInv, AudioAccounted, Accounted, Pending, Covered
<1>7. PhasesHold' /\ DeletionHolds' /\ StagingHolds'
  BY <1>1 DEF JournalInv, PhasesHold, DeletionHolds, StagingHolds, deleteVars
<1>8. PublicationHolds'
  BY <1>1, <1>2 DEF JournalInv, PublicationHolds, InSight, InView, OnlyIntent, PubIntent
<1>9. Faultless'
  BY <1>1, <1>2 DEF JournalInv, Faultless, Lone, Deleting, Hidden, InView, Accounted, Pending, Covered
<1>10. OneFault'
  BY <1>1, <1>2 DEF JournalInv, OneFault, Lone, Hidden, Nested, Loose
<1> QED
  BY <1>3, <1>4, <1>5, <1>6, <1>7, <1>8, <1>9, <1>10 DEF JournalInv

(* The intent of a publication is cleared. *)
LEMMA PubCleared ==
  ASSUME JournalInv, phase = "idle", pubStep \in {"writing", "committed"},
         intents' = intents \ {PubIntent},
         UNCHANGED <<rows, place, home, faults, phase, stuck, worklist>>,
         pubFile \in rows \/ (pubFile \in Samples /\ PublicDirs = {} /\ Profile \notin rows)
  PROVE  NamesHold' /\ DirectoriesHold' /\ RowsHold' /\ AudioAccounted' /\ Faultless' /\ OneFault'
<1>1. /\ pubFile \in Files /\ pubFile \notin Dirs /\ PubIntent \in intents /\ PubIntent \in Intents
      /\ PubIntent.of = pubFile /\ PubIntent.kind = "publish" /\ worklist = {}
  BY PubIntentFacts, Distinct DEF JournalInv, JournalTypes, PublicationHolds, PhasesHold
<1>2. PICK i \in intents : i = PubIntent
  BY <1>1
<1> HIDE DEF PubIntent
<1>3. \A x \in Entries : place[x] = i => x = pubFile /\ x \notin rows
  BY <1>1, <1>2, Distinct DEF JournalInv, NamesHold, Hidden, Deleting
<1>4. pubFile \in Samples /\ PublicDirs = {} => ~InView(pubFile)
  BY DEF InView, PublicDirs, JournalInv, JournalTypes
<1>5. CASE pubFile \in rows
  <2>1. \A x \in Entries : place[x] # i
    BY <1>3, <1>5
  <2> QED
    BY <1>1, <1>2, <1>5, <2>1, Cleared
<1>6. CASE pubFile \notin rows
  <2>1. \A x \in Entries : place[x] = i => x \in Samples /\ ~InView(x) /\ x \notin rows
    BY <1>3, <1>4, <1>6
  <2> QED
    BY <1>1, <1>2, <1>4, <1>6, <2>1, Cleared
<1> QED
  BY <1>5, <1>6

(* A publication ends, or fails before its intent is recorded, or after.    *)
LEMMA PubFinishKeeps == ASSUME JournalInv, PubFinish PROVE JournalInv'
<1>1. /\ phase = "idle" /\ pubStep = "committed" /\ pubStep' = "none" /\ pubFile' = Absent
      /\ \/ intents' = intents \ {PubIntent} /\ faults' = faults
         \/ intents' = intents /\ faults < MaxFaults /\ faults' = faults + 1
      /\ UNCHANGED <<rows, place, home, phase, worklist, deleteVars, stuck>>
  BY DEF PubFinish, NoFault, Fault
<1>2. pubFile \in rows /\ worklist = {} /\ staging = {} /\ ~stuck
  BY <1>1 DEF JournalInv, PublicationHolds, PhasesHold
<1>3. faults \in Nat /\ MaxFaults \in Nat
  BY BoundsAssumption DEF JournalInv, JournalTypes
<1>4. JournalTypes'
  <2>1. faults' \in 0..MaxFaults
    BY <1>1, <1>3 DEF JournalInv, JournalTypes
  <2> QED
    BY <1>1, <1>2, <2>1 DEF JournalInv, JournalTypes, deleteVars
<1>5. PhasesHold' /\ DeletionHolds' /\ StagingHolds'
  BY <1>1, <1>2 DEF JournalInv, PhasesHold, DeletionHolds, StagingHolds, deleteVars
<1>6. PublicationHolds'
  BY <1>1 DEF PublicationHolds
<1>7. NamesHold' /\ DirectoriesHold' /\ RowsHold' /\ AudioAccounted' /\ Faultless' /\ OneFault'
  <2>1. CASE intents' = intents \ {PubIntent} /\ faults' = faults
    BY <1>1, <1>2, <2>1, PubCleared
  <2>2. CASE intents' = intents /\ faults' = faults + 1
    BY <1>1, <2>2, IdleFault
  <2> QED
    BY <1>1, <2>1, <2>2
<1> QED
  BY <1>4, <1>5, <1>6, <1>7 DEF JournalInv

LEMMA PubFailEarlyKeeps == ASSUME JournalInv, PubFailEarly PROVE JournalInv'
<1>1. /\ phase = "idle" /\ pubStep \in {"checked", "created"} /\ pubStep' = "none" /\ pubFile' = Absent
      /\ \/ UNCHANGED place /\ faults' = faults
         \/ pubStep = "created" /\ place' = Moved(pubFile, Absent) /\ faults' = faults
         \/ UNCHANGED place /\ faults < MaxFaults /\ faults' = faults + 1
      /\ UNCHANGED <<rows, home, intents, phase, worklist, deleteVars, stuck>>
  BY DEF PubFailEarly, NoFault, Fault
<1>2. pubFile \in Files /\ pubFile \in Entries /\ pubFile \notin Dirs /\ pubFile \notin rows
  BY <1>1, Distinct DEF JournalInv, JournalTypes, PublicationHolds
<1>3. faults \in Nat /\ MaxFaults \in Nat
  BY BoundsAssumption DEF JournalInv, JournalTypes
<1>4. PhasesHold' /\ DeletionHolds' /\ StagingHolds' /\ ~stuck
  BY <1>1 DEF JournalInv, PhasesHold, DeletionHolds, StagingHolds, deleteVars
<1>5. PublicationHolds'
  BY <1>1 DEF PublicationHolds
<1>6. /\ NamesHold' /\ DirectoriesHold' /\ RowsHold' /\ AudioAccounted' /\ Faultless' /\ OneFault'
      /\ place' \in [Entries -> {Absent, Public} \cup Intents]
  <2>1. CASE UNCHANGED place /\ faults' = faults
    <3>1. UNCHANGED durableVars
      BY <1>1, <2>1 DEF durableVars
    <3> QED
      BY <1>1, <1>4, <2>1, <3>1, DurableKept, SettledKept DEF JournalInv, JournalTypes
  <2>2. CASE place' = Moved(pubFile, Absent) /\ faults' = faults
    <3>1. ~Owns(pubFile)
      BY <1>2 DEF Owns
    <3> QED
      BY <1>1, <1>2, <2>2, <3>1, Removed
  <2>3. CASE UNCHANGED place /\ faults' = faults + 1
    BY <1>1, <2>3, IdleFault DEF JournalInv, JournalTypes
  <2> QED
    BY <1>1, <2>1, <2>2, <2>3
<1>7. JournalTypes'
  <2>1. faults' \in 0..MaxFaults
    BY <1>1, <1>3 DEF JournalInv, JournalTypes
  <2> QED
    BY <1>1, <1>6, <2>1 DEF JournalInv, JournalTypes, deleteVars
<1> QED
  BY <1>4, <1>5, <1>6, <1>7 DEF JournalInv

LEMMA PubFailKeeps == ASSUME JournalInv, PubFail PROVE JournalInv'
<1>1. /\ phase = "idle" /\ pubStep \in {"writing", "published", "committed"}
      /\ UNCHANGED <<rows, place, home, deleteVars, stuck>>
  BY DEF PubFail
<1>2. /\ pubFile \in Files /\ PubIntent \in intents /\ OnlyIntent
      /\ worklist = {} /\ staging = {} /\ ~stuck
  BY <1>1 DEF JournalInv, JournalTypes, PublicationHolds, PhasesHold
<1>3. faults \in Nat /\ MaxFaults \in Nat
  BY BoundsAssumption DEF JournalInv, JournalTypes
<1>4. CASE pubFile \in Samples /\ PublicDirs = {} /\ rows \cap {pubFile, Profile} = {}
  <2>1. /\ \/ intents' = intents \ {PubIntent} /\ faults' = faults
           \/ intents' = intents /\ faults < MaxFaults /\ faults' = faults + 1
        /\ pubStep' = "none" /\ pubFile' = Absent
        /\ UNCHANGED <<phase, worklist>>
    BY <1>4 DEF PubFail, NoFault, Fault
  <2>2. pubStep = "writing"
    BY <1>1, <1>4 DEF JournalInv, PublicationHolds, InSight
  <2>3. JournalTypes'
    <3>1. faults' \in 0..MaxFaults
      BY <1>3, <2>1 DEF JournalInv, JournalTypes
    <3> QED
      BY <1>1, <1>2, <2>1, <3>1 DEF JournalInv, JournalTypes, deleteVars
  <2>4. PhasesHold' /\ DeletionHolds' /\ StagingHolds'
    BY <1>1, <1>2, <2>1 DEF JournalInv, PhasesHold, DeletionHolds, StagingHolds, deleteVars
  <2>5. PublicationHolds'
    BY <2>1 DEF PublicationHolds
  <2>6. NamesHold' /\ DirectoriesHold' /\ RowsHold' /\ AudioAccounted' /\ Faultless' /\ OneFault'
    <3>1. CASE intents' = intents \ {PubIntent} /\ faults' = faults
      BY <1>1, <1>4, <2>1, <2>2, <3>1, PubCleared
    <3>2. CASE intents' = intents /\ faults' = faults + 1
      BY <1>1, <2>1, <3>2, IdleFault
    <3> QED
      BY <2>1, <3>1, <3>2
  <2> QED
    BY <2>3, <2>4, <2>5, <2>6 DEF JournalInv
<1>5. CASE ~(pubFile \in Samples /\ PublicDirs = {} /\ rows \cap {pubFile, Profile} = {})
  <2>1. /\ phase' = "undo" /\ worklist' = {PubIntent} /\ pubStep' = "failed"
        /\ UNCHANGED <<intents, pubFile, faults>>
    BY <1>5 DEF PubFail, NoFault
  <2>2. UNCHANGED durableVars
    BY <1>1, <2>1 DEF durableVars
  <2>3. JournalTypes'
    BY <1>1, <1>2, <2>1 DEF JournalInv, JournalTypes, deleteVars
  <2>4. PhasesHold' /\ DeletionHolds' /\ StagingHolds'
    BY <1>1, <1>2, <2>1 DEF JournalInv, PhasesHold, DeletionHolds, StagingHolds, deleteVars
  <2>5. PublicationHolds'
    <3>1. pubFile # Absent /\ place[pubFile] \in {PubIntent, Public, Absent} /\ (pubFile \in rows => InSight)
      BY <1>1, <1>2, Distinct DEF JournalInv, PublicationHolds, InSight
    <3> QED
      BY <1>1, <1>2, <2>1, <3>1 DEF PublicationHolds, OnlyIntent, PubIntent, InSight, InView
  <2>6. NamesHold' /\ DirectoriesHold' /\ RowsHold' /\ AudioAccounted' /\ Faultless' /\ OneFault'
    BY <1>1, <1>2, <2>1, <2>2, DurableKept, SettledKept
  <2> QED
    BY <2>3, <2>4, <2>5, <2>6 DEF JournalInv
<1> QED
  BY <1>4, <1>5

(* The directory that the upload of a lost profile has made again goes too. *)
LEMMA PubTidyKeeps == ASSUME JournalInv, PubTidy PROVE JournalInv'
<1>1. /\ phase = "undo" /\ pubStep = "failed" /\ worklist = {}
      /\ phase' = "idle" /\ pubStep' = "none" /\ pubFile' = Absent
      /\ UNCHANGED <<rows, home, intents, worklist, deleteVars, stuck, faults>>
  BY DEF PubTidy
<1>2. ~stuck
  BY <1>1 DEF JournalInv, PhasesHold
<1>3. PhasesHold' /\ DeletionHolds' /\ StagingHolds'
  BY <1>1, <1>2 DEF JournalInv, PhasesHold, DeletionHolds, StagingHolds, deleteVars
<1>4. PublicationHolds'
  BY <1>1 DEF PublicationHolds
<1>5. /\ NamesHold' /\ DirectoriesHold' /\ RowsHold' /\ AudioAccounted' /\ Faultless' /\ OneFault'
      /\ place' \in [Entries -> {Absent, Public} \cup Intents]
  <2>1. CASE place' = place
    <3>1. UNCHANGED durableVars
      BY <1>1, <2>1 DEF durableVars
    <3> QED
      BY <1>1, <1>2, <2>1, <3>1, DurableKept, SettledKept DEF JournalInv, JournalTypes
  <2>2. CASE place' # place
    <3>1. /\ rows \cap {pubFile, Profile} = {}
          /\ place' = [x \in Entries |-> IF x \in PublicDirs /\ Empty(x) THEN Absent ELSE place[x]]
      BY <2>2 DEF PubTidy
    <3>2. PICK e \in PublicDirs : Empty(e)
      <4> SUFFICES ASSUME \A x \in PublicDirs : ~Empty(x) PROVE place' = place
        BY <2>2
      <4>1. place' = [x \in Entries |-> place[x]]
        BY <3>1
      <4> QED
        BY <4>1 DEF JournalInv, JournalTypes
    <3>3. e \in Dirs /\ e \in Entries /\ \A d \in PublicDirs : d = e
      BY <3>2, Distinct DEF JournalInv, DirectoriesHold, PublicDirs
    <3>4. \A x \in Entries : x \in Samples /\ home[x] = e => place[x] = Absent
      BY <3>2 DEF Empty
    <3>5. \A x \in Entries : (IF x \in PublicDirs /\ Empty(x) THEN Absent ELSE place[x])
                             = (IF x = e \/ (Absent = Absent /\ x \in Samples /\ e \in Dirs /\ home[x] = e)
                                  THEN Absent ELSE place[x])
      BY <3>2, <3>3, <3>4
    <3>6. place' = Moved(e, Absent)
      BY <3>1, <3>5 DEF Moved
    <3>7. ~Owns(e)
      BY <3>1, <3>3 DEF Owns, JournalInv, RowsHold, NoOrphanSample
    <3> QED
      BY <1>1, <3>3, <3>6, <3>7, Removed
  <2> QED
    BY <2>1, <2>2
<1>6. JournalTypes'
  BY <1>1, <1>5 DEF JournalInv, JournalTypes, deleteVars
<1> QED
  BY <1>3, <1>4, <1>5, <1>6 DEF JournalInv

-----------------------------------------------------------------------------
LEMMA UnchangedKeeps == ASSUME JournalInv, UNCHANGED vars PROVE JournalInv'
<1>1. UNCHANGED <<rows, place, home, intents, phase, worklist, todo, staging, doomed, stuck,
                  pubStep, pubFile, faults>>
  BY DEF vars, durableVars, deleteVars, pubVars
<1>2. JournalTypes' /\ PhasesHold'
  BY <1>1 DEF JournalInv, JournalTypes, PhasesHold
<1>3. NamesHold' /\ DirectoriesHold' /\ RowsHold' /\ AudioAccounted'
  BY <1>1, DurableKept DEF durableVars
<1>4. PublicationHolds'
  BY <1>1 DEF JournalInv, PublicationHolds, OnlyIntent, PubIntent, InSight, InView
<1>5. DeletionHolds'
  BY <1>1 DEF JournalInv, DeletionHolds, InView, PublicDirs, Owns
<1>6. StagingHolds'
  BY <1>1 DEF JournalInv, StagingHolds, InView, PublicDirs, Covered
<1>7. Faultless'
  BY <1>1 DEF JournalInv, Faultless, Lone, Deleting, Hidden, InView, Accounted, Pending, Covered
<1>8. OneFault'
  BY <1>1 DEF JournalInv, OneFault, Lone, Hidden, Nested, Loose
<1> QED
  BY <1>2, <1>3, <1>4, <1>5, <1>6, <1>7, <1>8 DEF JournalInv

(* Every operation of the event loop, every crash and every recovery.       *)
LEMMA NextKeepsJournal == JournalInv /\ [Next]_vars => JournalInv'
<1> SUFFICES ASSUME JournalInv, [Next]_vars PROVE JournalInv'
  OBVIOUS
<1>1. CASE Publication
  BY <1>1, CreateProfileKeeps, PubBeginKeeps, PubCreateKeeps, PubJournalKeeps, PubRenameKeeps, PubCommitKeeps,
     PubFinishKeeps, PubFailEarlyKeeps, PubFailKeeps, PubTidyKeeps DEF Publication
<1>2. CASE Deletion
  BY <1>2, DeleteFileKeeps, DeleteProfileKeeps, StageSkipKeeps, StagePrepareKeeps, StageRenameKeeps,
     StageRaisesKeeps, DeleteRaisesKeeps, DeleteCommitKeeps, ReconcileKeeps, DiscardKeeps, DeleteEndsKeeps DEF Deletion
<1>3. CASE Recovery
  BY <1>3, CrashKeeps, StartKeeps, RecoverEndsKeeps, ReconcileKeeps DEF Recovery
<1>4. CASE UNCHANGED vars
  BY <1>4, UnchangedKeeps
<1> QED
  BY <1>1, <1>2, <1>3, <1>4 DEF Next

(* The invariant of deletion_journal.py and of the protocols its callers    *)
(* follow: what is hidden has an intent that an undo, a discard or the next *)
(* startup will settle, and the open operation covers what it has begun.    *)
THEOREM JournalAlwaysInOrder == Spec => []JournalInv
<1> QED
  BY InitJournal, NextKeepsJournal, PTL DEF Spec

(* RowsAndFilesAgree, for any set of files, any number of directories and  *)
(* of spells of filesystem errors: delete_generation, delete_profile and   *)
(* the uploads lose no file that a row owns and forget none that no row    *)
(* owns, wherever the process dies.                                        *)
THEOREM RowsAndFilesAlwaysAgree == Spec => []RowsAndFilesAgree
<1>1. ASSUME JournalInv PROVE RowsAndFilesAgree
  <2>1. TypeOK
    <3>1. Cardinality(staging) <= 1
      <4>1. CASE staging = {}
        <5>1. Cardinality(staging) = 0
          BY <4>1, FS_EmptySet
        <5> QED
          BY <5>1
      <4>2. CASE staging # {}
        <5>1. PICK i \in staging : TRUE
          BY <4>2
        <5>2. staging = {i}
          BY <1>1, <5>1 DEF JournalInv, JournalTypes
        <5>3. Cardinality(staging) = 1
          BY <5>2, FS_Singleton
        <5> QED
          BY <5>3
      <4> QED
        BY <4>1, <4>2
    <3> QED
      BY <1>1, <3>1 DEF JournalInv, JournalTypes, TypeOK
  <2>2. NoLostFile
    <3> SUFFICES ASSUME NEW f \in rows \cap Files
                 PROVE  /\ place[f] # Absent /\ (f \in Samples => place[home[f]] # Absent)
                        /\ Survives(f) \/ (faults > 1 /\ f \in Samples /\ Twice)
      BY DEF NoLostFile
    <3>1. /\ f \in Entries /\ place[f] # Absent
          /\ place[f] = Public \/ (Deleting(f) /\ place[f].of = f)
          /\ f \in Samples => place[home[f]] # Absent /\ home[f] \in Dirs /\ home[f] \in Entries
      BY <1>1, OwnedFile
    <3>2. f \in Samples => Restorable(home[f])
      BY <1>1, <3>1, HiddenDirectory DEF Restorable, Deleting, Hidden, JournalInv, JournalTypes
    <3>3. CASE place[f] \in {Public} \cup intents
      BY <3>1, <3>2, <3>3, Distinct DEF Survives, Restorable, Deleting, JournalInv, JournalTypes
    <3>4. CASE f \in Samples /\ place[f] \notin {Public} \cup intents
      <4>1. faults > 1 /\ ~Lone
        BY <1>1, <3>4 DEF JournalInv, RowsHold
      <4>2. Twice
        BY <4>1 DEF Lone, Twice
      <4> QED
        BY <3>1, <3>4, <4>1, <4>2
    <3>5. f \in Audio => place[f] \in {Public} \cup intents
      BY <1>1, <3>1 DEF JournalInv, NamesHold
    <3> QED
      BY <3>3, <3>4, <3>5, Distinct
  <2>3. NoStrayFile
    <3> SUFFICES ASSUME NEW f \in Files \ rows, Accountable(f)
                 PROVE  \/ place[f] = Absent
                        \/ place[f] \notin intents /\ place[f] # Public /\ place[f].kind = "publish"
                        \/ \E i \in intents : i.of = f \/ (f \in Samples /\ i.of = home[f])
      BY DEF NoStrayFile
    <3>1. Accounted(f) \/ (f \in Samples /\ Covered(home[f]))
      BY <1>1, Distinct DEF Accountable, JournalInv, AudioAccounted, Faultless
    <3> QED
      BY <3>1, Distinct DEF Accounted, Pending, Covered
  <2>4. NoOrphanSample /\ OwnedStorageStarts
    BY <1>1 DEF JournalInv, RowsHold, Faultless, OwnedStorageStarts
  <2> QED
    BY <2>1, <2>2, <2>3, <2>4 DEF RowsAndFilesAgree
<1> QED
  BY <1>1, JournalAlwaysInOrder, PTL

(* Only recovery lets requests in.                                          *)
LEMMA StartupEnds ==
  ASSUME Next, phase = "recover", phase' = "idle"
  PROVE  RecoverEnds
<1>1. ~Publication
  BY DEF Publication, CreateProfile, PubBegin, PubCreate, PubJournal, PubRename, PubCommit, PubFinish,
         PubFailEarly, PubFail, PubTidy, LoopFree
<1>2. ~Deletion
  BY DEF Deletion, DeleteFile, DeleteProfile, StageSkip, StagePrepare, StageRename, StageRaises, DeleteRaises,
         DeleteCommit, Undo, Discard, DeleteEnds, LoopFree
<1> QED
  BY <1>1, <1>2 DEF Next, Recovery, Crash, Start, Recover

(* StartupSettles: whenever recover_interrupted_deletions lets the server  *)
(* start, every file that a row owns is in place and none that nobody owns *)
(* is, and the journal is empty.                                           *)
THEOREM StartupAlwaysSettles == Spec => StartupSettles
<1>1. ASSUME JournalInv, Next, phase = "recover", phase' = "idle"
      PROVE  /\ intents = {}
             /\ \A f \in rows \cap Files : InPlace(f)
             /\ \A f \in Files \ rows : Accountable(f) => ~InPlace(f)
  <2>1. intents = {}
    BY <1>1, StartupEnds DEF RecoverEnds, JournalInv, PhasesHold
  <2>2. \A d \in Dirs : place[d] \in {Absent, Public}
    BY <1>1, <2>1, HiddenDirectory
  <2>3. Lone
    BY <1>1, <2>2 DEF Lone, JournalInv, DirectoriesHold, PublicDirs
  <2>4. ASSUME NEW f \in rows \cap Files PROVE InPlace(f)
    <3>1. /\ f \in Entries /\ place[f] # Absent
          /\ place[f] = Public \/ Deleting(f)
          /\ f \in Samples => place[home[f]] # Absent /\ home[f] \in Dirs
      BY <1>1, OwnedFile
    <3>2. place[f] = Public
      BY <1>1, <2>1, <2>3, <3>1, Distinct DEF JournalInv, NamesHold, RowsHold
    <3> QED
      BY <2>2, <3>1, <3>2 DEF InPlace, InView
  <2>5. ASSUME NEW f \in Files \ rows, Accountable(f) PROVE ~InPlace(f)
    <3>1. Accounted(f)
      BY <1>1, <2>1, <2>5, Distinct DEF Accountable, JournalInv, AudioAccounted, Faultless, Covered
    <3> QED
      BY <2>1, <3>1, Distinct DEF Accounted, Pending, Covered, InPlace
  <2> QED
    BY <2>1, <2>4, <2>5
<1>2. JournalInv /\ [Next]_vars =>
        [phase = "recover" /\ phase' = "idle" =>
           /\ intents = {}
           /\ \A f \in rows \cap Files : InPlace(f)
           /\ \A f \in Files \ rows : Accountable(f) => ~InPlace(f)]_vars
  BY <1>1
<1> QED
  BY <1>2, JournalAlwaysInOrder, PTL DEF Spec, StartupSettles

-----------------------------------------------------------------------------
(* The refinement: what the library keeps changes by whole operations. *)

Kept == {f \in Files : Survives(f)}

(* ManagedLibrary's actions, of the files kept.                             *)
LEMMA LibraryActions ==
  /\ Library!Init <=> Kept = {}
  /\ Library!Next <=>
       \/ \E f \in Files : \/ f \notin Kept /\ Kept' = Kept \cup {f}
                           \/ {f} \subseteq Kept /\ Kept' = Kept \ {f}
       \/ Kept \subseteq Kept /\ Kept' = Kept \ Kept
BY ZenonT(40) DEF Library!Init, Library!Next, Library!Publish, Library!Delete, Kept

(* A file is kept as long as its row, its name and its directory's are. *)
LEMMA KeptSame ==
  ASSUME rows' \cap Files = rows \cap Files,
         \A f \in rows \cap Files :
           /\ Restorable(f)' <=> Restorable(f)
           /\ f \in Samples => (Restorable(home[f])' <=> Restorable(home[f]))
  PROVE  Kept' = Kept
<1>1. \A f \in Files : Survives(f)' <=> Survives(f)
  BY DEF Survives
<1> QED
  BY <1>1 DEF Kept

LEMMA DurableSame == ASSUME UNCHANGED durableVars PROVE Kept' = Kept
<1>1. UNCHANGED <<rows, place, home, intents>>
  BY DEF durableVars
<1> QED
  BY <1>1, KeptSame DEF Restorable

(* One entry moves, between two names under which it would be restored, or *)
(* without belonging to anybody.                                           *)
LEMMA MovedSame ==
  ASSUME JournalInv, UNCHANGED <<rows, home, intents>>,
         NEW e \in Entries, \A x \in Entries : x # e => place'[x] = place[x],
         \/ Restorable(e)' <=> Restorable(e)
         \/ e \in Files \ rows
         \/ e \in Dirs /\ rows \cap Samples = {}
  PROVE  Kept' = Kept
<1>1. ASSUME NEW f \in rows \cap Files
      PROVE  /\ Restorable(f)' <=> Restorable(f)
             /\ f \in Samples => (Restorable(home[f])' <=> Restorable(home[f]))
  <2>1. /\ f \in Entries /\ f \in Files
        /\ f \in Samples => home[f] \in Dirs /\ home[f] \in Entries /\ home[f] \notin Files
    BY Distinct DEF JournalInv, JournalTypes
  <2>2. CASE f # e
    <3>1. Restorable(f)' <=> Restorable(f)
      BY <2>1, <2>2 DEF Restorable
    <3>2. f \in Samples => (Restorable(home[f])' <=> Restorable(home[f]))
      BY <2>1 DEF Restorable
    <3> QED
      BY <3>1, <3>2
  <2>3. CASE f = e
    <3>1. Restorable(f)' <=> Restorable(f)
      BY <2>1, <2>3, Distinct
    <3>2. f \in Samples => (Restorable(home[f])' <=> Restorable(home[f]))
      BY <2>1, <2>3 DEF Restorable
    <3> QED
      BY <3>1, <3>2
  <2> QED
    BY <2>2, <2>3
<1> QED
  BY <1>1, KeptSame

(* What nobody owns can be removed. *)
LEMMA RemovedSame ==
  ASSUME JournalInv, UNCHANGED <<rows, home, intents>>, NEW e \in Entries, ~Owns(e), place' = Moved(e, Absent)
  PROVE  Kept' = Kept
<1>1. \A x \in Entries :
        place'[x] = IF x = e \/ (x \in Samples /\ e \in Dirs /\ home[x] = e) THEN Absent ELSE place[x]
  BY MovedTo
<1>2. \A f \in rows \cap Files : f \in Entries /\ f # e /\ ~(f \in Samples /\ e \in Dirs)
  BY Distinct DEF Owns
<1>3. \A s \in rows \cap Samples : home[s] \in Entries /\ home[s] \notin Samples /\ home[s] # e
  BY <1>2, Distinct DEF JournalInv, JournalTypes
<1>4. ASSUME NEW f \in rows \cap Files
      PROVE  /\ Restorable(f)' <=> Restorable(f)
             /\ f \in Samples => (Restorable(home[f])' <=> Restorable(home[f]))
  <2>1. place'[f] = place[f]
    BY <1>1, <1>2
  <2>2. f \in Samples => place'[home[f]] = place[home[f]]
    BY <1>1, <1>3
  <2> QED
    BY <2>1, <2>2 DEF Restorable
<1> QED
  BY <1>4, KeptSame

(* An intent under whose name nothing is restored comes and goes. *)
LEMMA IntentSame ==
  ASSUME JournalInv, UNCHANGED <<rows, place, home>>, NEW i \in Intents,
         intents' \in {intents, intents \cup {i}, intents \ {i}},
         i.kind = "publish" \/ \A x \in Entries : place[x] # i
  PROVE  Kept' = Kept
<1>1. \A x \in Entries : Restorable(x)' <=> Restorable(x)
  BY DEF Restorable
<1>2. \A f \in rows \cap Files : f \in Entries /\ (f \in Samples => home[f] \in Entries)
  BY Distinct DEF JournalInv, JournalTypes
<1>3. UNCHANGED home
  OBVIOUS
<1>4. \A f \in rows \cap Files : f \in Samples => (Restorable(home[f])' <=> Restorable(home[f]))
  BY <1>2, <1>3 DEF Restorable
<1> QED
  BY <1>1, <1>2, <1>4, KeptSame

(* Until its commit a publication changes nothing that is kept.             *)
LEMMA PublicationSame ==
  ASSUME JournalInv, Publication, ~PubCommit
  PROVE  Kept' = Kept
<1>1. ASSUME CreateProfile PROVE Kept' = Kept
  <2>1. /\ Profile \notin rows /\ rows' = rows \cup {Profile} /\ UNCHANGED <<home, intents>>
        /\ \A x \in Files : x \in Entries /\ place'[x] = place[x]
    <3>1. \A x \in Files : x \in Entries /\ x \notin Dirs
      BY Distinct
    <3>2. \A d \in Dirs : place' = Moved(d, Public) => \A x \in Files : place'[x] = place[x]
      BY <3>1, Distinct DEF Moved
    <3> QED
      BY <1>1, <3>1, <3>2 DEF CreateProfile
  <2>2. rows \cap Samples = {} /\ rows' \cap Files = rows \cap Files
    BY <2>1, Distinct DEF JournalInv, RowsHold, NoOrphanSample
  <2> QED
    BY <2>1, <2>2, KeptSame DEF Restorable
<1>2. ASSUME NEW f \in Files, PubBegin(f) PROVE Kept' = Kept
  BY <1>2, DurableSame DEF PubBegin
<1>3. ASSUME PubCreate PROVE Kept' = Kept
  <2>1. /\ pubFile \in Files /\ pubFile \in Entries /\ pubFile \notin rows
        /\ UNCHANGED <<rows, intents>>
    BY <1>3, Distinct DEF PubCreate, LoopFree, JournalInv, JournalTypes, PublicationHolds
  <2>2. ASSUME NEW f \in rows \cap Files
        PROVE  place'[f] = place[f] /\ (f \in Samples => home'[f] = home[f] /\ place'[home[f]] = place[home[f]])
    <3>1. /\ f \in Entries /\ f # pubFile /\ f \notin Dirs
          /\ f \in Samples => place[home[f]] # Absent /\ home[f] \in Dirs /\ home[f] \in Entries
                              /\ home[f] # pubFile
      BY <2>1, OwnedFile, Distinct
    <3>2. CASE pubFile \in Audio
      <4>1. place' = [place EXCEPT ![pubFile] = PubIntent] /\ home' = home
        BY <1>3, <3>2 DEF PubCreate
      <4> QED
        BY <2>1, <3>1, <4>1 DEF JournalInv, JournalTypes
    <3>3. CASE pubFile \in Samples
      <4>1. PICK d \in Dirs : /\ IF PublicDirs = {} THEN Unused(d) ELSE d \in PublicDirs
                              /\ place' = [place EXCEPT ![d] = Public, ![pubFile] = PubIntent]
                              /\ home' = [home EXCEPT ![pubFile] = d]
        BY <1>3, <3>3, Distinct DEF PubCreate
      <4>2. place'[f] = place[f] /\ (f \in Samples => home'[f] = home[f])
        BY <3>1, <4>1 DEF JournalInv, JournalTypes
      <4>3. f \in Samples /\ home[f] = d => place[d] = Public
        BY <3>1, <4>1 DEF Unused, PublicDirs
      <4>4. f \in Samples => place'[home[f]] = place[home[f]]
        BY <3>1, <4>1, <4>3 DEF JournalInv, JournalTypes
      <4> QED
        BY <4>2, <4>4
    <3> QED
      BY <2>1, <3>2, <3>3 DEF Files
  <2> QED
    BY <2>1, <2>2, KeptSame DEF Restorable
<1>4. ASSUME PubJournal \/ PubFinish \/ PubFail PROVE Kept' = Kept
  <2>1. /\ pubFile \in Files /\ UNCHANGED <<rows, place, home>>
        /\ intents' \in {intents, intents \cup {PubIntent}, intents \ {PubIntent}}
    BY <1>4 DEF PubJournal, PubFinish, PubFail, JournalInv, JournalTypes, PublicationHolds
  <2> QED
    BY <2>1, PubIntentFacts, IntentSame
<1>5. ASSUME PubRename PROVE Kept' = Kept
  <2>1. /\ pubFile \in Files /\ pubFile \in Entries /\ pubFile \notin rows /\ place' = Moved(pubFile, Public)
        /\ UNCHANGED <<rows, home, intents>>
    BY <1>5, Distinct DEF PubRename, LoopFree, JournalInv, JournalTypes, PublicationHolds
  <2> QED
    BY <2>1, MovedTo, MovedSame, Distinct
<1>6. ASSUME PubFailEarly PROVE Kept' = Kept
  <2>1. /\ pubFile \in Files /\ pubFile \in Entries /\ pubFile \notin rows /\ pubFile \notin Dirs
        /\ place' = Moved(pubFile, Absent) \/ UNCHANGED place
        /\ UNCHANGED <<rows, home, intents>>
    BY <1>6, Distinct DEF PubFailEarly, JournalInv, JournalTypes, PublicationHolds
  <2>2. ~Owns(pubFile)
    BY <2>1 DEF Owns
  <2> QED
    BY <2>1, <2>2, RemovedSame, DurableSame DEF durableVars
<1>7. ASSUME PubTidy PROVE Kept' = Kept
  <2>1. UNCHANGED <<rows, home, intents>>
    BY <1>7 DEF PubTidy
  <2>2. CASE UNCHANGED place
    BY <2>1, <2>2, DurableSame DEF durableVars
  <2>3. CASE place' # place
    <3>1. /\ Profile \notin rows
          /\ place' = [x \in Entries |-> IF x \in PublicDirs /\ Empty(x) THEN Absent ELSE place[x]]
      BY <1>7, <2>3 DEF PubTidy
    <3>2. rows \cap Samples = {}
      BY <3>1 DEF JournalInv, RowsHold, NoOrphanSample
    <3>3. \A f \in Files : f \in Entries /\ f \notin PublicDirs
      BY Distinct DEF PublicDirs
    <3>4. \A f \in Files : place'[f] = place[f]
      BY <3>1, <3>3
    <3> QED
      BY <2>1, <3>2, <3>4, KeptSame DEF Restorable
  <2> QED
    BY <2>2, <2>3
<1> QED
  BY <1>1, <1>2, <1>3, <1>4, <1>5, <1>6, <1>7 DEF Publication

LEMMA CommitPublishes == ASSUME JournalInv, PubCommit PROVE Library!Next
<1>1. PICK f \in Files : /\ f \notin rows /\ rows' = rows \cup {f}
                         /\ UNCHANGED <<place, home, intents>>
                         /\ place[f] = Public /\ InView(f)
  BY Distinct DEF PubCommit, JournalInv, JournalTypes, PublicationHolds, InSight
<1>2. \A g \in Files \ {f} : Survives(g)' <=> Survives(g)
  BY <1>1 DEF Survives, Restorable
<1>3. Survives(f)' /\ ~Survives(f)
  BY <1>1 DEF Survives, Restorable, InView
<1>4. f \notin Kept /\ Kept' = Kept \cup {f}
  BY <1>2, <1>3 DEF Kept
<1> QED
  BY <1>4, LibraryActions

(* The commit deletes one file, or everything. *)
LEMMA CommitDeletes == ASSUME JournalInv, DeleteCommit PROVE Library!Next \/ Kept' = Kept
<1>1. /\ phase = "staging" /\ rows' = rows \ doomed /\ UNCHANGED <<place, home, intents>>
  BY DEF DeleteCommit
<1>2. \A f \in Files : Survives(f)' <=> Survives(f) /\ f \notin doomed
  BY <1>1 DEF Survives, Restorable
<1>3. Kept' = Kept \ doomed
  BY <1>2 DEF Kept
<1>4. CASE Profile \in doomed
  <2>1. doomed = rows
    BY <1>1, <1>4 DEF JournalInv, StagingHolds
  <2>2. Kept' = Kept \ Kept
    BY <1>3, <2>1 DEF Kept, Survives
  <2> QED
    BY <2>2, LibraryActions
<1>5. CASE Profile \notin doomed
  <2>1. \A e, f \in doomed : e = f
    BY <1>1, <1>5 DEF JournalInv, StagingHolds
  <2>2. CASE Kept \cap doomed = {}
    BY <1>3, <2>2
  <2>3. CASE Kept \cap doomed # {}
    <3>1. PICK f \in Kept : f \in doomed
      BY <2>3
    <3>2. f \in Files /\ {f} \subseteq Kept /\ Kept' = Kept \ {f}
      BY <1>3, <2>1, <3>1 DEF Kept
    <3> QED
      BY <3>2, LibraryActions
  <2> QED
    BY <2>2, <2>3
<1> QED
  BY <1>4, <1>5

(* A hidden sample whose intent is cleared while its directory is hidden   *)
(* too is the one file that an undo can lose track of.                     *)
LEMMA ReconcileSteps ==
  ASSUME JournalInv, NEW i \in worklist, Undo(i) \/ Recover(i)
  PROVE  Library!Next \/ Kept' = Kept
<1>1. /\ i \in intents /\ i \in Intents /\ i.of \in Entries /\ i # Public
  BY IntentFacts, Distinct DEF JournalInv, JournalTypes
<1>2. ASSUME ReconcileMove(i) PROVE Kept' = Kept
  <2>1. /\ Resolvable(i) /\ Outcome(i) # place[i.of] /\ place' = Moved(i.of, Outcome(i))
        /\ UNCHANGED <<rows, home, intents>>
    BY <1>2 DEF ReconcileMove
  <2>2. \/ Outcome(i) = Absent /\ ~Owns(i.of)
        \/ Outcome(i) = Public /\ Deleting(i.of) /\ place[i.of] = i
    BY <1>1, <2>1, OutcomeFacts
  <2>3. CASE Outcome(i) = Absent /\ ~Owns(i.of)
    BY <1>1, <2>1, <2>3, RemovedSame
  <2>4. CASE Outcome(i) = Public /\ Deleting(i.of) /\ place[i.of] = i
    <3>1. \A x \in Entries : place'[x] = IF x = i.of THEN Public ELSE place[x]
      BY <1>1, <2>1, <2>4, MovedTo, Distinct
    <3>2. Restorable(i.of)' /\ Restorable(i.of)
      BY <1>1, <2>4, <3>1 DEF Restorable, Deleting
    <3> QED
      BY <1>1, <2>1, <3>1, <3>2, MovedSame
  <2> QED
    BY <2>2, <2>3, <2>4
<1>3. ASSUME ReconcileFinish(i) PROVE Library!Next \/ Kept' = Kept
  <2>1. /\ Resolvable(i) /\ Outcome(i) = place[i.of] /\ intents' = intents \ {i}
        /\ UNCHANGED <<rows, place, home>>
    BY <1>3 DEF ReconcileFinish
  <2>2. CASE \A x \in Entries : place[x] # i
    BY <1>1, <2>1, <2>2, IntentSame
  <2>3. CASE \E x \in Entries : place[x] = i
    <3>1. PICK f \in Entries : place[f] = i
      BY <2>3
    <3>2. f \in Samples /\ f \in Files
      BY <1>1, <2>1, <3>1, OutcomeFacts, Distinct
    <3>3. \A x \in Entries : place[x] = i => x = f
      BY <1>1, <3>1 DEF JournalInv, NamesHold, Hidden
    <3>4. \A x \in Entries : x # f => (Restorable(x)' <=> Restorable(x))
      BY <2>1, <3>3 DEF Restorable
    <3>5. ~Restorable(f)'
      BY <1>1, <2>1, <3>1 DEF Restorable
    <3>6. \A s \in Samples : home[s] \in Entries /\ home[s] # f /\ home'[s] = home[s]
      BY <2>1, <3>2, Distinct DEF JournalInv, JournalTypes
    <3>7. \A g \in Files \ {f} : Survives(g)' <=> Survives(g)
      <4>1. \A g \in Files \ {f} : g \in Entries /\ g # f
        BY Distinct
      <4>2. \A s \in Samples : Restorable(home[s])' <=> Restorable(home[s])
        BY <2>1, <3>3, <3>6 DEF Restorable
      <4> QED
        BY <2>1, <3>4, <4>1, <4>2 DEF Survives
    <3>8. Kept' = Kept \ {f}
      BY <3>5, <3>7 DEF Kept, Survives
    <3>9. CASE f \in Kept
      BY <3>2, <3>8, <3>9, LibraryActions
    <3>10. CASE f \notin Kept
      BY <3>8, <3>10
    <3> QED
      BY <3>9, <3>10
  <2> QED
    BY <2>2, <2>3
<1>4. ASSUME ReconcileRaises(i) PROVE Kept' = Kept
  BY <1>4, DurableSame DEF ReconcileRaises
<1> QED
  BY <1>2, <1>3, <1>4 DEF Undo, Recover, Reconcile

(* Nor does a deletion, until its commit.                                   *)
LEMMA DeletionSteps ==
  ASSUME JournalInv, Deletion
  PROVE  Library!Next \/ Kept' = Kept
<1>1. ASSUME NEW f \in Files, DeleteFile(f) PROVE Kept' = Kept
  BY <1>1, DurableSame DEF DeleteFile
<1>2. ASSUME DeleteProfile \/ DeleteRaises \/ DeleteEnds PROVE Kept' = Kept
  BY <1>2, DurableSame DEF DeleteProfile, DeleteRaises, DeleteEnds
<1>3. ASSUME NEW e \in Entries, StageSkip(e) PROVE Kept' = Kept
  BY <1>3, DurableSame DEF StageSkip
<1>4. ASSUME NEW e \in Entries, StagePrepare(e) PROVE Kept' = Kept
  <2>1. PICK i \in Fresh("delete", e) : intents' = intents \cup {i}
    BY <1>4 DEF StagePrepare
  <2>2. i \in Intents /\ i.of = e /\ place[e] # i
    BY <2>1 DEF Fresh
  <2>3. \A x \in Entries : place[x] # i
    BY <2>2 DEF JournalInv, NamesHold, Hidden
  <2>4. UNCHANGED <<rows, place, home>>
    BY <1>4 DEF StagePrepare
  <2> QED
    BY <2>1, <2>2, <2>3, <2>4, IntentSame
<1>5. ASSUME StageRename \/ StageRaises PROVE Kept' = Kept
  <2>1. phase = "staging" /\ UNCHANGED <<rows, home>>
    BY <1>5 DEF StageRename, StageRaises
  <2>2. PICK i \in staging :
          \/ UNCHANGED place /\ intents' \in {intents, intents \ {i}}
          \/ place' = Moved(i.of, i) /\ UNCHANGED intents
    BY <1>5 DEF StageRename, StageRaises
  <2>3. /\ i \in intents /\ i \in Intents /\ i.of \in Entries /\ i.kind = "delete"
        /\ place[i.of] = Public /\ i # Absent /\ i # Public
    BY <2>1, IntentFacts, Distinct DEF JournalInv, JournalTypes, StagingHolds
  <2>4. CASE UNCHANGED place /\ intents' \in {intents, intents \ {i}}
    <3>1. \A x \in Entries : place[x] # i
      BY <2>3 DEF JournalInv, NamesHold, Hidden
    <3> QED
      BY <2>1, <2>3, <2>4, <3>1, IntentSame
  <2>5. CASE place' = Moved(i.of, i) /\ UNCHANGED intents
    <3>1. \A x \in Entries : place'[x] = IF x = i.of THEN i ELSE place[x]
      BY <2>3, <2>5, MovedTo
    <3>2. Restorable(i.of)' /\ Restorable(i.of)
      BY <2>3, <2>5, <3>1 DEF Restorable
    <3> QED
      BY <2>1, <2>3, <2>5, <3>1, <3>2, MovedSame
  <2> QED
    BY <2>2, <2>4, <2>5
<1>6. ASSUME NEW i \in worklist, Discard(i) PROVE Kept' = Kept
  <2>1. /\ phase = "discard" /\ UNCHANGED <<rows, home>>
        /\ \/ place' = Moved(i.of, Absent) /\ UNCHANGED intents
           \/ ~AtStaged(i) /\ intents' = intents \ {i} /\ UNCHANGED place
           \/ UNCHANGED <<place, intents>>
    BY <1>6 DEF Discard
  <2>2. /\ i \in Intents /\ i.of \in Entries /\ i # Absent
        /\ ~Owns(i.of) /\ InView(i.of) /\ pubStep # "failed"
    BY <2>1, IntentFacts, Distinct DEF JournalInv, JournalTypes, PhasesHold, DeletionHolds
  <2>3. ~AtStaged(i) => \A x \in Entries : place[x] # i
    BY <2>2 DEF AtStaged, JournalInv, NamesHold, Hidden
  <2>4. CASE place' = Moved(i.of, Absent) /\ UNCHANGED intents
    BY <2>1, <2>2, <2>4, RemovedSame
  <2>5. CASE ~AtStaged(i) /\ intents' = intents \ {i} /\ UNCHANGED place
    BY <2>1, <2>2, <2>3, <2>5, IntentSame
  <2>6. CASE UNCHANGED <<place, intents>>
    BY <2>1, <2>6, DurableSame DEF durableVars
  <2> QED
    BY <2>1, <2>4, <2>5, <2>6
<1>7. ASSUME NEW i \in worklist, Undo(i) PROVE Library!Next \/ Kept' = Kept
  BY <1>7, ReconcileSteps
<1> QED
  BY <1>1, <1>2, <1>3, <1>4, <1>5, <1>6, <1>7, CommitDeletes DEF Deletion

(* ImplementsLibrary, for every instance: whatever crashes and whichever   *)
(* filesystem operations fail, what users keep changes by publications of  *)
(* one file and by deletions of what they name, as a whole.  (A sample     *)
(* that two failed undos lose track of leaves by itself, like a deletion.) *)
THEOREM JournalIsLibrary == Spec => ImplementsLibrary
<1>1. Init => Library!Init
  <2>1. Init => Kept = {}
    BY DEF Init, Kept, Survives
  <2> QED
    BY <2>1, LibraryActions
<1>2. ASSUME JournalInv, [Next]_vars PROVE Library!Next \/ Kept' = Kept
  <2>1. ASSUME Publication PROVE Library!Next \/ Kept' = Kept
    BY <1>2, <2>1, PublicationSame, CommitPublishes
  <2>2. ASSUME Recovery PROVE Library!Next \/ Kept' = Kept
    <3>1. ASSUME Crash \/ Start \/ RecoverEnds PROVE Kept' = Kept
      BY <3>1, DurableSame DEF Crash, Start, RecoverEnds
    <3> QED
      BY <1>2, <2>2, <3>1, ReconcileSteps DEF Recovery
  <2>3. ASSUME UNCHANGED vars PROVE Kept' = Kept
    BY <2>3, DurableSame DEF vars
  <2> QED
    BY <1>2, <2>1, <2>2, <2>3, DeletionSteps DEF Next
<1>3. JournalInv /\ [Next]_vars => [Library!Next]_({f \in Files : Survives(f)})
  BY <1>2 DEF Kept
<1> QED
  BY <1>1, <1>3, JournalAlwaysInOrder, PTL DEF Spec, ImplementsLibrary, Library!Spec

=============================================================================
