---------------------- MODULE AgentConfigurationProofs ----------------------
(***************************************************************************)
(* What holds of AgentConfiguration for any settings and any commands,     *)
(* late, repeated and reordered in whatever way.                           *)
(***************************************************************************)
EXTENDS AgentConfiguration, TLAPS

-----------------------------------------------------------------------------
(* The inductive invariant                                                 *)

(* A repair is recorded under a revision that its step leaves behind.      *)
RepairsArePast ==
    \A key \in DOMAIN commands : key.repair = None \/ key.repair < revision

(* Only an agent that exists has a receipt, and it has one from the first  *)
(* release on that takes effect.                                           *)
ReceiptStays ==
    /\ receipt # None => exists
    /\ taken # {} => receipt # None

(* A release that took effect has used up the revision that it expected,   *)
(* and the cursor of its channel is at its feed or past it.                *)
EffectsArePast ==
    \A e \in taken :
        /\ e.expected = None \/ e.expected < revision
        /\ e.feed <= cursor[e.channel].sequence

IInv ==
    /\ TypeOK
    /\ ReceiptAtCursor
    /\ ReleasedSettingsHold
    /\ RepairsArePast
    /\ ReceiptStays
    /\ EffectsArePast

LEMMA InitIInv == Init => IInv
<1> SUFFICES ASSUME Init PROVE IInv
  OBVIOUS
<1>1. [f \in Fields |-> Default] \in Settings
  BY CommandsAssumption DEF CommandsAssumption, Settings
<1>2. TypeOK
  <2>1. settings \in Settings
    BY <1>1 DEF Init
  <2>2. revision \in Revisions /\ bypasses \in 0..MaxBypasses
    BY CommandsAssumption DEF Init, CommandsAssumption, Revisions
  <2>3. DOMAIN commands = {}
    BY DEF Init
  <2>4. QED
    BY <2>1, <2>2, <2>3 DEF Init, TypeOK
<1>3. QED
  BY <1>2 DEF Init, IInv, ReceiptAtCursor, ReleasedSettingsHold,
              RepairsArePast, ReceiptStays, EffectsArePast

-----------------------------------------------------------------------------
(* Settings and records                                                    *)

(* Settings with some of their values replaced are settings.               *)
LEMMA WithSettings ==
    ASSUME settings \in Settings, NEW new,
           \A f \in DOMAIN new : new[f] \in Values
    PROVE  With(new) \in Settings
BY DEF With, Settings

(* What the patches, bootstraps and releases bring are settings.           *)
LEMMA CommandSettings ==
    /\ \A p \in Patches : settings \in Settings => With(p.patch) \in Settings
    /\ \A b \in Bootstraps : b.settings \in Settings
    /\ \A c \in Releases :
          settings \in Settings => With(c.manifest.settings) \in Settings
<1>1. ASSUME NEW p \in Patches, settings \in Settings
      PROVE  With(p.patch) \in Settings
  BY <1>1, WithSettings, CommandsAssumption DEF CommandsAssumption
<1>2. ASSUME NEW c \in Releases, settings \in Settings
      PROVE  With(c.manifest.settings) \in Settings
  BY <1>2, WithSettings, CommandsAssumption DEF CommandsAssumption
<1>3. QED
  BY <1>1, <1>2, CommandsAssumption DEF CommandsAssumption

(* A hash is made of values of the release's fields.                       *)
LEMMA HashedSettings ==
    ASSUME NEW all \in Settings, NEW manifest
    PROVE  Hashed(manifest, all) \in [HashedFields(manifest) -> Values]
BY DEF Hashed, HashedFields, Settings, Fields, ReleaseFields

(* What a command's record adds to the records.                            *)
LEMMA RecordEffect ==
    ASSUME NEW key, NEW digest, Record(key, digest)
    PROVE  /\ key \notin DOMAIN commands
           /\ DOMAIN commands' = DOMAIN commands \union {key}
           /\ \A k \in DOMAIN commands : commands'[k] = commands[k]
           /\ commands'[key].revision = revision'
           /\ commands'[key].settings = settings'
BY DEF Record

(* The rows of agent_configuration_commands.                               *)
RecordsOK ==
    \A key \in DOMAIN commands :
        /\ key.repair \in Revisions \union {None}
        /\ commands[key].revision \in 0..revision
        /\ commands[key].settings \in Settings

(* The records stay well formed with a step that records its command, at   *)
(* this revision or the next.                                              *)
LEMMA RecordsStay ==
    ASSUME RecordsOK, RepairsArePast, revision \in Revisions,
           NEW key, NEW digest, Record(key, digest),
           settings' \in Settings,
           \/ key.repair = None /\ (Advance \/ UNCHANGED revision)
           \/ key.repair = revision /\ Advance
    PROVE  RecordsOK' /\ RepairsArePast' /\ revision' \in Revisions
<1>0. /\ DOMAIN commands' = DOMAIN commands \union {key}
      /\ \A k \in DOMAIN commands : commands'[k] = commands[k]
      /\ commands'[key].revision = revision'
      /\ commands'[key].settings = settings'
  BY RecordEffect
<1>1. MaxRevision \in Nat
  BY CommandsAssumption DEF CommandsAssumption
<1>2. revision' \in Revisions /\ revision <= revision'
  BY <1>1 DEF Advance, Revisions
<1>3. key.repair = None \/ (key.repair = revision /\ revision < revision')
  BY <1>1 DEF Advance, Revisions
<1>4. RecordsOK'
  <2> SUFFICES ASSUME NEW k \in DOMAIN commands'
               PROVE  /\ k.repair \in Revisions \union {None}
                      /\ commands'[k].revision \in 0..revision'
                      /\ commands'[k].settings \in Settings
    BY DEF RecordsOK
  <2>1. CASE k = key
    <3>1. /\ commands'[k].revision = revision'
          /\ commands'[k].settings = settings'
      BY <2>1, <1>0
    <3>2. revision' \in 0..revision' /\ revision \in Revisions
      BY <1>2, <1>1 DEF Revisions
    <3>3. QED
      BY <2>1, <3>1, <3>2, <1>3
  <2>2. CASE k \in DOMAIN commands
    <3>1. commands'[k] = commands[k]
      BY <2>2, <1>0
    <3>2. /\ k.repair \in Revisions \union {None}
          /\ commands[k].revision \in 0..revision
          /\ commands[k].settings \in Settings
      BY <2>2 DEF RecordsOK
    <3>3. 0..revision \subseteq 0..revision'
      BY <1>1, <1>2 DEF Revisions
    <3>4. QED
      BY <3>1, <3>2, <3>3
  <2>3. QED
    BY <2>1, <2>2, <1>0
<1>5. RepairsArePast'
  <2> SUFFICES ASSUME NEW k \in DOMAIN commands', k.repair # None
               PROVE  k.repair < revision'
    BY DEF RepairsArePast
  <2>1. CASE k = key
    BY <2>1, <1>3
  <2>2. CASE k \in DOMAIN commands
    BY <2>2, <1>1, <1>2 DEF RecordsOK, RepairsArePast, Revisions
  <2>3. QED
    BY <2>1, <2>2, <1>0
<1>6. QED
  BY <1>2, <1>4, <1>5

(* A release that takes a step is recorded under a key of its own or as    *)
(* the repair of this revision.                                            *)
LEMMA ReleaseRecord ==
    ASSUME NEW c \in Releases, RecordRelease(c)
    PROVE  \E key : /\ Record(key, c.manifest)
                    /\ key.repair \in {None, revision}
BY DEF RecordRelease, Key, RepairKey

(* Where a cursor may stand.                                               *)
Positions ==
    {Unseen} \union
        {[sequence |-> c.feed, digest |-> c.digest] : c \in Releases}

LEMMA PositionSequence ==
    ASSUME NEW position \in Positions
    PROVE  position.sequence \in Nat
<1>1. CASE position = Unseen
  BY <1>1 DEF Unseen
<1>2. CASE position # Unseen
  <2>1. PICK c \in Releases : position = [sequence |-> c.feed, digest |-> c.digest]
    BY <1>2 DEF Positions
  <2>2. c.feed \in Nat
    BY CommandsAssumption DEF CommandsAssumption
  <2>3. QED
    BY <2>1, <2>2
<1>3. QED
  BY <1>1, <1>2

(* What a cursor and a receipt are made of when a release comes in order.  *)
LEMMA CursorEffect ==
    ASSUME TypeOK, NEW c \in Releases, FeedInOrder(c), WriteFeedCursor(c)
    PROVE  /\ cursor' \in [Channels -> Positions]
           /\ c.channel \in Channels
           /\ cursor'[c.channel] = [sequence |-> c.feed, digest |-> c.digest]
           /\ \A ch \in Channels : ch # c.channel => cursor'[ch] = cursor[ch]
           /\ \A ch \in Channels : /\ cursor[ch].sequence \in Nat
                                   /\ cursor'[ch].sequence \in Nat
                                   /\ cursor[ch].sequence <= cursor'[ch].sequence
                                   /\ cursor[ch] # Unseen => cursor'[ch] # Unseen
<1>1. /\ c.channel \in Channels
      /\ \A d \in Releases : d.feed \in Nat /\ d.feed # 0
  BY CommandsAssumption DEF CommandsAssumption
<1>2. \A ch \in Channels : cursor[ch].sequence \in Nat
  BY PositionSequence DEF TypeOK, Positions
<1>3. /\ cursor'[c.channel] = [sequence |-> c.feed, digest |-> c.digest]
      /\ \A ch \in Channels : ch # c.channel => cursor'[ch] = cursor[ch]
      /\ cursor' \in [Channels -> Positions]
  BY <1>1 DEF TypeOK, WriteFeedCursor, Positions
<1>4. cursor'[c.channel].sequence = c.feed
  BY <1>3
<1>5. cursor[c.channel].sequence <= c.feed
  BY <1>1, <1>2 DEF FeedInOrder
<1>6. cursor'[c.channel] # Unseen
  BY <1>1, <1>4 DEF Unseen
<1>7. QED
  BY <1>1, <1>2, <1>3, <1>4, <1>5, <1>6

-----------------------------------------------------------------------------
(* The parts of the invariant                                              *)

TypeOKPart ==
    /\ exists \in BOOLEAN /\ settings \in Settings
    /\ mode \in {"native", "managed"}
    /\ fence \in {0} \union {b.fence : b \in Bootstraps}
    /\ bypasses \in 0..MaxBypasses /\ drifted \in BOOLEAN

ReleaseOK ==
    /\ receipt # None =>
        /\ \E c \in Releases : receipt = ReceiptOf(c, receipt.hash)
        /\ receipt.hash \in [HashedFields(receipt.manifest) -> Values]
    /\ cursor \in [Channels -> Positions]
    /\ taken \subseteq {Effect(c) : c \in Releases}
    /\ revived \subseteq taken

LEMMA TypeParts ==
    TypeOK <=> TypeOKPart /\ revision \in Revisions /\ RecordsOK /\ ReleaseOK
BY DEF TypeOK, TypeOKPart, RecordsOK, ReleaseOK, Positions

(* Every step keeps the rows well formed.                                  *)
LEMMA StepTypeOK ==
    ASSUME TypeOK, RepairsArePast, [Next]_vars
    PROVE  TypeOK' /\ RepairsArePast'
<1>1. TypeOKPart /\ revision \in Revisions /\ RecordsOK /\ ReleaseOK
  BY TypeParts
<1>2. SUFFICES /\ TypeOKPart' /\ revision' \in Revisions /\ RecordsOK'
               /\ ReleaseOK' /\ RepairsArePast'
  BY DEF TypeOK, TypeOKPart, RecordsOK, ReleaseOK, Positions
<1>3. CASE UNCHANGED vars
  BY <1>1, <1>3
     DEF vars, agentVars, controlVars, releaseVars, historyVars, TypeOKPart,
         RecordsOK, ReleaseOK, RepairsArePast
<1>4. CASE SaveMetadata
  BY <1>1, <1>4
     DEF SaveMetadata, controlVars, releaseVars, historyVars, TypeOKPart,
         RecordsOK, ReleaseOK, RepairsArePast
<1>5. CASE Bypass
  <2>1. settings' \in Settings
    BY <1>1, <1>5 DEF Bypass, TypeOKPart, Settings
  <2>2. bypasses' \in 0..MaxBypasses
    BY <1>1, <1>5, CommandsAssumption DEF Bypass, TypeOKPart, CommandsAssumption
  <2>3. QED
    BY <1>1, <1>5, <2>1, <2>2
       DEF Bypass, controlVars, releaseVars, TypeOKPart, RecordsOK, ReleaseOK,
           RepairsArePast
<1>6. ASSUME NEW p \in Patches, NativePatch(p)
      PROVE  /\ TypeOKPart' /\ revision' \in Revisions /\ RecordsOK'
             /\ ReleaseOK' /\ RepairsArePast'
  <2>1. settings' \in Settings
    BY <1>1, <1>6, CommandSettings DEF NativePatch, TypeOKPart
  <2>2. /\ Key(p.id).repair = None /\ Record(Key(p.id), p)
        /\ Advance \/ UNCHANGED revision
    BY <1>6 DEF NativePatch, Key
  <2>3. RecordsOK' /\ RepairsArePast' /\ revision' \in Revisions
    BY <1>1, <2>1, <2>2, RecordsStay
  <2>4. QED
    BY <1>1, <1>6, <2>1, <2>3
       DEF NativePatch, releaseVars, historyVars, TypeOKPart, ReleaseOK
<1>7. ASSUME NEW b \in Bootstraps, BootstrapNative(b) \/ BootstrapToolbox(b)
      PROVE  /\ TypeOKPart' /\ revision' \in Revisions /\ RecordsOK'
             /\ ReleaseOK' /\ RepairsArePast'
  <2>1. settings' \in Settings
    BY <1>7, CommandSettings DEF BootstrapNative, BootstrapToolbox
  <2>2. Key(b.id).repair = None /\ Record(Key(b.id), b) /\ Advance
    BY <1>7 DEF BootstrapNative, BootstrapToolbox, Key
  <2>3. RecordsOK' /\ RepairsArePast' /\ revision' \in Revisions
    BY <1>1, <2>1, <2>2, RecordsStay
  <2>4. TypeOKPart'
    BY <1>1, <1>7, <2>1
       DEF BootstrapNative, BootstrapToolbox, historyVars, TypeOKPart
  <2>5. QED
    BY <1>1, <1>7, <2>3, <2>4
       DEF BootstrapNative, BootstrapToolbox, releaseVars, historyVars, ReleaseOK
<1>8. ASSUME NEW e \in Enrollments, Enroll(e)
      PROVE  /\ TypeOKPart' /\ revision' \in Revisions /\ RecordsOK'
             /\ ReleaseOK' /\ RepairsArePast'
  <2>1. settings' \in Settings
    BY <1>1, <1>8 DEF Enroll, TypeOKPart
  <2>2. Key(e.id).repair = None /\ Record(Key(e.id), e) /\ Advance
    BY <1>8 DEF Enroll, Key
  <2>3. RecordsOK' /\ RepairsArePast' /\ revision' \in Revisions
    BY <1>1, <2>1, <2>2, RecordsStay
  <2>4. QED
    BY <1>1, <1>8, <2>1, <2>3
       DEF Enroll, releaseVars, historyVars, TypeOKPart, ReleaseOK
<1>9. ASSUME NEW c \in Releases, ReapplyRelease(c)
      PROVE  /\ TypeOKPart' /\ revision' \in Revisions /\ RecordsOK'
             /\ ReleaseOK' /\ RepairsArePast'
  <2>1. settings' \in Settings
    BY <1>1, <1>9, CommandSettings DEF ReapplyRelease, TypeOKPart
  <2>2. RecordsOK' /\ RepairsArePast' /\ revision' \in Revisions
    <3>1. CASE Advance /\ RecordRelease(c)
      <4>1. PICK key : Record(key, c.manifest) /\ key.repair \in {None, revision}
        BY <3>1, ReleaseRecord
      <4>2. QED
        BY <1>1, <2>1, <3>1, <4>1, RecordsStay
    <3>2. CASE UNCHANGED <<revision, commands>>
      BY <1>1, <3>2 DEF RecordsOK, RepairsArePast
    <3>3. QED
      BY <1>9, <3>1, <3>2 DEF ReapplyRelease
  <2>3. /\ receipt # None /\ receipt' = ReceiptOf(c, receipt.hash)
        /\ receipt.manifest = c.manifest
    BY <1>9 DEF ReapplyRelease, InPlace
  <2>4. receipt'.hash = receipt.hash /\ receipt'.manifest = c.manifest
    BY <2>3 DEF ReceiptOf
  <2>5. ReleaseOK'
    <3>1. receipt' = ReceiptOf(c, receipt'.hash)
      BY <2>3, <2>4
    <3>2. receipt'.hash \in [HashedFields(receipt'.manifest) -> Values]
      BY <1>1, <2>3, <2>4 DEF ReleaseOK
    <3>3. cursor' \in [Channels -> Positions]
      BY <1>9, CursorEffect DEF ReapplyRelease
    <3>4. UNCHANGED <<taken, revived>>
      BY <1>9 DEF ReapplyRelease
    <3>5. QED
      BY <1>1, <3>1, <3>2, <3>3, <3>4 DEF ReleaseOK
  <2>6. TypeOKPart'
    BY <1>1, <1>9, <2>1 DEF ReapplyRelease, TypeOKPart
  <2>7. QED
    BY <2>2, <2>5, <2>6
<1>10. ASSUME NEW c \in Releases, ApplyRelease(c)
       PROVE  /\ TypeOKPart' /\ revision' \in Revisions /\ RecordsOK'
              /\ ReleaseOK' /\ RepairsArePast'
  <2>1. settings' \in Settings
    BY <1>1, <1>10, CommandSettings DEF ApplyRelease, TypeOKPart
  <2>2. RecordsOK' /\ RepairsArePast' /\ revision' \in Revisions
    <3>1. PICK key : Record(key, c.manifest) /\ key.repair \in {None, revision}
      BY <1>10, ReleaseRecord DEF ApplyRelease
    <3>2. Advance
      BY <1>10 DEF ApplyRelease
    <3>3. QED
      BY <1>1, <2>1, <3>1, <3>2, RecordsStay
  <2>3. ReleaseOK'
    <3>1. receipt' = ReceiptOf(c, Hashed(c.manifest, settings'))
      BY <1>10 DEF ApplyRelease
    <3>2. /\ receipt'.manifest = c.manifest
          /\ receipt'.hash = Hashed(c.manifest, settings')
      BY <3>1 DEF ReceiptOf
    <3>3. receipt'.hash \in [HashedFields(receipt'.manifest) -> Values]
      BY <2>1, <3>2, HashedSettings
    <3>4. cursor' \in [Channels -> Positions]
      BY <1>10, CursorEffect DEF ApplyRelease
    <3>5. /\ taken' \subseteq {Effect(d) : d \in Releases}
          /\ revived' \subseteq taken'
      BY <1>1, <1>10 DEF ApplyRelease, ReleaseOK
    <3>6. QED
      BY <3>1, <3>2, <3>3, <3>4, <3>5 DEF ReleaseOK
  <2>4. TypeOKPart'
    BY <1>1, <1>10, <2>1 DEF ApplyRelease, TypeOKPart
  <2>5. QED
    BY <2>2, <2>3, <2>4
<1>11. QED
  BY <1>3, <1>4, <1>5, <1>6, <1>7, <1>8, <1>9, <1>10 DEF Next

-----------------------------------------------------------------------------
(* Receipts, cursors and what a release owns                               *)

(* The agent of a receipt stays, and so does the receipt.                  *)
LEMMA StepReceiptStays ==
    ASSUME TypeOK, TypeOK', ReceiptStays, [Next]_vars
    PROVE  ReceiptStays'
<1>1. CASE UNCHANGED vars
  BY <1>1 DEF vars, agentVars, releaseVars, historyVars, ReceiptStays
<1>2. CASE SaveMetadata \/ Bypass
  BY <1>2 DEF SaveMetadata, Bypass, releaseVars, historyVars, ReceiptStays
<1>3. ASSUME NEW p \in Patches, NativePatch(p) PROVE ReceiptStays'
  BY <1>3 DEF NativePatch, releaseVars, historyVars, ReceiptStays
<1>4. ASSUME NEW b \in Bootstraps, BootstrapNative(b) \/ BootstrapToolbox(b)
      PROVE  ReceiptStays'
  BY <1>4 DEF BootstrapNative, BootstrapToolbox, releaseVars, historyVars, ReceiptStays
<1>5. ASSUME NEW e \in Enrollments, Enroll(e) PROVE ReceiptStays'
  BY <1>5 DEF Enroll, releaseVars, historyVars, ReceiptStays
<1>6. ASSUME NEW c \in Releases, ReapplyRelease(c) \/ ApplyRelease(c)
      PROVE  ReceiptStays'
  <2>1. exists'
    BY <1>6 DEF ReapplyRelease, ApplyRelease, Authorized
  <2>2. receipt' # None
    <3>1. CASE ReapplyRelease(c)
      <4>1. /\ receipt' = ReceiptOf(c, receipt.hash)
            /\ receipt # None /\ receipt.manifest = c.manifest
        BY <3>1 DEF ReapplyRelease, InPlace
      <4>2. receipt.hash \in [HashedFields(c.manifest) -> Values]
        BY <4>1 DEF TypeOK
      <4>3. QED
        BY <4>1, <4>2, NoneAssumption DEF NoneAssumption
    <3>2. CASE ApplyRelease(c)
      <4>1. receipt' = ReceiptOf(c, Hashed(c.manifest, settings'))
        BY <3>2 DEF ApplyRelease
      <4>2. Hashed(c.manifest, settings') \in [HashedFields(c.manifest) -> Values]
        BY HashedSettings DEF TypeOK
      <4>3. QED
        BY <4>1, <4>2, NoneAssumption DEF NoneAssumption
    <3>3. QED
      BY <1>6, <3>1, <3>2
  <2>3. QED
    BY <2>1, <2>2 DEF ReceiptStays
<1>7. QED
  BY <1>1, <1>2, <1>3, <1>4, <1>5, <1>6 DEF Next

(* Only releases move the cursor and the receipt, and each moves both.     *)
LEMMA StepReceiptAtCursor ==
    ASSUME TypeOK, ReceiptAtCursor, [Next]_vars
    PROVE  ReceiptAtCursor'
<1>1. CASE UNCHANGED releaseVars
  BY <1>1 DEF releaseVars, ReceiptAtCursor
<1>2. ASSUME NEW c \in Releases, ReapplyRelease(c) \/ ApplyRelease(c)
      PROVE  ReceiptAtCursor'
  <2>1. cursor'[c.channel] = [sequence |-> c.feed, digest |-> c.digest]
    BY <1>2, CursorEffect DEF ReapplyRelease, ApplyRelease
  <2>2. /\ receipt'.channel = c.channel
        /\ receipt'.feed = c.feed /\ receipt'.digest = c.digest
    BY <1>2 DEF ReapplyRelease, ApplyRelease, ReceiptOf
  <2>3. QED
    BY <2>1, <2>2 DEF ReceiptAtCursor
<1>3. QED
  BY <1>1, <1>2
     DEF Next, vars, SaveMetadata, Bypass, NativePatch, BootstrapNative,
         BootstrapToolbox, Enroll, releaseVars

(* Settings that agree on what a release owns have the same hash.          *)
LEMMA SameHash ==
    ASSUME NEW manifest,
           \A f \in HashedFields(manifest) : settings'[f] = settings[f]
    PROVE  Hashed(manifest, settings') = Hashed(manifest, settings)
BY DEF Hashed

(* A patch that is not sealed off leaves alone what the release owns.      *)
LEMMA PatchKeepsHash ==
    ASSUME TypeOK, receipt # None, NEW p \in Patches, NativePatch(p)
    PROVE  Hashed(receipt.manifest, settings') = Hashed(receipt.manifest, settings)
<1>1. DOMAIN p.patch \intersect HashedFields(receipt.manifest) = {}
  <2>1. mode = "native" \/ mode = "managed"
    BY DEF TypeOK
  <2>2. HashedFields(receipt.manifest) \subseteq ReleaseFields
    BY DEF HashedFields, ReleaseFields
  <2>3. QED
    BY <2>1, <2>2 DEF NativePatch, Sealed, HashedFields
<1>2. HashedFields(receipt.manifest) \subseteq Fields
  BY DEF HashedFields, ReleaseFields, Fields
<1>3. settings' = With(p.patch)
  BY DEF NativePatch
<1>4. ASSUME NEW f \in HashedFields(receipt.manifest)
      PROVE  settings'[f] = settings[f]
  BY <1>1, <1>2, <1>3 DEF With
<1>5. QED
  BY <1>4, SameHash

(* Nothing but a release, or what writes past the authority, changes what  *)
(* a release owns.                                                         *)
LEMMA StepReleasedSettingsHold ==
    ASSUME TypeOK, ReceiptStays, ReleasedSettingsHold, [Next]_vars
    PROVE  ReleasedSettingsHold'
<1>1. CASE UNCHANGED <<settings, receipt, drifted>>
  BY <1>1 DEF ReleasedSettingsHold, Drifted, Hashed
<1>2. CASE Bypass
  BY <1>2 DEF Bypass, ReleasedSettingsHold
<1>3. ASSUME NEW p \in Patches, NativePatch(p) PROVE ReleasedSettingsHold'
  <2>1. UNCHANGED <<receipt, drifted>>
    BY <1>3 DEF NativePatch, releaseVars, historyVars
  <2>2. receipt # None =>
            Hashed(receipt.manifest, settings') = Hashed(receipt.manifest, settings)
    BY <1>3, PatchKeepsHash
  <2>3. QED
    BY <2>1, <2>2 DEF ReleasedSettingsHold, Drifted
<1>4. ASSUME NEW b \in Bootstraps, BootstrapNative(b) \/ BootstrapToolbox(b)
      PROVE  ReleasedSettingsHold'
  <2>1. receipt' = None
    BY <1>4 DEF BootstrapNative, BootstrapToolbox, releaseVars, ReceiptStays
  <2>2. QED
    BY <2>1 DEF ReleasedSettingsHold
<1>5. ASSUME NEW c \in Releases, ReapplyRelease(c) PROVE ReleasedSettingsHold'
  <2>1. /\ receipt # None /\ receipt.manifest = c.manifest
        /\ receipt'.manifest = c.manifest /\ receipt'.hash = receipt.hash
    BY <1>5 DEF ReapplyRelease, InPlace, ReceiptOf
  <2>2. CASE Hashed(c.manifest, settings') = receipt.hash
    BY <2>1, <2>2 DEF ReleasedSettingsHold, Drifted
  <2>3. CASE ~Drifted /\ UNCHANGED settings
    BY <2>1, <2>3 DEF ReleasedSettingsHold, Drifted, Hashed
  <2>4. QED
    BY <1>5, <2>2, <2>3 DEF ReapplyRelease
<1>6. ASSUME NEW c \in Releases, ApplyRelease(c) PROVE ReleasedSettingsHold'
  <2>1. /\ receipt'.manifest = c.manifest
        /\ receipt'.hash = Hashed(c.manifest, settings')
    BY <1>6 DEF ApplyRelease, ReceiptOf
  <2>2. QED
    BY <2>1 DEF ReleasedSettingsHold, Drifted
<1>7. QED
  BY <1>1, <1>2, <1>3, <1>4, <1>5, <1>6
     DEF Next, vars, agentVars, releaseVars, historyVars, SaveMetadata, Enroll

-----------------------------------------------------------------------------
(* Releases that come again                                                *)

(* What a release that takes effect leaves behind.                         *)
LEMMA ApplyEffect ==
    ASSUME TypeOK, NEW c \in Releases, ApplyRelease(c)
    PROVE  /\ c.expected = None \/ c.expected = revision
           /\ revision' = revision + 1
           /\ cursor'[c.channel].sequence = c.feed
<1>1. Expects(c.expected)
  BY DEF ApplyRelease, Authorized, StillInPlace, InPlace
<1>2. FeedInOrder(c) /\ WriteFeedCursor(c)
  BY DEF ApplyRelease
<1>3. cursor'[c.channel] = [sequence |-> c.feed, digest |-> c.digest]
  BY <1>2, CursorEffect
<1>4. QED
  BY <1>1, <1>3 DEF Expects, ApplyRelease, Advance

(* Revisions and cursors never go back.                                    *)
LEMMA OnlyForward ==
    ASSUME TypeOK, [Next]_vars
    PROVE  /\ revision \in Nat /\ revision' \in Nat /\ revision <= revision'
           /\ \A ch \in Channels : /\ cursor[ch].sequence \in Nat
                                   /\ cursor[ch].sequence <= cursor'[ch].sequence
                                   /\ cursor[ch] # Unseen => cursor'[ch] # Unseen
<1>1. revision \in Nat
  BY CommandsAssumption DEF TypeOK, Revisions, CommandsAssumption
<1>2. \A ch \in Channels : cursor[ch].sequence \in Nat
  BY PositionSequence DEF TypeOK, Positions
<1>3. revision' = revision \/ revision' = revision + 1
  BY DEF Next, vars, controlVars, SaveMetadata, Bypass, NativePatch, BootstrapNative,
         BootstrapToolbox, Enroll, ReapplyRelease, ApplyRelease, Advance
<1>4. CASE UNCHANGED cursor
  BY <1>1, <1>2, <1>3, <1>4
<1>5. ASSUME NEW c \in Releases, ReapplyRelease(c) \/ ApplyRelease(c)
      PROVE  \A ch \in Channels :
                /\ cursor[ch].sequence <= cursor'[ch].sequence
                /\ cursor[ch] # Unseen => cursor'[ch] # Unseen
  BY <1>5, CursorEffect DEF ReapplyRelease, ApplyRelease
<1>6. QED
  BY <1>1, <1>2, <1>3, <1>4, <1>5
     DEF Next, vars, releaseVars, SaveMetadata, Bypass, NativePatch,
         BootstrapNative, BootstrapToolbox, Enroll

(* What took effect is of a release that was sent.                         *)
LEMMA EffectParts ==
    ASSUME TypeOK, NEW e \in taken
    PROVE  /\ e.channel \in Channels /\ e.feed \in Nat
           /\ e.expected \in Nat \union {None}
<1>1. PICK c \in Releases : e = Effect(c)
  BY DEF TypeOK
<1>2. QED
  BY <1>1, CommandsAssumption DEF Effect, CommandsAssumption

LEMMA StepEffectsArePast ==
    ASSUME TypeOK, TypeOK', EffectsArePast, [Next]_vars
    PROVE  EffectsArePast'
<1> SUFFICES ASSUME NEW e \in taken'
             PROVE  /\ e.expected = None \/ e.expected < revision'
                    /\ e.feed <= cursor'[e.channel].sequence
  BY DEF EffectsArePast
<1>1. CASE e \in taken
  <2>1. /\ e.channel \in Channels /\ e.feed \in Nat
        /\ e.expected \in Nat \union {None}
    BY <1>1, EffectParts
  <2>2. /\ e.expected = None \/ e.expected < revision
        /\ e.feed <= cursor[e.channel].sequence
    BY <1>1 DEF EffectsArePast
  <2>3. /\ revision \in Nat /\ revision' \in Nat /\ revision <= revision'
        /\ cursor[e.channel].sequence \in Nat
        /\ cursor'[e.channel].sequence \in Nat
        /\ cursor[e.channel].sequence <= cursor'[e.channel].sequence
    <3>1. cursor'[e.channel].sequence \in Nat
      BY <2>1, PositionSequence DEF TypeOK, Positions
    <3>2. QED
      BY <2>1, <3>1, OnlyForward
  <2>4. e.feed <= cursor'[e.channel].sequence
    BY <2>1, <2>2, <2>3
  <2>5. e.expected = None \/ e.expected < revision'
    BY <2>1, <2>2, <2>3
  <2>6. QED
    BY <2>4, <2>5
<1>2. CASE e \notin taken
  <2>1. PICK c \in Releases : ApplyRelease(c)
    BY <1>2 DEF Next, vars, historyVars, SaveMetadata, Bypass, NativePatch,
                BootstrapNative, BootstrapToolbox, Enroll, ReapplyRelease
  <2>2. e = Effect(c)
    BY <1>2, <2>1 DEF ApplyRelease
  <2>3. e.channel = c.channel /\ e.feed = c.feed /\ e.expected = c.expected
    BY <2>2 DEF Effect
  <2>4. /\ c.expected = None \/ c.expected = revision
        /\ revision' = revision + 1
        /\ cursor'[c.channel].sequence = c.feed
    BY <2>1, ApplyEffect
  <2>5. revision \in Nat /\ c.feed \in Nat
    BY OnlyForward, CommandsAssumption DEF CommandsAssumption
  <2>6. QED
    BY <2>3, <2>4, <2>5
<1>3. QED
  BY <1>1, <1>2

-----------------------------------------------------------------------------
(* The theorems                                                            *)

LEMMA IInvHolds == Spec => []IInv
<1>1. IInv /\ [Next]_vars => IInv'
  <2> SUFFICES ASSUME IInv, [Next]_vars PROVE IInv'
    OBVIOUS
  <2>1. TypeOK' /\ RepairsArePast'
    BY StepTypeOK DEF IInv
  <2>2. ReceiptStays'
    BY <2>1, StepReceiptStays DEF IInv
  <2>3. ReceiptAtCursor'
    BY StepReceiptAtCursor DEF IInv
  <2>4. ReleasedSettingsHold'
    BY StepReleasedSettingsHold DEF IInv
  <2>5. EffectsArePast'
    BY <2>1, StepEffectsArePast DEF IInv
  <2>6. QED
    BY <2>1, <2>2, <2>3, <2>4, <2>5 DEF IInv
<1>2. QED
  BY InitIInv, <1>1, PTL DEF Spec

(* The rows of an agent are always well formed, whatever commands arrive   *)
(* in whatever order (agent-release-service.ts, postgres-repository.ts).   *)
THEOREM TypeCorrect == Spec => []TypeOK
<1>1. IInv => TypeOK
  BY DEF IInv
<1>2. QED
  BY IInvHolds, <1>1, PTL

(* The receipt is always that of the feed which its channel's cursor       *)
(* stands at (agent-release-service.ts applyInTransaction).                *)
THEOREM ReceiptFollowsCursor == Spec => []ReceiptAtCursor
<1>1. IInv => ReceiptAtCursor
  BY DEF IInv
<1>2. QED
  BY IInvHolds, <1>1, PTL

(* Without a write past the authority, what a release owns is always as    *)
(* the release left it (field-ownership.ts, settingsHashFromAgent).        *)
THEOREM SettingsHold == Spec => []ReleasedSettingsHold
<1>1. IInv => ReleasedSettingsHold
  BY DEF IInv
<1>2. QED
  BY IInvHolds, <1>1, PTL

(* The key of a repair is new whenever it is needed (authority.ts          *)
(* applyManagedRelease).                                                   *)
THEOREM RepairsAreFree == Spec => []RepairsNeverCollide
<1>1. IInv => RepairsNeverCollide
  <2> SUFFICES ASSUME IInv, NEW c \in Releases,
                      RepairKey(ReleaseId(c)) \in DOMAIN commands
               PROVE  FALSE
    BY DEF RepairsNeverCollide
  <2>1. revision \in Nat
    BY CommandsAssumption DEF IInv, TypeOK, Revisions, CommandsAssumption
  <2>2. RepairKey(ReleaseId(c)).repair = revision
    BY DEF RepairKey
  <2>3. revision = None \/ revision < revision
    BY <2>2 DEF IInv, RepairsArePast
  <2>4. QED
    BY <2>1, <2>3, CommandsAssumption DEF CommandsAssumption
<1>2. QED
  BY IInvHolds, <1>1, PTL

-----------------------------------------------------------------------------
(* Rollbacks                                                               *)

(* A feed publishes one release, as that of a current command does         *)
(* (agent-release-service.ts validateCurrentContract), and its digest      *)
(* stands for what it says.                                                *)
OnePublication ==
    \A c, d \in Releases :
        c.channel = d.channel /\ c.feed = d.feed /\ c.digest = d.digest
            => c.manifest = d.manifest

(* A release that does again what it did before names no revision, and the *)
(* release in place came on another channel.                               *)
LEMMA ReviveEffect ==
    ASSUME OnePublication, IInv, NEW c \in Releases, ApplyRelease(c),
           Effect(c) \in taken
    PROVE  /\ c.expected = None
           /\ \E ch \in Channels \ {c.channel} : cursor[ch] # Unseen
<1>1. /\ TypeOK /\ ReceiptAtCursor /\ ReceiptStays /\ EffectsArePast
  BY DEF IInv
<1>2. c.channel \in Channels /\ c.feed \in Nat /\ c.expected \in Nat \union {None}
  BY CommandsAssumption DEF CommandsAssumption
<1>3. /\ c.expected = None \/ c.expected < revision
      /\ c.feed <= cursor[c.channel].sequence
  BY <1>1 DEF EffectsArePast, Effect
<1>4. c.expected = None \/ c.expected = revision
  BY <1>1, ApplyEffect
<1>5. c.expected = None
  BY <1>2, <1>3, <1>4
<1>6. receipt # None /\ ~InPlace(c) /\ FeedInOrder(c)
  BY <1>1 DEF ReceiptStays, ApplyRelease
<1>7. cursor[c.channel] = [sequence |-> c.feed, digest |-> c.digest]
  <2>1. cursor[c.channel].sequence \in Nat
    BY <1>1, <1>2, PositionSequence DEF TypeOK, Positions
  <2>2. QED
    BY <1>2, <1>3, <1>6, <2>1 DEF FeedInOrder
<1>8. PICK d \in Releases : receipt = ReceiptOf(d, receipt.hash)
  BY <1>1, <1>6 DEF TypeOK
<1>9. /\ receipt.channel = d.channel /\ receipt.feed = d.feed
      /\ receipt.digest = d.digest /\ receipt.manifest = d.manifest
  BY <1>8 DEF ReceiptOf
<1>10. cursor[d.channel] = [sequence |-> d.feed, digest |-> d.digest]
  BY <1>1, <1>6, <1>9 DEF ReceiptAtCursor
<1>11. d.channel # c.channel
  <2> SUFFICES ASSUME d.channel = c.channel PROVE FALSE
    OBVIOUS
  <2>1. d.feed = c.feed /\ d.digest = c.digest
    <3>1. /\ cursor[c.channel].sequence = c.feed
          /\ cursor[c.channel].digest = c.digest
      BY <1>7
    <3>2. /\ cursor[d.channel].sequence = d.feed
          /\ cursor[d.channel].digest = d.digest
      BY <1>10
    <3>3. QED
      BY <3>1, <3>2
  <2>2. d.manifest = c.manifest
    BY <2>1 DEF OnePublication
  <2>3. QED
    BY <1>6, <1>9, <2>2 DEF InPlace
<1>12. d.channel \in Channels /\ d.feed # 0
  BY CommandsAssumption DEF CommandsAssumption
<1>13. cursor[d.channel].sequence = d.feed
  BY <1>10
<1>14. cursor[d.channel] # Unseen
  BY <1>12, <1>13 DEF Unseen
<1>15. QED
  BY <1>5, <1>11, <1>12, <1>14

LEMMA StepRollbacksHold ==
    ASSUME OnePublication, IInv, RollbacksHold, [Next]_vars
    PROVE  RollbacksHold'
<1> SUFFICES ASSUME NEW e \in revived'
             PROVE  /\ e.expected = None
                    /\ \E ch \in Channels \ {e.channel} : cursor'[ch] # Unseen
  BY DEF RollbacksHold
<1>1. \A ch \in Channels : cursor[ch] # Unseen => cursor'[ch] # Unseen
  BY OnlyForward DEF IInv
<1>2. CASE e \in revived
  BY <1>1, <1>2 DEF RollbacksHold
<1>3. CASE e \notin revived
  <2>1. PICK c \in Releases : ApplyRelease(c)
    BY <1>3 DEF Next, vars, historyVars, SaveMetadata, Bypass, NativePatch,
                BootstrapNative, BootstrapToolbox, Enroll, ReapplyRelease
  <2>2. e = Effect(c) /\ Effect(c) \in taken
    BY <1>3, <2>1 DEF ApplyRelease
  <2>3. e.channel = c.channel /\ e.expected = c.expected
    BY <2>2 DEF Effect
  <2>4. QED
    BY <1>1, <2>1, <2>2, <2>3, ReviveEffect
<1>4. QED
  BY <1>2, <1>3

(* Where feeds publish one release each, a late repetition does not undo a *)
(* rollback, except one that names no revision and comes on a channel      *)
(* other than that of the rollback (authority.ts applyManagedRelease,      *)
(* agent-release-service.ts applyInTransaction).                           *)
THEOREM RollbacksStay == OnePublication => (Spec => []RollbacksHold)
<1> SUFFICES ASSUME OnePublication PROVE Spec => []RollbacksHold
  OBVIOUS
<1>1. Init => RollbacksHold
  BY DEF Init, RollbacksHold
<1>2. IInv /\ RollbacksHold /\ [Next]_vars => RollbacksHold'
  BY StepRollbacksHold
<1>3. QED
  BY IInvHolds, <1>1, <1>2, PTL DEF Spec

-----------------------------------------------------------------------------
(* The refinement                                                          *)

(* The records without their digests.                                      *)
Outcomes == [key \in DOMAIN commands |->
                [revision |-> commands[key].revision,
                 settings |-> commands[key].settings]]

(* A record is an outcome of the ledger.                                   *)
LEMMA RecordedOutcome ==
    ASSUME NEW key, NEW digest, Record(key, digest)
    PROVE  /\ key \in DOMAIN Outcomes' /\ key \notin DOMAIN Outcomes
           /\ DOMAIN Outcomes' = DOMAIN Outcomes \union {key}
           /\ \A k \in DOMAIN Outcomes : Outcomes'[k] = Outcomes[k]
           /\ Outcomes'[key] = [revision |-> revision', settings |-> settings']
<1>1. /\ key \notin DOMAIN commands
      /\ DOMAIN commands' = DOMAIN commands \union {key}
      /\ \A k \in DOMAIN commands : commands'[k] = commands[k]
      /\ commands'[key].revision = revision'
      /\ commands'[key].settings = settings'
  BY RecordEffect
<1>2. DOMAIN Outcomes = DOMAIN commands /\ DOMAIN Outcomes' = DOMAIN commands'
  BY DEF Outcomes
<1>3. \A k \in DOMAIN commands : Outcomes'[k] = Outcomes[k]
  BY <1>1 DEF Outcomes
<1>4. Outcomes'[key] = [revision |-> revision', settings |-> settings']
  BY <1>1 DEF Outcomes
<1>5. QED
  BY <1>1, <1>2, <1>3, <1>4

(* A step that makes a revision is a change, one that does not a           *)
(* confirmation.                                                           *)
LEMMA ChangeStep ==
    ASSUME NEW key, NEW digest, Record(key, digest), Advance,
           settings' \in Settings, UNCHANGED bypasses
    PROVE  Ledger!Next
<1>1. Ledger!Recorded(key) /\ key \in DOMAIN Outcomes'
  BY RecordedOutcome DEF Ledger!Recorded, Outcomes
<1>2. QED
  BY <1>1 DEF Ledger!Next, Ledger!Change, Advance, Outcomes

LEMMA ConfirmStep ==
    ASSUME NEW key, NEW digest, Record(key, digest),
           UNCHANGED <<revision, settings, bypasses>>
    PROVE  Ledger!Next
<1>1. Ledger!Recorded(key) /\ key \in DOMAIN Outcomes'
  BY RecordedOutcome DEF Ledger!Recorded, Outcomes
<1>2. QED
  BY <1>1 DEF Ledger!Next, Ledger!Confirm, Outcomes

(* Every step is one of the ledger or leaves it alone.                     *)
LEMMA StepRefines ==
    ASSUME TypeOK, TypeOK', [Next]_vars
    PROVE  [Ledger!Next]_(Ledger!vars)
<1>0. settings' \in Settings
  BY DEF TypeOK
<1>1. CASE UNCHANGED <<revision, settings, commands, bypasses>>
  BY <1>1 DEF Ledger!vars
<1>2. CASE Bypass
  BY <1>0, <1>2 DEF Bypass, controlVars, Ledger!Next, Ledger!Bypass
<1>3. ASSUME NEW p \in Patches, NativePatch(p) PROVE Ledger!Next
  <2>1. Record(Key(p.id), p) /\ UNCHANGED bypasses
    BY <1>3 DEF NativePatch, historyVars
  <2>2. Advance \/ UNCHANGED <<revision, settings>>
    BY <1>3 DEF NativePatch
  <2>3. QED
    BY <1>0, <2>1, <2>2, ChangeStep, ConfirmStep
<1>4. ASSUME NEW b \in Bootstraps, BootstrapNative(b) \/ BootstrapToolbox(b)
      PROVE  Ledger!Next
  <2>1. Record(Key(b.id), b) /\ Advance /\ UNCHANGED bypasses
    BY <1>4 DEF BootstrapNative, BootstrapToolbox, historyVars
  <2>2. QED
    BY <1>0, <2>1, ChangeStep
<1>5. ASSUME NEW e \in Enrollments, Enroll(e) PROVE Ledger!Next
  <2>1. Record(Key(e.id), e) /\ Advance /\ UNCHANGED bypasses
    BY <1>5 DEF Enroll, historyVars
  <2>2. QED
    BY <1>0, <2>1, ChangeStep
<1>6. ASSUME NEW c \in Releases, ReapplyRelease(c) \/ ApplyRelease(c)
      PROVE  [Ledger!Next]_(Ledger!vars)
  <2>1. UNCHANGED bypasses
    BY <1>6 DEF ReapplyRelease, ApplyRelease
  <2>2. CASE Advance /\ RecordRelease(c)
    <3>1. PICK key : Record(key, c.manifest)
      BY <2>2, ReleaseRecord
    <3>2. QED
      BY <1>0, <2>1, <2>2, <3>1, ChangeStep
  <2>3. CASE UNCHANGED <<settings, revision, commands>>
    BY <1>1, <2>1, <2>3
  <2>4. QED
    BY <1>6, <2>2, <2>3 DEF ReapplyRelease, ApplyRelease
<1>7. QED
  BY <1>1, <1>2, <1>3, <1>4, <1>5, <1>6
     DEF Next, vars, agentVars, controlVars, historyVars, SaveMetadata

(* The authority implements the ledger: settings change only with a        *)
(* command that is recorded once, under a revision of its own (authority.ts,*)
(* postgres-repository.ts).                                                *)
THEOREM AuthorityImplementsLedger == Spec => ImplementsLedger
<1>1. Init => Ledger!Init
  BY DEF Init, Ledger!Init
<1>2. TypeOK /\ TypeOK' /\ [Next]_vars => [Ledger!Next]_(Ledger!vars)
  BY StepRefines
<1>3. QED
  BY TypeCorrect, <1>1, <1>2, PTL DEF Spec, ImplementsLedger, Ledger!Spec
=============================================================================
