------------------------- MODULE AgentConfiguration -------------------------
(***************************************************************************)
(* The configuration authority of one agent (packages/server/src/lobu/     *)
(* agent-configuration) and the release service that it applies signed     *)
(* releases with (lobu/agent-release-service.ts). Settings are changed by  *)
(* patches of the owner, bootstraps of the provisioning, the enrolment     *)
(* into managed mode and releases of the control plane.                    *)
(*                                                                         *)
(* A command is one transaction that holds the agent's row FOR UPDATE, and *)
(* so one step. The commands that exist are constants: each of them may    *)
(* arrive at any time and any number of times, so that they are late,      *)
(* repeated and reordered. A command that is refused or answered from its  *)
(* record is no step. Signatures, owners, environments and expiry dates,   *)
(* for which a command may only be refused, are left out.                  *)
(***************************************************************************)
EXTENDS Naturals

CONSTANTS
    \* setting keys by owner (field-ownership.ts)
    LegacyFields,    \* LEGACY_MANAGED_RELEASE_SETTING_KEYS
    BaselineFields,  \* the other keys of a release
    OperatorFields,  \* keys of lobu_operator
    Values, Default,
    \* what may arrive
    Patches, Bootstraps, Enrollments, Releases,
    Channels,
    None,
    MaxRevision,     \* bound: revisions of the agent
    MaxBypasses      \* bound: writes past the authority

ReleaseFields == LegacyFields \union BaselineFields
Fields == ReleaseFields \union OperatorFields
Settings == [Fields -> Values]
Revisions == 0..MaxRevision

(* A manifest, with the settings that it resolves to: all release fields   *)
(* for a personal baseline, some legacy fields otherwise.                  *)
Manifests(S) ==
    [sequence : Nat \ {0}, baseline : BOOLEAN, rollbackTo : Nat,
     settings : S]

ASSUME CommandsAssumption ==
    /\ None \notin Nat /\ Default \in Values
    /\ MaxRevision \in Nat /\ MaxBypasses \in Nat
    /\ \A p \in Patches :
        /\ p.expected \in Nat \union {None}
        /\ DOMAIN p.patch \subseteq Fields
        /\ \A f \in DOMAIN p.patch : p.patch[f] \in Values
    /\ \A b \in Bootstraps :
        /\ b.expected \in Nat \union {None}
        /\ b.settings \in Settings
        /\ b.fence \in Nat
    /\ \A e \in Enrollments : e.expected \in Nat /\ e.sequence \in Nat
    /\ \A c \in Releases :
        /\ c.expected \in Nat \union {None}
        /\ c.channel \in Channels
        /\ c.feed \in Nat \ {0}
        /\ c.manifest \in Manifests({c.manifest.settings})
        /\ DOMAIN c.manifest.settings \subseteq
               IF c.manifest.baseline THEN ReleaseFields ELSE LegacyFields
        /\ c.manifest.baseline =>
               ReleaseFields \subseteq DOMAIN c.manifest.settings
        /\ \A f \in DOMAIN c.manifest.settings : c.manifest.settings[f] \in Values

VARIABLES
    exists,     \* the agent has a row in agents
    settings,   \* its columns
    mode,       \* agent_configuration_controls.management_mode
    revision,   \* and configuration_revision
    commands,   \* agent_configuration_commands, by command_id
    fence,      \* claim_generation of agent_provisioning_fences, 0: none
    receipt,    \* agent_release_applies
    cursor,     \* agent_release_feed_cursors, by channel
    \* history
    bypasses,   \* writes past the authority, and whether
    drifted,    \* one came after the last release or repair
    taken,      \* commands of releases that took effect
    revived     \* and those of them that did so again

agentVars == <<exists, settings>>
controlVars == <<mode, revision, commands>>
releaseVars == <<receipt, cursor>>
historyVars == <<bypasses, drifted, taken, revived>>
vars == <<agentVars, controlVars, fence, releaseVars, historyVars>>

Unseen == [sequence |-> 0, digest |-> None]

Init ==
    /\ exists = FALSE
    /\ settings = [f \in Fields |-> Default]
    /\ mode = "native" /\ revision = 0
    /\ commands = [key \in {} |-> {}]
    /\ fence = 0
    /\ receipt = None
    /\ cursor = [ch \in Channels |-> Unseen]
    /\ bypasses = 0 /\ drifted = FALSE
    /\ taken = {} /\ revived = {}

-----------------------------------------------------------------------------
(* Commands and their records                                              *)

(* The key of a command, and that of its repetition at this revision.      *)
Key(id) == [command |-> id, repair |-> None]

(* Faulty: every repetition has the same key.                              *)
RepairKeySame(id) == [command |-> id, repair |-> 0]

RepairKey(id) == [command |-> id, repair |-> revision]

Seen(id) == Key(id) \in DOMAIN commands

Expects(expected) == expected \in {None, revision}

(* The command with this key, made of digest, is recorded with what it led *)
(* to; its key is new, or the insert fails the transaction.                *)
Record(key, digest) ==
    /\ key \notin DOMAIN commands
    /\ commands' =
        [k \in DOMAIN commands \union {key} |->
            IF k = key THEN [digest |-> digest, revision |-> revision',
                             settings |-> settings']
            ELSE commands[k]]

Advance ==
    /\ revision < MaxRevision
    /\ revision' = revision + 1

(* The settings with the given ones in place.                              *)
With(new) ==
    [f \in Fields |-> IF f \in DOMAIN new THEN new[f] ELSE settings[f]]

-----------------------------------------------------------------------------
(* Metadata, drift                                                         *)

(* saveMetadata makes the row of an agent, without any settings.           *)
SaveMetadata ==
    /\ ~exists
    /\ exists' = TRUE
    /\ UNCHANGED <<settings, controlVars, fence, releaseVars, historyVars>>

(* Something other than this code writes a column of the agent: what the   *)
(* release service calls drift.                                            *)
Bypass ==
    /\ exists /\ bypasses < MaxBypasses
    /\ \E f \in Fields, v \in Values :
          v # settings[f] /\ settings' = [settings EXCEPT ![f] = v]
    /\ bypasses' = bypasses + 1
    /\ drifted' = TRUE
    /\ UNCHANGED <<exists, controlVars, fence, releaseVars, taken, revived>>

-----------------------------------------------------------------------------
(* Patches                                                                 *)

(* Faulty: the receipt of a personal baseline seals no more than another.  *)
SealedAsLegacy(fields) ==
    \/ mode = "native" /\ receipt # None /\ fields \intersect LegacyFields # {}
    \/ mode = "managed" /\ fields \intersect ReleaseFields # {}

(* legacyReleasePredicateRejectedFields, decideNativeSettingsPatch.        *)
Sealed(fields) ==
    \/ /\ mode = "native" /\ receipt # None
       /\ fields \intersect (IF receipt.manifest.baseline THEN ReleaseFields
                             ELSE LegacyFields) # {}
    \/ mode = "managed" /\ fields \intersect ReleaseFields # {}

(* Faulty: a patch that changes nothing is not recorded, and one that      *)
(* comes again may do what it did not do before.                           *)
NativePatchUnrecorded(p) ==
    /\ exists /\ ~Seen(p.id)
    /\ Expects(p.expected) /\ (mode = "managed" => p.expected # None)
    /\ ~Sealed(DOMAIN p.patch)
    /\ settings' = With(p.patch)
    /\ \/ settings' # settings /\ Advance /\ UNCHANGED commands
       \/ settings' = settings /\ UNCHANGED <<revision, commands>>
    /\ UNCHANGED <<exists, mode, fence, releaseVars, historyVars>>

(* applyNativePatchInTransaction: the record of the command comes first,   *)
(* then the revision, then the ownership of the fields.                    *)
NativePatch(p) ==
    /\ exists /\ ~Seen(p.id)
    /\ Expects(p.expected) /\ (mode = "managed" => p.expected # None)
    /\ ~Sealed(DOMAIN p.patch)
    /\ settings' = With(p.patch)
    /\ \/ settings' # settings /\ Advance
       \/ settings' = settings /\ UNCHANGED revision
    /\ Record(Key(p.id), p)
    /\ UNCHANGED <<exists, mode, fence, releaseVars, historyVars>>

-----------------------------------------------------------------------------
(* Bootstraps                                                              *)

(* The native profile: only for an agent that did not exist.               *)
BootstrapNative(b) ==
    /\ b.profile = "native" /\ ~exists
    /\ Expects(b.expected)
    /\ exists' = TRUE /\ settings' = b.settings
    /\ Advance /\ Record(Key(b.id), b)
    /\ UNCHANGED <<mode, fence, releaseVars, historyVars>>

(* The toolbox_personal profile: the settings are replaced, the operator's *)
(* too, unless a release was applied. Behind a fence only a later claim    *)
(* counts; the same claim is answered, as a command that was seen is.      *)
BootstrapToolbox(b) ==
    /\ b.profile = "toolbox" /\ mode = "native" /\ receipt = None
    /\ fence # 0 => b.fence > fence
    /\ ~Seen(b.id) /\ Expects(b.expected)
    /\ exists' = TRUE /\ settings' = b.settings
    /\ fence' = IF b.fence # 0 THEN b.fence ELSE fence
    /\ Advance /\ Record(Key(b.id), b)
    /\ UNCHANGED <<mode, releaseVars, historyVars>>

-----------------------------------------------------------------------------
(* Releases                                                                *)

(* What settings_hash is made of (settingsHashFromAgent).                  *)
HashedFields(manifest) ==
    IF manifest.baseline THEN ReleaseFields ELSE LegacyFields

Hashed(manifest, all) == [f \in HashedFields(manifest) |-> all[f]]

Drifted == Hashed(receipt.manifest, settings) # receipt.hash

(* The stable identity of a release command: not its feed.                 *)
ReleaseId(c) ==
    [sequence |-> c.manifest.sequence, expected |-> c.expected,
     kind |-> c.kind, from |-> c.from]

(* Who repeats a command that was recorded may expect an old revision only *)
(* if there is nothing left to do.                                         *)
StillInPlace(c) ==
    receipt # None /\ receipt.manifest = c.manifest /\ ~Drifted

(* Faulty: the record of a command is enough to repeat it.                 *)
AuthorizedBySight(c) ==
    /\ exists /\ (mode = "managed" => c.expected # None)
    /\ Seen(ReleaseId(c)) =>
           commands[Key(ReleaseId(c))].digest = c.manifest
    /\ Expects(c.expected) \/ Seen(ReleaseId(c))

(* applyManagedRelease, up to the release service.                         *)
Authorized(c) ==
    /\ exists /\ (mode = "managed" => c.expected # None)
    /\ Seen(ReleaseId(c)) =>
           commands[Key(ReleaseId(c))].digest = c.manifest
    /\ Expects(c.expected) \/ (Seen(ReleaseId(c)) /\ StillInPlace(c))

FeedInOrder(c) ==
    \/ c.feed > cursor[c.channel].sequence
    \/ [sequence |-> c.feed, digest |-> c.digest] = cursor[c.channel]

WriteFeedCursor(c) ==
    cursor' = [cursor EXCEPT ![c.channel] =
                  [sequence |-> c.feed, digest |-> c.digest]]

ReceiptOf(c, hash) ==
    [manifest |-> c.manifest, channel |-> c.channel, feed |-> c.feed,
     digest |-> c.digest, hash |-> hash]

(* None is no receipt.                                                     *)
ASSUME NoneAssumption ==
    \A c \in Releases : \A hash \in [HashedFields(c.manifest) -> Values] :
        ReceiptOf(c, hash) # None

(* recordManagedReleaseConfigurationMutation; a command that was seen      *)
(* before is recorded as a repair.                                         *)
RecordRelease(c) ==
    Record(IF Seen(ReleaseId(c)) THEN RepairKey(ReleaseId(c))
           ELSE Key(ReleaseId(c)), c.manifest)

InPlace(c) == receipt # None /\ receipt.manifest.sequence = c.manifest.sequence

(* Faulty: the receipt stays at the feed that it was made for.             *)
ReapplyReleaseKeepsReceipt(c) ==
    /\ Authorized(c) /\ FeedInOrder(c) /\ InPlace(c)
    /\ c.current => c.expectedCurrent = receipt.manifest.sequence
    /\ receipt.manifest = c.manifest
    /\ \/ /\ Drifted
          /\ settings' = With(c.manifest.settings)
          /\ Hashed(c.manifest, settings') = receipt.hash
          /\ Advance /\ RecordRelease(c)
          /\ drifted' = FALSE
       \/ /\ ~Drifted
          /\ UNCHANGED <<settings, revision, commands, drifted>>
    /\ WriteFeedCursor(c)
    /\ UNCHANGED <<exists, mode, fence, receipt, bypasses, taken, revived>>

(* For the release that is in place a command that knows it repairs what   *)
(* drifted, if its settings can, and moves the receipt on to its feed.     *)
ReapplyRelease(c) ==
    /\ Authorized(c) /\ FeedInOrder(c) /\ InPlace(c)
    /\ c.current => c.expectedCurrent = receipt.manifest.sequence
    /\ receipt.manifest = c.manifest
    /\ \/ /\ Drifted
          /\ settings' = With(c.manifest.settings)
          /\ Hashed(c.manifest, settings') = receipt.hash
          /\ Advance /\ RecordRelease(c)
          /\ drifted' = FALSE
       \/ /\ ~Drifted
          /\ UNCHANGED <<settings, revision, commands, drifted>>
    /\ WriteFeedCursor(c)
    /\ receipt' = ReceiptOf(c, receipt.hash)
    /\ UNCHANGED <<exists, mode, fence, bypasses, taken, revived>>

(* A release may only go back where the one in place allows it.            *)
Direction(c) ==
    IF receipt # None /\ c.manifest.sequence < receipt.manifest.sequence
    THEN /\ c.kind = "rollback"
         /\ c.from = receipt.manifest.sequence
         /\ receipt.manifest.rollbackTo = c.manifest.sequence
    ELSE c.kind = "release"

Effect(c) == [channel |-> c.channel, feed |-> c.feed, expected |-> c.expected]

(* Another release takes the place of the one that is in place.            *)
ApplyRelease(c) ==
    /\ Authorized(c) /\ FeedInOrder(c) /\ ~InPlace(c)
    /\ c.expectedCurrent = IF receipt = None THEN 0
                           ELSE receipt.manifest.sequence
    /\ Direction(c)
    /\ WriteFeedCursor(c)
    /\ settings' = With(c.manifest.settings)
    /\ receipt' = ReceiptOf(c, Hashed(c.manifest, settings'))
    /\ Advance /\ RecordRelease(c)
    /\ drifted' = FALSE
    /\ taken' = taken \union {Effect(c)}
    /\ revived' = revived \union ({Effect(c)} \intersect taken)
    /\ UNCHANGED <<exists, mode, fence, bypasses>>

-----------------------------------------------------------------------------
(* enrollToolboxManagedInTransaction: the agent must be as its release     *)
(* left it.                                                                *)
Enroll(e) ==
    /\ exists /\ ~Seen(e.id) /\ mode = "native"
    /\ e.expected = revision
    /\ receipt # None /\ e.sequence = receipt.manifest.sequence /\ ~Drifted
    /\ mode' = "managed"
    /\ Advance /\ UNCHANGED settings /\ Record(Key(e.id), e)
    /\ UNCHANGED <<exists, fence, releaseVars, historyVars>>

-----------------------------------------------------------------------------
Next ==
    \/ SaveMetadata \/ Bypass
    \/ \E p \in Patches : NativePatch(p)
    \/ \E b \in Bootstraps : BootstrapNative(b) \/ BootstrapToolbox(b)
    \/ \E e \in Enrollments : Enroll(e)
    \/ \E c \in Releases : ReapplyRelease(c) \/ ApplyRelease(c)

Spec == Init /\ [][Next]_vars

-----------------------------------------------------------------------------
(* Rows hold what the commands write: a cursor and a receipt are those of  *)
(* a release that was sent, a record those of an authority's revision      *)
(* (agent-release-service.ts writeFeedCursor, postgres-repository.ts).     *)
TypeOK ==
    /\ exists \in BOOLEAN
    /\ settings \in Settings
    /\ mode \in {"native", "managed"}
    /\ revision \in Revisions
    /\ \A key \in DOMAIN commands :
        /\ key.repair \in Revisions \union {None}
        /\ commands[key].revision \in 0..revision
        /\ commands[key].settings \in Settings
    /\ fence \in {0} \union {b.fence : b \in Bootstraps}
    /\ receipt # None =>
        /\ \E c \in Releases : receipt = ReceiptOf(c, receipt.hash)
        /\ receipt.hash \in [HashedFields(receipt.manifest) -> Values]
    /\ cursor \in [Channels -> {Unseen} \union
                    {[sequence |-> c.feed, digest |-> c.digest] : c \in Releases}]
    /\ bypasses \in 0..MaxBypasses
    /\ drifted \in BOOLEAN
    /\ taken \subseteq {Effect(c) : c \in Releases}
    /\ revived \subseteq taken

(* The refinement: the records without their digests are the outcomes.     *)
Ledger == INSTANCE ConfigurationLedger WITH
    InitialSettings <- [f \in Fields |-> Default],
    outcomes <- [key \in DOMAIN commands |->
                    [revision |-> commands[key].revision,
                     settings |-> commands[key].settings]]

(* The authority keeps its promise: settings change only with a command    *)
(* that is recorded once, under a revision of its own, and no record is    *)
(* ever rewritten, whatever commands are late, repeated or refused         *)
(* (authority.ts, postgres-repository.ts).                                 *)
ImplementsLedger == Ledger!Spec

(* What a release owns stays as the release left it, in either mode and    *)
(* whatever kind of release it was, unless something wrote past the        *)
(* authority: the fields that patches and bootstraps are kept from are all *)
(* those that settings_hash is made of (field-ownership.ts,                *)
(* legacyReleasePredicateRejectedFields, settingsHashFromAgent).           *)
ReleasedSettingsHold == receipt # None /\ ~drifted => ~Drifted

(* The receipt names the feed that its channel's cursor stands at: the two *)
(* tables move together (agent-release-service.ts applyInTransaction,      *)
(* writeFeedCursor).                                                       *)
ReceiptAtCursor ==
    receipt # None =>
        cursor[receipt.channel] =
            [sequence |-> receipt.feed, digest |-> receipt.digest]

(* A release command that comes again after a rollback does not bring back *)
(* what was rolled back, except one that named no revision and whose       *)
(* channel is not the one that carried the rollback (authority.ts          *)
(* applyManagedRelease, agent-release-service.ts applyInTransaction).      *)
RollbacksHold ==
    \A e \in revived :
        /\ e.expected = None
        /\ \E ch \in Channels \ {e.channel} : cursor[ch] # Unseen

(* The key of the next repair is always free: drift can be repaired as     *)
(* often as it happens (authority.ts applyManagedRelease).                 *)
RepairsNeverCollide ==
    \A c \in Releases : RepairKey(ReleaseId(c)) \notin DOMAIN commands
=============================================================================
