# TLA+ models of meshcore-bare

meshcore-bare is the firmware of a LoRa mesh node for an ESP32-S3. A phone app
(the *companion*) talks to it over BLE; other nodes talk to it over radio. The
program is one object, `MyMesh`, that a super-loop calls round (`loop()` in
`src/src/main.cpp`), and a `DataStore` that keeps its files. This directory holds
models of the parts of it that keep state, configurations that check them
with TLC, and proofs that TLAPS checks.

Paths below are relative to `src/src/` unless they name a directory.

## The system

There is no thread in the program. `MyMesh::loop` runs, in this order, the mesh
stack (`BaseChatMesh::loop`, outside the repository, which calls the `on...`
handlers), one command or one step of the contact listing
(`checkSerialInterface`), and the lazy save of the contacts. So a handler or a
command is one step of a model; what interleaves is the order in which radio,
app, clock and power act on it.

| component | state | operations | hard behaviour |
|---|---|---|---|
| offline queue | `offline_queue`, `offline_queue_len` | `addToOfflineQueue`, `getFromOfflineQueue` | full queue, eviction from the middle |
| message delivery | the queue, `app_target_ver`, the link | `queueMessage`, `onChannel...Recv`, `CMD_DEVICE_QUERY`, `CMD_SYNC_NEXT_MESSAGE` | arrivals while the app reads, a full or broken link, sessions |
| expected acknowledgements | `expected_ack_table`, `next_ack_idx` | `CMD_SEND_TXT_MSG`, `processAck` | overwriting, repeated acknowledgements, counter wrap, pointers into a moving array |
| requests and answers | five `pending_` fields | six request commands, `onContactResponse`, `onContactPathRecv` | late, repeated and reordered answers, no timeout |
| contact persistence | contact table, `/contacts3`, `dirty_contacts_expiry` | every handler that changes a contact, `saveContacts`, `loadContacts`, `CMD_REBOOT` | lazy saves, counter wrap, failing writes, power loss |
| contact listing | `_iter`, `_iter_started`, `_iter_filter_since`, `_most_recent_lastmod` | `CMD_GET_CONTACTS`, `checkSerialInterface` | the array changes under the iterator, the session ends |
| adverts heard | `advert_paths` | `onDiscoveredContact`, `getRecentlyHeard`, `CMD_GET_ADVERT_PATH` | eviction by time, sorting in place, a comparison that overflows |
| signing | `sign_data`, `sign_data_len` | `CMD_SIGN_START`, `_DATA`, `_FINISH` | a session over many commands, allocation |
| sending and policies | the pool of packets, scopes, permissions | every command that sends, `onContactRequest`, `advert`, `allowPacketForward` | an empty pool, refusals after a packet was obtained, settings that change meanwhile |
| settings | `_prefs`, `/prefs.json`, `/new_prefs` | the `CMD_SET_...` commands, `savePrefs`, `loadPrefs`, `begin` | values accepted now and changed at boot, files cut short, an older file |
| identity and channels | `self_id`, the channel table, their files | `CMD_SET_CHANNEL`, `CMD_IMPORT_PRIVATE_KEY`, `CMD_FACTORY_RESET`, CLI rescue, `setup` | partial writes, what a restart keeps |
| advert blobs | files of adverts | `putBlobByKey`, `getBlobByKey`, `deleteBlobByKey` | a full file, records that give way |
| migration | two file systems | `checkAdvBlobFile`, `migrateToSecondaryFS` | power loss between copy and removal |
| ed25519 library | none | `fe_`, `sc_`, `ge_` functions, `ed25519_...`, `sha512_...` | carries, borrows, canonical forms, parts of a digest |

They interact through few channels: every reply and push goes through the one
link to the app, whose capacity is bounded and whose `writeFrame` nobody checks;
the acknowledgement table points into the contact table; the messages of every
kind share the queue; the packets of every kind share the pool; settings decide
what is sent and told.

What makes each component correct: the queue keeps order and loses only what it
must; the app learns of every message; each message sent is confirmed at most
once and the newest can always be; an answer reaches the request it answers;
a change to the contacts gets to flash and to the app; what the app was told was
set is so after a restart; a node tells of itself only what it may; both sides
of a key agree.

## Modules

| module | models | checked by | proved in |
|---|---|---|---|
| `Inbox` | abstract: what waits is read oldest first, only the oldest broadcast is given up | | |
| `OfflineQueue` | the queue's array, both shifting loops | `offline_queue` | `MessageSyncProofs` |
| `MessageSync` | extends the queue with handlers, link and app | `message_sync`, `message_sync_versions` | `MessageSyncProofs` |
| `ExpectedAcks` | the acknowledgement table | `expected_acks`, `expected_acks_pointer` | `ExpectedAcksProofs` |
| `PendingRequests` | the pending fields and the answers | `pending_requests`, `pending_requests_login` | `PendingRequestsProofs` |
| `ContactStore` | contact table, file, lazy save | `contact_store`, `contact_store_power` | `ContactStoreProofs` |
| `ContactSync` | the contact listing and the app's copy | `app_commands` | `AppCommandsProofs` |
| `AdvertPaths` | the table of adverts heard | `app_commands` | `AppCommandsProofs` |
| `Signer` | abstract: signs what was added since it began | | |
| `SignSession` | the buffer and its length | `app_commands` | `AppCommandsProofs` |
| `Airwaves` | abstract: what may be put on the air, from a pool | | |
| `Sending` | everything that sends | `app_commands` | `AppCommandsProofs` |
| `Settings` | `NodePrefs`, its two files, the start | `foundations` | `StorageProofs` |
| `NodeFiles` | identity, channels, contacts as one number, their files | `foundations` | `StorageProofs` |
| `BlobStore` | stored adverts on both kinds of platform | `foundations` | `StorageProofs` |
| `Migration` | the move to a second file system | `foundations`, `migration_blobs` | `StorageProofs` |
| `FieldElements`, `Scalars` | `fe.c`, `sc.c` | `foundations` | `LibraryProofs` (residues, exponents), `NumberProofs` |
| `Points`, `Keys` | `ge.c`; key pairs, signatures, secrets | `foundations` | |
| `Digest` | what `sha512.c` compresses of data in parts | `foundations` | `LibraryProofs` |

Each `MC...` module gives the sets for TLC; its `.cfg` gives the numbers.
`MCAppCommands` and `MCFoundations` put together parts that share no state: a
behaviour exercises one, chosen at the start, so that their states add up and do
not multiply. Names of
variables and actions are those of the source: `addToOfflineQueue`,
`processAck`, `onContactResponse`; a branch of `handleCmdFrame` is an action
`Cmd...`, e.g. `CmdSyncNextMessage` for `CMD_SYNC_NEXT_MESSAGE`. Variables marked
*history* record what happened for the properties; no guard of the code reads
them. `PROJECT.json` gives for every definition the lines it models.

Definitions commented *Variant* are slips one could make in the code (a dropped
guard, a loop one short). The specifications do not use them; each shows
that some property notices the slip.

**OfflineQueue.** A frame is its first byte, which is all the queue looks at,
and the number of its arrival. The slots above `offline_queue_len` keep
what was shifted through them, as in the code. Eviction is the whole branch: search,
shift, and the new frame in the last slot.

**MessageSync.** The link is bounded in frames. The app is the one the protocol
suggests: it names its version, reads until `NO_MORE_MESSAGES`, rests until a
tickle, and asks again when an answer was lost. It may go at any time, which
empties the link both ways. `logRxRaw` stands for all the pushes that take room
on the link and mean nothing here.

**ExpectedAcks.** Hashes are chosen freely, so that two messages may expect the same
one (the hash is of text, time and attempt). The mesh may deliver any hash at
any time. The contact array is dense, as the saving loop presumes, so removing
a contact moves the later ones. An acknowledgement with hash 0 is left out.

**PendingRequests.** Five fields become one function from kinds to numbers. An answer to
a request that was sent may arrive at any later time and any number of times.
The tag of an answer is that of its request, except that a login answer starts
with the server's clock, which may show any value. A tag of 0 is left out.

**ContactStore.** A contact is its key, the number of the change it stems from and
whether it is transient. Saving is one step unless power fails, which leaves
a prefix of the file; a write may also fail. The counter wraps. That
`addContact` gives a transient contact no saved one's place is assumed.

**ContactSync.** A contact is its key, its time and the number of its change. The
iterator is an index into the array, and takes one step in a pass of the loop
without a command. The app asks for all contacts or for those after its time,
which it takes from the end of a listing it asked for in the same session. A
contact is *late* when it changes behind the iterator, moves there, or changes in
the second the app has as its time: the code cannot send it then, and
`MissedOnlyLate` shows that nothing else is missed. `_serial->isWriteBusy` only
delays the iterator.

**AdvertPaths.** The comparison of `sort_by_recent` is modelled with its cast from
a 32-bit unsigned difference to `int`; where the result is no order, `qsort` may
leave any.

**SignSession** keeps the buffer with whatever was allocated; `Signer` has only the
message. **Sending** models each branch of `handleCmdFrame` that puts a packet on
the air, with its refusals, the answers to requests, the node's adverts and the
relaying of floods; `Airwaves` says which packets the settings in force allow and
that the pool never runs dry by itself.

**Settings** keeps every field of `NodePrefs` that a command sets, in the order of
`NodePrefs::structure`, because a file that was cut is read up to the cut.
**NodeFiles** has the order of `setup`: identity, then channels, then the public
channel if it is not there. `formatFileSystem` combines the results of two operations, SPIFFS and
NVS or two file systems, and may say that it failed with the first one done: `FormatFails` erases
any of the files, after which the node runs on with what it has in RAM. Which files stand
behind RAM, since they were erased or a save failed, is the history `wiped`. **Migration** has one action for each file operation,
and power fails between any two.

**FieldElements**, **Scalars**, **Points**, **Keys**, **Digest.** The library's functions
translated as they are, with their literals as constants. Limb counts, fold factors,
signs, the order of carries, the signed digits and the tables are the code's; the radix, the
prime, the order, the curve and the block are small (see *Bounds*).

## Runs

| run | bounds | shows |
|---|---|---|
| `offline_queue` | 3 slots, 5 frames | order, accounting, eviction, refinement of `Inbox` |
| `message_sync` | 2 slots, 3 frames, link of 2, 2 sessions | no lost wake-up, order over sessions and losses, the queue is drained; the types of the queue with those of the link |
| `message_sync_versions` | 2 frames, 2 sessions | **violation**: frames are formatted when queued, for the app of that time |
| `expected_acks` | 2 entries, 4 sends, 2 hashes, counter modulo 3 | one confirmation per message, newest messages tracked, trip time |
| `expected_acks_pointer` | 2 contacts | **violation**: `processAck` returns a contact the message was not sent to |
| `pending_requests` | 2 peers, 3 requests, 2 clock values | only the newest request is awaited, answers by tag are its own |
| `pending_requests_login` | 2 requests | **violation**: an older answer passes for the login's |
| `contact_store` | 3 keys, table of 2, 4 changes, 1 failing save, counter modulo 7, delay 2 | no change without a save to come, reboot keeps contacts, the file catches up |
| `contact_store_power` | 2 changes | **violation**: power loss during a save loses contacts that were on flash |
| `app_commands` | listing: 3 keys, table of 2, 3 changes, 2 sessions; signing: 4 bytes; adverts: 4 nodes, 3 entries, clock of 6; sending: pool of 2, 2 kinds of telemetry, 1 scope | the app misses only late changes, no listing outlives its session and each ends; adverts newest first; refinement of `Signer` and `Airwaves` |
| `foundations` | 2 settings, 1 failing save; 3 file operations; 3 blobs in 2 records; 1 fault in the migration; 2 calls on numbers; 2 additions to a key; 14 bytes hashed | a restart keeps settings, identity and channels; a node repeats only where it may; blobs and migrated files; numbers, keys and digests are right |
| `migration_blobs` | no fault needed | **violation**: stored adverts are lost when a node gets a second file system |

### Bounds

Three slots are the least in which a frame can be
evicted from the front, the middle and the end, and five arrivals let evictions and
readings alternate; two ack entries and four sends wrap the index twice;
three requests have an answer two requests late; a table of two with three keys
overwrites; the delay plus the lag must be less than half the counter's period for
the comparison of wrapped times to mean anything, as 5 s is against 2^32 ms.
A listing needs two contacts to have one behind and one before the iterator, and
a second session to be left over to. A clock of 6 lets the four nodes be heard
within half its range and beyond it. Buffers of 4 bytes take parts that fit, fill
and overflow. Two packets are the fewest with which the pool is full, used and
empty. Settings are set to few values, but those at which `loadPrefs` and `begin`
act; the saved file is cut before, in and after the fields that depend on each
other. Two calls on field elements give operands that are sums, products and
negations, with uncarried limbs; from then on the reduced numbers are all that
a result depends on.

The constants of the library are literals in the code, and nothing in it but those
literals depends on them: a ten-limb number with radices 8 and 4 and fold 3 has the
carries, borrows and the two ways of writing a number near the modulus that radices 2^26
and 2^25 with fold 19 have, and far more often. The shifts of `fe_frombytes`, limb by limb, are
a constant too: 1, 2 and 4 in the run, where the code has 1 and 2^2 to 2^7. The same holds of the 21-bit
digits of a scalar, here base 4 with an order of 4^12 + 871, written as six
digits of either sign; of the curve, here -x^2 + y^2 = 1 + 3 x^2 y^2 modulo 53 with a point
of order 7, in which a sum meets doubling, the neutral element and a negative often; and of
blocks of 6 bytes in the digest. Not
covered by that: that 32- and 64-bit words are wide enough, which is a claim about the real
radices. `WordsAreWideEnough` proves it of `fe.c`.

The theorems below remove the bounds but for keys: what they state of the residues of limbs
holds for any even radix and any smaller fold; of how elements and scalars are written
for radices wide enough, among them those of the code; of exponents for any modulus; of the
digest for any block. The small radices of the run and the wide ones of the theorems
complement each other: the run has far more of the rare cases, the theorems have the code's
numbers.

A restart puts the queue, the acknowledgement table and the pending fields back
into their initial states; it is an action only in `ContactStore`, `Settings`,
`NodeFiles` and `Migration`, where something outlives it.

`CHECK_DEADLOCK FALSE` stands where a bound ends the behaviour: no frame is left to
arrive, no session to start, no command to give. `contact_store` and `pending_requests`
never stop.

### Fairness

Three runs have liveness. In `MessageSync` the node takes a command that is there
(the super-loop polls the link in every pass: `main.cpp` `loop`), and an app that
is connected goes on reading and asking. Radio traffic, connecting and disconnecting
are not fair. In `ContactStore` time passes and the super-loop comes round
(`LoopSave`); changes, reboots and power losses are not fair. In `app_commands`
only the iterator is fair: the super-loop comes round, and `checkSerialInterface`
takes a step of the listing whenever no command is there. `EventuallyDrained`
presumes that the link has room again and the last tickle got through:
without that the code leaves messages waiting until the next arrival.
`EventuallySaved` excepts a save that failed, or an expiry computed as 0, which
reads as "nothing to save". Both exceptions are the code's. `ListingEnds` needs no
exception: changes are bounded in the run, and each pass moves the iterator while
the array cannot grow past `MAX_CONTACTS`.

### What the violations say

1. `message_sync_versions`: `queueMessage` reads `app_target_ver` when a message
   arrives, and the queue outlives the session. The comments on the response
   codes (`MyMesh.cpp:83`, `94`) promise the format by the app's version.
2. `expected_acks_pointer`: the table keeps a pointer into the contact
   array (`MyMesh.cpp:1514`); after `CMD_REMOVE_CONTACT` it names another contact.
3. `pending_requests_login`: a login is matched by the peer's key prefix alone
   (`MyMesh.cpp:967`), so a late status answer is reported as a login outcome.
4. `contact_store_power`: `/contacts3` is truncated, then rewritten
   (`DataStore.cpp:427`), so power loss can lose what was saved before.
5. `migration_blobs`: `DataStore::begin` makes an empty `/adv_blobs` on the
   secondary before it migrates (`DataStore.cpp:81`), so the primary's is taken for
   migrated and removed, against the comment at `DataStore.cpp:551`.

## Proofs

TLAPS proves, for every value of the constants:

* **`MessageSyncProofs`: the queue** (every size of the queue, any number of arrivals). The
  inductive invariant `IInv` is `TypeOK`, `ArrivalOrder` and `NoneFromTheFuture`:
  nothing anywhere has a number above `arrived`. The last part is needed because
  otherwise a new frame might not be newer than those queued. Three lemmas say what
  an append, an eviction and a reading do to the slots and to the set of frames;
  the rest follows from them: types, order of reading, no direct message
  evicted, eviction by age, every frame accounted for once, and that the array
  implements `Inbox`. For the last, the number of slots in use equals the
  number of frames because their arrival numbers differ.
* **`MessageSyncProofs`: the whole** (any queue, link and number of sessions), on top of the
  queue's theorems. `SyncIInv` adds to the queue's invariant what is on the link:
  one question or one answer at most, which fits what the app waits for; the
  newest message the app got is older than an answer on its way and than all that is
  queued; and an answer `NO_MORE_MESSAGES` with messages waiting has a tickle
  behind it, or the tickle was lost. Without the one-question part, an old answer could
  meet a new question and the order could not be kept. Theorems: types, `NoLostWakeUp`,
  `AppReadsInOrder`, and that the whole system implements `Inbox`: all its steps are
  steps of the queue or leave it alone.
* **`ExpectedAcksProofs`** (any table, hashes, contacts, period of the counter). The
  invariant relates each entry that is armed to the message that armed it, and counts:
  entries armed for a hash and confirmations of it together never exceed the messages sent with
  it. From that follow one confirmation per message, although hashes repeat, and with the position
  of the newest messages round the index, that these are still tracked. The trip
  time follows from a lemma about remainders: the difference of two wrapped
  readings is the wrapped difference.
* **`PendingRequestsProofs`** (all peers, clocks, numbers of requests). The invariant adds to
  the properties `PushesPaidFor`: a kind has no more pushes than requests, and fewer while
  one is pending; without it a push could not be shown to be allowed. The
  heart is `PushIInv`: an answer matched by tag has the newest request's tag,
  because only the newest request's field is set.
* **`AppCommandsProofs`: the listing** (any size of the array, any changes, sessions, seconds).
  `ContactSyncIInv` adds to `MissedOnlyLate`: no key is twice in the array; a listing
  the app waits for runs and is of this session; the filter is no newer than
  the app's time; no time is ahead of the clock unless the app made it so; and the app
  holds what is before the iterator (`ListedHeld`). The last is what makes it safe
  for the app to adopt the newest time at the end. Theorems: types, `MissedOnlyLate`,
  `NoLeftovers`.
* **`AppCommandsProofs`: adverts heard** (any size of the table and range of the clock). Eviction
  takes the least time, which exists by well-founded induction; sorting is a permutation,
  which is onto because the table is finite. `HeardOnce` and `HeardBefore`
  are needed for `NewestHeardKept`. For `RecentFirst`, the cast leaves a difference
  within half the range what it is.
* **`AppCommandsProofs`: signing** (any buffer and parts): the buffer's first
  `sign_data_len` bytes are the abstract signer's message, step by step.
* **`AppCommandsProofs`: sending** (any pool, settings, contacts): `PoolKept`, and that every handler
  queues a packet that `Airwaves` allows at that moment, answers, or changes a setting.
* **`AppCommandsProofs`: all of them.** `MCAppCommands` exercises one of the four in a behaviour
  and leaves the others alone. `PartsRunAsByThemselves` shows that each part then runs as its own
  specification says, so that every theorem above holds in the composed run; from it
  follows `TypesOK` of the whole.
* **`ContactStoreProofs`** (any table, keys, delay, period of the counter, number of faults).
  `StoreIInv` is `TypeOK`, `UnsavedIsArmed`, and that no transient contact is in the file: without
  the last, loading could bring back what was never to be kept. The file is the table
  without transient contacts, in order; what that filter keeps, drops and bounds is proved by
  induction on its length. Theorems: types, `UnsavedIsArmed`, and `RebootKeepsContacts`, for which
  a reboot either saves first, because a save is armed, or needs not.
* **`StorageProofs`: settings** (any fields' values, requests, cuts of a file). `SettingsIInv`
  adds to `RepeatOnAllowedFreq` that RAM holds what `loadPrefs` accepts, that what the file
  *would* load may repeat too, and that a start from the file gives what was saved. The
  second is the heart. A cut file gives some fields of the saved settings and the
  defaults for the rest, so it must be shown for every cut; it holds because `disable_fwd`
  is behind the frequency it depends on in the file, and set by default: a cut before it leaves
  the node silent, a cut behind it leaves both as they were saved. The clamping in `begin` moves no
  frequency at which a node may repeat.
* **`StorageProofs`: identity and channels** (any slots, channels, failed writes, console lines).
  `FilesIInv` says that each file loads as what RAM holds, but for the files the history names:
  those whose save failed, and those erased, by a format that failed in part too (`FailedFormat`); and that the public channel, which `setup` adds when no slot has it, is
  the one difference allowed. `RestartKeepsNode` follows with the order of `setup`.
* **`StorageProofs`: blobs** (any keys, records, times). For the file of fixed records, `BlobIInv`
  needs three things beyond `BlobNewest`: no key in two records; no time ahead of the clock;
  and that a key without a record was last put no later than every record still there
  (`OldestGaveWay`), which survives a replacement because the oldest gives way.
* **`StorageProofs`: migration** (any faults). `MigrationIInv` says for each file how far it
  must be at each step, over restarts in the middle: not begun, copied in part,
  whole on both sides, or moved.
* **`StorageProofs`: all of them.** As for the commands, `StorageRunsAsByItself` takes the theorems to the
  run of the foundations, and `TypesOK` of the whole follows.
* **`LibraryProofs`: the digest** (blocks of any size, messages of any length cut anywhere).
  `DigestIInv` relates what was compressed, what is buffered and what is still to be added:
  joined, they are the message. The length counts whole blocks until the end, and less than a
  block is buffered when `sha512_update` returns. `DigestRight`
  then needs that both endings, one block or two, pad to the same rule.
* **`LibraryProofs`: exponents** (any modulus). `fe_invert` and `fe_pow22523` reach 2^255 - 21 and 2^252 - 3.
  The chain goes by a lemma about 2^a - 1: squared b times and multiplied by 2^b - 1, it is 2^(a+b) - 1.
* **`LibraryProofs`: residues of field elements** (any radix of the odd limbs that is even, any fold
  below it, any numbers read, any calls). `ElementsKeepTheirResidue`: ten limbs stand for the number
  modulo p they are meant to be. The proof follows one integer, `Value`, the sum of the limbs
  at their weights. `NumberOf`, which goes from limb to limb reducing, is that value modulo p. A carry of any size
  moves weight to the next limb and leaves the value, but for the last, which folds: it
  takes away a multiple of p; so any sequence of carries does, in whatever order (`CarriesAlike`).
  A product's hundred terms, added in diagonals, are the product of the
  two sums, because the factor 2 of two odd limbs and the fold beyond the tenth are
  what the product of two weights lacks (`WeightsMultiply`). A square takes each pair of limbs once,
  doubled: the same sum reordered. What is read telescopes: each limb has the number below its
  upper cut less that below its lower, for any shifts with which each cut divides the next one: the
  bytes are cut some bits above the places of most limbs.
* **`NumberProofs`: how elements are written** (any radix from 2^22, any fold up to 32, a factor
  of `fe_mul121666` of at most an eighth of the radix, shifts of at most a fortieth; the code's 2^25, 19,
  121666 and 2^7 among them).
  `ElementsAreWrittenRight`: `fe_tobytes` writes the one number below p that is meant, in digits that
  are each in range. A residue alone does not give that, because the quotient is
  estimated from the top. So `FieldSizes` stands beside the invariant of the residues: after d sums
  a limb is within 11/20 of d + 1 radices. It is inductive because every operation that
  grows limbs ends in carries, and twelve carries bring sums of ten products (`CarryProductSized`), ten
  carries the bytes read or a product with 121666 (`CarryOnceSized`), back below that bound,
  whatever the limbs carried before. From it follow the comment's precondition of `fe_tobytes`, that the
  lower nine limbs weigh little against the tenth, and from this that the estimate
  is exact.
* **`NumberProofs`: words** (the code's literals). `WordsAreWideEnough`: in no sequence of calls that
  the comments in `fe.c` allow does an `int32_t` or `int64_t` overflow. The words that matter are the
  operands multiplied by 2, 19 or 38 before the product, where a limb of three summands
  comes within 2 percent of 2^31; the ten products that are added, doubled by `fe_sq2`, with what is
  carried; and the first term of the estimated quotient.
* **`NumberProofs`: scalars** (any even radix from 2^20 and any six digits of at most half of it, the
  last negative; the code's 2^21 and its six among them). `ScalarsAreRight`: `sc_reduce` and `sc_muladd` leave
  the twelve digits of the number modulo the order, and no others. `ScalarIInv` says that the
  row of digits is one of a number below the order and that its worth, the digits at their
  weights, is the number meant. A fold moves a digit down by twelve places and takes the order
  away as many times as the digit says; a carry keeps the worth; so both keep what the
  number is modulo the order. That the digits are small is followed through the code: `Upper` and
  `Lower` each fold six digits and carry twice, which leaves small digits at fewer places
  (`FoldsAndPasses`). The first fold of `Canonical` then leaves a number between -2^252 and 2^252
  (`FoldedTwelve`), whose thirteenth digit after carries is 0, or -1 if it is negative (`SignOfRow`); so the
  second fold adds the order once to exactly the negative ones (`LastFold`).
* **`NumberProofs`: all of them.** `NumbersAreRight` takes these to the run of the foundations,
  and `NumbersOfTheCode` to the literals of the code, which are shown to leave the room that
  the theorems ask for (`FieldHasRoom`, `CodeHasRoom`). Those literals are hypotheses of the theorems, not
  assumptions of the modules, so that the small ones of the run satisfy the latter.

What a recursive function computes is proved without an induction rule that takes an operator: the
set of counterexamples, were it not empty, would have a least member (`LeastOf`, from the
well-foundedness of the order of the numbers), which is neither 0 nor a successor. The
function itself is a CHOOSE, so its existence is proved the same way first. The lemmas about
joined blocks, saved contacts, doublings, runs of numbers, folded carries and rows of digits are of this kind.

Assumptions are those the modules state: sizes are at least 1, null values are
none of the values they stand apart from, the contacts of `ExpectedAcks` are finite. `Settings`
assumes of its inputs what the code gives: the defaults are preferences with forwarding
off, an older firmware left a file whose repeater flag is legal, the frequencies at which a node
may repeat are among those that `CMD_SET_RADIO_PARAMS` accepts, and a cut is before the file's
end. `FieldElements` assumes that the radix of the
odd limbs is even and greater than the fold, as 2^25 is and 19, and that the cuts of the bytes divide
one another (`LoadAssumption`), as powers of two do; `Scalars` that its inputs are 32 bytes
and digests of 24 digits, the last of 29 bits. `Digest` assumes that the length has its place behind a non-empty part of the block. TLC evaluates
each assumption in the run of its module.

Only model-checked: all liveness (`EventuallyDrained`, `EventuallySaved`, `ListingEnds`), which
is out of the prover's reach together with `ENABLED`; and of the library `KeysRight`. `KeysRight` evaluates the addition law of a curve at given
literals: that the law is a group's is no statement about the code.
No module declares a RECURSIVE operator.

## Not modelled, and why

* `sha512_compress`: its rounds are the standard's, without a choice or a state
  between calls. `Digest` has everything round it.
* In the library also: word widths in `sc.c` (those of `fe.c` are proved, `WordsAreWideEnough`),
  whether the calls in `ge.c` stay within the sums that `fe.c` allows, timing independent of secrets, and `seed.c`,
  which reads a random device.
* Transmission delays and send timeouts (`calcRxDelay`, `calcFloodTimeoutMillisFor`, `getRetransmitDelay` and their like): single
  formulas of airtime and random numbers, without a state.
* `onRawDataRecv`, `onTraceRecv`, `onControlDataRecv`: each copies a packet into a frame.
* Reading a line in the CLI rescue console, `ls` and `cat`; battery, storage and statistics replies: they
  only print or format.
* The UI hooks have no implementation in this build; board and sensor objects are
  hardware.
* `setup` and `loop` are not a module: that one handler runs at a time is how every
  module takes its steps, and the order of `setup` is in `NodeFiles`, `Settings` and `Migration`.
  The one table of contacts is modelled three times, by what each of
  `ContactStore`, `ContactSync` and `ExpectedAcks` depends on: which changes are saved,
  which reach the app, which entry a pointer names. No handler makes one depend on another beyond that.
* Acknowledgements with hash 0 and tags of 0: the mesh of the models delivers only
  what was sent.
* `BaseChatMesh`, the BLE link, the file
  system and the clock are outside the repository and appear as far as the code relies on
  them; they are marked external in `PROJECT.json`.

## Plan

What would add most next:

1. The words of `sc.c`: that no sum of products of digits overflows 64 bits, from the bounds
   that `NumberProofs` has on digits.
2. The depth of sums in `ge.c`, call by call, so that `WordsAreWideEnough` covers points.
3. One contact table under `ContactStore`, `ContactSync` and `ExpectedAcks`.
