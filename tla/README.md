# A verification development of usbtoken-plugin

The repository is a browser plugin (`fumPlugin`, on FireBreath) through which a
web page uses a Novin USB token.  The plugin loads `libnovin.so`
(`token-DLL/lib`), which talks to the token in HID feature reports through a
private copy of hidapi (`hid-libusb.c`, on libusb) and does the RSA arithmetic
in OpenSSL with key material read out of the token.

This directory holds TLA+ modules translated from that code, TLC configurations
that check them on small instances, and TLAPS proofs for every instance.  Paths
below are relative to `src/`; `NL`, `NT`, `HL` and `FP` stand for
`token-DLL/lib/novinlib.c`, `token-DLL/lib/novintools.c`,
`token-DLL/lib/hid-libusb.c` and `fumPlugin/fumPluginAPI.cpp`.

## 1. The system

| component | source | state it keeps | operations |
|---|---|---|---|
| plugin object | `FP`, `fumPluginAPI.h` | per object: `dll_load_stat`, `token_handle`, `serial[4]` | constructor, destructor, `TkErr`, `serial`, `GetToken`, `GetDeviceCount`, `GetPublicKey`, `RsaEncrypt`, `RsaDecrypt`, `GetSignature`, `VerifySignature` |
| libnovin | `NL`, `NT` | `tk[8]` (serial, inUse, selected) and `LAST_ERR_NO`, globals of the library image | `get_first_device`, `get_curr_dev_serial`, `select_device`, `get_serial`, `get_device_count`, `get_device_status`, `rsa_encrypt`, `rsa_decrypt`, `get_signature`, `verify_signature`, `get_public_key`, `get_private_key`, `get_err_no` |
| packet cipher | `NT:124-249` | none; works in place in the packet | `_encrypt_packet`, `_decrypt_packet` |
| key buffers | `NT:251-389` | `result[128]` on the stack of `_get_public_key` and `_get_private_key` | receive, decrypt, move down, copy a part out |
| serial strings | `NT:40-77` | `ser[16]` on the stack | `_cnv_hex_to_decimal_serial` |
| texts of a page | `FP:214-401` | the buffers of one method, `bin_map` | `bin2hex`, `hex2bin` and the four RSA methods around them |
| key file | `NL:557-687` | `/tmp/public.txt` and `/tmp/private.txt`, one file each for every process of the machine | write the PEM, open again, measure, read, remove (the public one) |
| HID device | `HL` | per handle: list of input reports, `shutdown_thread`, mutex, condition, barrier, libusb transfer | `hid_open_path`, read thread, transfer callback, `hid_read(_timeout)`, feature reports, `hid_close` |
| HID enumeration, opening, packets | `HL`, `NT:251-317` | per process: `usb_context`, lists, the open handle; on the machine: the kernel's driver and the claim of each interface | `hid_init`, `hid_enumerate`, `hid_open`, `hid_send_feature_report`, `hid_get_feature_report`, `hid_close`, `hid_exit` |

### How the parts interact

* The **page** creates objects and calls their methods.  All calls come in on
  the browser's main thread, one at a time.  Every method first looks at `TkErr`:
  the load status of its own object, else `LAST_ERR_NO` of the library.
* All objects of one process `dlopen` the same file, so they **share one image**:
  one table and one `LAST_ERR_NO`, until the last handle is closed.
* A library function that exchanges packets calls `_send_packet` **once per
  packet**, and each packet enumerates the bus, opens the *first* token on it
  with `hid_open`, sends, reads the answer and closes.  A key is read in sixteen
  packets per routine.  A token may be plugged in or pulled out between any two.
* Every `hid_open` **starts a read thread** with an interrupt transfer; every
  `hid_close` stops and joins it.  libusb runs the transfer's callback in
  whichever thread handles events, which is the read thread or the thread inside a
  synchronous control transfer.
* `get_public_key` and `get_private_key` turn a key into text through a **file
  whose name is the same for every process**.
* Several **processes** (browsers) may load the library on one machine.  Nothing
  in the code locks a token between them; only the kernel's claim of an interface,
  taken in `hid_open_path` and given up in `hid_close`, keeps their packets apart.
* Errors travel as negative numbers from `_send_packet` to its callers, as
  positive ones in `LAST_ERR_NO`, and as `-1`, `0`, a pointer or the error itself
  in return values.

### What is hard about each part, and what makes it correct

| component | hard behaviour | what must hold |
|---|---|---|
| plugin object | objects created and destroyed over one shared image; load failures of one; tokens moving between the three calls of `GetToken` | library code runs only while loaded; an object's serial is the selected one's; an error stays; which answers can be taken for a result or a failure they are not |
| libnovin | the bus changes at every packet; one buffer serves two key parts with overlapping 18-byte windows; errors change sign on their way | one session at most; every block of a key used is where its request put it; the RSA functions want a status a *token* reported; packets are keyed by a selected entry; every call returns |
| packet cipher | an in-place loop that reads what it changes; hand-written index formulas | it computes its closed form; decryption undoes it; a key request is keyed by the whole serial |
| key buffers | windows of 18 bytes every 16 bytes, moved down by two; short answers are no error; the last window leaves the buffer | a part copied has every byte in its place; a byte that is not right is garbled and never a byte of another place |
| serial strings | no terminator; the loop tests one character too many; only eight digits count | the four bytes depend on the first eight characters only and tell two serials apart |
| texts of a page | NULs in messages, uninitialised table entries and buffers, odd or altered hexadecimal digits | what the plugin made converts back; a message comes back up to its first NUL; a signature binds its message |
| key file | several processes, kills in the middle, a full disk | an undisturbed export returns its own key whatever others left in the file; no public key is left behind |
| HID enumeration, opening, packets | any libusb call may fail, tokens and processes come and go between any two, two processes want one token | nothing is left held whichever way a call ends; an answer is to the own request, unless the claim was taken away; a packet fails only for a cause; calls come to an end |
| HID device | read thread, callback, readers and `hid_close` over one mutex and one condition; cancellation races | no sleeper missed by the last broadcast; the transfer outlives its users; the queue is a queue, and bounded; close and read return |

`PROJECT.json` lists every hazard at the line where it bites.

## 2. Plan

1. *(done)* `NovinLib`, the core: table, error number, packets, key reading;
   `NovinLibProofs`.
2. *(done)* `FumPlugin`, composed with `NovinLib` by extension: the objects over
   the shared image, implementing `TokenSession`; `FumPluginProofs`.
3. *(done)* `HidDevice`, implementing `ReportQueue`; `HidDeviceProofs`.
4. *(done)* `TempKeyFile` and `PacketCodec`, checked by TLC; the private key's
   file, which is written and never removed.
5. *(done)* the conversions of data: `HexText`, `SerialText` and `KeyBuffer`,
   the last one justifying `NovinLib!StoreChunk`; `MCConversions` checks them and
   `PacketCodec` together.
6. *(done)* one packet from the first libusb call to the last, among processes:
   `PacketExchange`, implementing `TokenServer`.
7. *(done)* `TempKeyFileProofs`, and `PacketExchangeProofs`, first up to the
   refinement of `TokenServer`, then `QuietScans` and `PacketOutcome`.
8. *(done)* the conversions, for data of any size: `KeyBufferProofs`,
   `PacketCodecProofs`, and `ConversionsProofs` for the two texts and for the
   four together.
9. *(done)* a measure that every step of a library call lowers, in place of
   liveness: `CallShrinks`.
10. *(next)* `NovinLib` over `PacketExchange`: one `Packet` of the library as the
   whole of one `_send_packet` there, for a single process; and measures like
   `CallShrinks` for `hid_close` and for a method of the plugin.

## 3. Modules

| module | models | lines of code |
|---|---|---|
| `NovinLib` | libnovin over a bus of tokens | `NL`, `NT:251-431` |
| `FumPlugin` | the plugin objects, extending `NovinLib` | `FP` |
| `TokenSession` | what plugin and library promise a page (abstract) | |
| `HidDevice` | an open device: threads, lock, transfer, close | `HL:644-1174` |
| `ReportQueue` | what a device promises its readers (abstract) | |
| `PacketExchange` | scans and packets of several processes at the level of libusb calls | `HL:406-592`, `HL:779-908`, `HL:1083-1174`, `NT:79-106`, `NT:251-317`, `NL:44-80`, `NL:173-200` |
| `TokenServer` | what the processes of a machine are promised about tokens (abstract) | |
| `TempKeyFile` | the files of `get_public_key` and `get_private_key` among processes | `NL:557-687` |
| `PacketCodec` | the packet cipher, loop by loop | `NT:124-249` |
| `KeyBuffer` | the bytes of `result[128]` while a key is read | `NT:202-342` |
| `SerialText` | `_cnv_hex_to_decimal_serial`, character by character | `NT:40-77` |
| `HexText` | the hexadecimal texts and C strings between page and library | `FP:214-401` |
| `MC*` | values of the constants for TLC | |
| `*Proofs` | theorems and their proofs | |

Definitions called `Fault_...` are plausible bugs in the code of the definition
they precede.  No specification uses them; each shows that some property
notices such a bug.  `PROJECT.json` says which one and which property, and maps
every definition to its lines.

### NovinLib

`tk`, `LAST_ERR_NO` are the library's globals under their own names.  `bus` is
what `hid_enumerate` would list now, in its order, and is the part outside
`src/`'s control: `Plug` puts a token at any place, `Unplug` takes any away, at
any moment.  A function that enumerates once is one action with the function's
name.  A function that exchanges packets starts with `Begin` and then takes one
`Step` per packet (`pc` says where it is):

    check -> status -> status2 -> key, key, ... -> rsa -> idle
             (status2 only for rsa_encrypt and rsa_decrypt, which ask twice)

`SendPacket(res)` is `_send_packet`: `-nErr_DNF` with no token, `-nErr_DNS` with
no selected entry, else whatever the first token on the bus answers (the set
`DevCodes` of errors, an I/O error, or success), and `sent` records who got the
packet and whose serial keyed it.  `GetDevStatusInternal` returns a token's status
word, or an error *negated once more*, which is what the code does; `stat.real`
remembers which of the two it was.  Key material is abstract: a block of the
buffer is the part of the key whose request filled it and whether the answer came
whole, or junk; an answer that came short is taken like a whole one, as in the code;
moving 18 bytes onto a block of 16 spoils the block after it.  `Reload` is the
last `dlclose` and next `dlopen`.

`GET_ACTIVE_TOKEN` without an active entry reads `tk[8]`, and `_send_packet` then
indexes `tk[-1]`: both are outside the table.  In the build made by the
repository's own scripts both places hold zeroes, and the model takes them as
zero.  `get_first_device` with more tokens on the bus than entries writes behind the
table: `overrun` records that, and what the stray bytes overwrite is not modelled.

### FumPlugin and TokenSession

One process with several objects.  `alive`, `users` (objects with a handle),
`dll` (`dll_load_stat`) and `serials` are the objects' members; `who`, `mpc` and
`method` say which method is running and where; `answer` is what it gave the
page.  `GetToken` is three library calls with tests between them, one action
each, because tokens may come and go between them; a method with packets
interleaves `LibraryStep`, which is `NovinLib`'s `Step`, and ends in
`LibraryReturned`, where the method looks at the result in its own way; the text
`RsaDecrypt` makes of a plaintext may be empty.  `GetDeviceCount` is one library
call under `who` like the others.
`Destroy` without a handle is `dlclose(NULL)`, and making a string of an
uninitialised pointer may kill the process: `crashed` is either value then.

`TokenSession` says what this amounts to: one selected token or none, dropped
before another is made, never lost to a failing call, and a first error that is
final until the library is unloaded.  The mapping is: `session` is the serial of
the active entry if it is selected, `error` is `LAST_ERR_NO`.

### HidDevice and ReportQueue

`app` follows the thread that opens, uses and closes the device, `rt` the read
thread line by line, `cb` and `cbBy` the callback and the thread that runs it,
`xfer` the transfer as libusb sees it, `rd` each reader inside
`hid_read_timeout`.  The mutex is not a variable: each critical section but one is
a single action guarded by `MutexFree`, and the one that spans two actions is a
reader between its test of the queue and `pthread_cond_wait` (`"sleep"`).  The
condition variable is the set of readers `"waiting"`; `Signal` wakes one,
`Broadcast` all, and `WakeUp` wakes one for no reason or at its timeout.

About libusb, modelled from how this code uses it:
`libusb_cancel_transfer` has an effect on a pending transfer only;
`libusb_handle_events` runs one callback or returns with nothing done (after 60
seconds) or fails for good, which `fatal` records; a control transfer handles events while
it lasts, 1000 ms at most.  About the caller: a device is closed only when no read
is in progress on it.  Nothing in `HL` enforces this, `hid_close` frees the mutex
under readers it has just woken; libnovin never reads input reports, so it
cannot break it.

`ReportQueue` is a bounded first-in first-out queue that drops its oldest report.
Its capacity is `QueueLimit + 2`, because the code counts the steps to the old end
of the list and cuts only beyond the limit.

### PacketExchange and TokenServer

Several processes, each inside at most one call of one of four functions
(`call`): the three that only enumerate (`get_first_device`,
`_check_dev_connected`, `get_device_count`) and `_send_packet`.  `pc` follows the
call through hidapi:

    init -> list -> describe ... -> convert ... -> returned        (a scan)
                                 -> open -> detach -> claim -> send -> get
                                 -> close -> exit -> returned      (a packet)

Every action with the name of a hidapi function is that function or the part of
it up to its next libusb call; each has its failing twin (`..Fails`), whose
outcome is what the code makes of the failure: a null list, a null handle, an
error number, or a crash (`OpenPathCrashes`, and `Convert` of a record whose
serial is null).  A device whose configuration cannot be read gets no record
(`Skip`).  `devs`, `infos` and `handle` are what the call has to give back:
libusb's list, its own list, the open device; `ctx` is `usb_context`.  `driver`,
`claim` and `heard` belong to the machine: the kernel's HID driver on an
interface, the process that has claimed it, and the process whose request the
token took last.  A request that timed out may have been taken or not
(`SendFails`).  The comment at `HL:516` says that detaching takes away another
application's claim, and `hid_open_path` detaches at `HL:818`: `Unclaim` is that step,
always possible where there is a claim.  The process it is taken from goes on; the
kernel claims the interface for its next transfer if it is free, and refuses the
transfer if it is not.  `Kill` ends a process anywhere, and the kernel closes what it had
open; the kernel's driver, once detached, does not come back before the token is
plugged in again.  `noise` and `stock` are history variables: what happened to a
call that it may fail from, and the bus when it began.

`NovinLib` takes a packet as one step with its outcome left open; here the
outcome is derived.  The other way round, what the library makes of the outcome is
left to `NovinLib`.  The threads and the transfer inside an open device are
`HidDevice`'s; here they are part of `Claim` (the read thread is started before
`hid_open` returns) and `hid_close` (it is joined).

`TokenServer` has four variables: whom each token serves, whose request it took
last, whose request each process was given the answer to, and the processes that
were robbed of their token in this call.  The mapping is `claim`, `heard`, `source`,
and the processes with `"stolen"` in `noise`.

### TempKeyFile

Each process is at one system call of the export (`pc`) of one kind of key
(`kind`), with its open stream (`fp`), its measured size and its text.  A file is
an inode with the units written to it, each by the process that wrote it; a name
is an inode or none, so that a removed file that is still open goes on existing.
Emptying by `fopen(.., "wr")`, writing from offset 0, and a null stream when the
name is gone are what the C library does.  Either `fopen` may also fail for want of
descriptors or because the file is another user's; nobody looks, and the process ends
(`OpenWriteFails`, `OpenReadFails`).  Each process has a text of its own length
(`PemLen`), since private keys of one size differ in theirs.  Only `get_public_key`
removes its file.
`Kill` ends a process anywhere; what it wrote stays.  `disturbed` and `left` are
history variables.

### PacketCodec

Both functions only exclusive-or whole bytes, so the bits of a byte never meet and
one bit of each of the 38 bytes is enough.  One action is one round of a loop.
`Echo` is not in the code: it hands the encrypted packet to `_decrypt_packet`, so
that one run can compare the two.

### KeyBuffer

`mem` is `result` and the bytes behind it; a byte is known by the place of the key
it belongs to and whether it is still encrypted.  One action is one answer:
`Received` at `result + 16 * key_index`, `Decrypted` there (a byte comes out right
if the bytes it takes in came with the same answer), `Moved` down by two.  The last
window and its `memmove` reach four bytes behind the buffer.  An answer may be
short: what the buffer held before stays for the rest, and is decrypted with it.
`StoresChunk` ties the module to `NovinLib!StoreChunk`: a whole answer completes one
block, a short one leaves it garbled, and either spoils at most the next block.

### SerialText

A character is its ASCII code, and one action is one round of the loop.  Behind the
string the buffer holds anything (`Leftovers`), because `wcstombs` is given the
length of the string and writes no terminator.

### HexText

A byte is a pair of nibbles and a character a nibble with its case, the NUL, or
another character.  RSA is ideal: a ciphertext stands for one plaintext and a
signature for one message.  `Buffer` is a string after `strcpy` into a buffer of
its length: up to its first NUL, and then what the buffer held before (zeroes for
`calloc`, anything for `new`).  `hex2bin` is a relation, because the table
`bin_map` has no entry for a character that is no digit.  A page hands back the
texts it was given, or those with a character added, dropped, replaced, or in
capitals.  After an error every method refuses; `Reload` is the page making new
objects.

## 4. What is checked

All runs are in `PROJECT.json`.  Sizes are distinct states.

| run | instance | shows |
|---|---|---|
| `novinlib` | 2 tokens, table of 2, 2 blocks per key part, 5 status words, short answers; 731 000 | types, `OneSession`, `KeyInPlace`, `RsaGate`, `HealthyToken`, `PacketKeyed`, `ReturnMatchesError`, and that every call returns |
| `plugin` | 2 objects, 2 tokens, 1 block per part; 1.2 million | `LoadedWhileUsed`, `SerialOfSelection`, `PageCanTell`, and that the whole implements `TokenSession` |
| `hid_device` | 2 readers, limit 1, 4 reports, fatal libusb errors; 313 000 | `ThreadScope`, `SleepersWoken`, that the whole implements `ReportQueue`; `CloseReturns`, `UnplugEndsReads` under fairness |
| `key_file` | 2 processes with texts of 1 and 3 units exporting either kind, 3 inodes, failures and kills; 101 000 | `AloneReadsOwn`, `NothingLeft` |
| `packet_exchange` | 2 processes, one with all four functions and one sending packets, 2 attachments, every failure, claims taken away; 3.3 million | `NothingHeld`, `PacketOutcome`, `QuietScans`, `CallAdvances`, and that the whole implements `TokenServer` |
| `conversions` | the four conversions side by side; 53 000 | `LoopEncrypts`, `RoundTrip`, `RequestKeyed`; `BytesInPlace`, `StoresChunk`; `FirstEight`; `UpToTheNul`, `SignatureBinds`; and in `ConversionsTypeOK` how far each reaches beyond its buffer |

`MCConversions` is a disjoint sum: the four modules share no state, `part` says
which of them a behaviour is of, and the others stay at one initial state.
Deadlock is checked in all runs but `conversions`, whose programs end.

### Bounds, and why they are enough

* *Two tokens*: one selected, one that is not, in both orders on the bus.  With
  three nothing new happens: the code looks at the first token on the bus, at the
  first entry of the table and at "some token with that serial".
* *Table of 2* (`MAX_TOKEN_SUPPORT` is 8): an entry that can be active and one that
  never is.  *Blocks of a key part, 2 or 1* (8): a first and a last block, and a
  block that spills into another.  The plugin run needs no spill and takes one.
* *Status words and codes*: a healthy RSA token, one without RSA, a suspended, a
  blocked and a disabled one; a code of `novin-error.h` and the largest code a byte
  holds.  The plugin run does not depend on the status and takes one word and one
  code.  *Lengths of an RSA result*: an empty plaintext, and one that is not.
* *QueueLimit 1* (30): the queue holds up to three reports, so four (`MaxReports`)
  fill it and overflow it.  The violation runs have five, and need fewer.  *Two readers* are
  what a lost signal needs.
* *Two processes and two attachments in `packet_exchange`*: a claim that another
  process holds, a token that serves one process while the other looks for one, a
  token that goes while another stays.  An attachment is new at each plug-in, and
  may come back once no list or handle names it.  One process calls everything and
  the other sends packets (`MCUses`), since two scans change nothing of each other's.
  Neither calls nor plug-ins are counted: the state space is finite without a bound.
* *Three blocks of a key part* (8): a first, an inner and a last window, and the
  spill of one into the next.  *Answers* of every kind of length: none, the report
  id only, cut inside and between the triples, whole.
* *Serial strings* of 0, 5, 7, 8, 9 and 16 characters with a wrong character
  at each place: below, at and beyond the eight that count, and as long as the
  buffer.  Longer strings leave `ser[16]`; the tokens' have eight.
* *Messages* with a NUL at no place, inside and at the end; *blobs* of two bytes,
  which differ in the last nibble.  Texts stay below the 1024 bytes of the buffers
  of `RsaEncrypt` and `RsaDecrypt`.
* *Two processes, texts of 1 and 3 units*: a race of two exports, and an undisturbed
  export after it; a shorter text written over a longer one and the other way round.
  *Three inodes*: two names, and a removed file that is still open.
* *39 packets*: encryption is affine in the packet, and the zero packet with the 38
  that have one bit set determine it.  The serial is not restricted.
* Symmetry over tokens and objects (`plugin`), attachments (`packet_exchange`) and inodes
  (`key_file`) is used in runs without liveness properties only.

For safety the bounds do not matter in the end: section 5 proves every safety
property of the runs for all values of them.

### Fairness, and why the code justifies it

`NovinLib!FairSpec`: weak fairness of `Step`.  A call runs on a thread that nothing
suspends for good, each transfer ends after 1000 ms at the latest (`HL:1093`,
`HL:1125`), and no loop waits for a token.  Nothing makes the page call or anyone
plug a token in.

`HidDevice!FairSpec`: weak fairness of the callback, the read thread, the barrier,
the end of a control transfer, the steps of `hid_close`, and each reader with the
mutex within its reach.  Not of spurious wake-ups, of the device, or of the
callers.  The read thread's loop is driven by `libusb_handle_events`, which returns
within 60 seconds.

### Where the code differs from what it says

Each is a run of its own that TLC must find violated, and a finding in
`PROJECT.json`.

| run | what happens |
|---|---|
| `status_from_token` | `_get_dev_status_internal` negates an already negative error (`NT:405`): an I/O error comes back as 3, passes for a status word without flags, and `get_device_status` reports success.  The comment above (`NT:402`) wants the opposite |
| `packet_to_selected` | a packet is encrypted for the selected token and sent to the first on the bus (`NT:262`) |
| `public_key_returns` | on any error `get_public_key` returns an uninitialised pointer, and `GetPublicKey` makes a string of it (`NL:573`, `FP:211`) |
| `hid_lost_wakeup` | only the report that finds the queue empty signals, and it wakes one reader: with two readers, two reports can leave one of them asleep over the second (`HL:660`), against `hidapi.h:248` |
| `hid_freed_after_use` | `hid_close` and the read thread both cancel the transfer; only the one who finds it pending makes the thread wait for the completion, so the transfer may be freed while libusb owns it (`HL:753`, against the comment at `HL:770`) |
| `key_file_race` | two exports at once may swap keys, return an empty text, or crash (`NL:589`) |

Further disagreements and surprises have no run: after a fatal error of libusb a reader
may block for good although the thread has ended, since the thread leaves its loop
without setting `shutdown_thread` (`HL:746`; `SleepersWoken` leaves it out by `fatal`);
a process whose claim another's detaching took (`HL:516`, `HL:818`) is not told and can
take the answer to the other's request for its own (`PacketOutcome` and `TokenServer`
say so of a robbed process); a key whose answers came short is used, garbled
(`NT:285`); with more tokens than entries
`get_first_device` writes past its table (`NL:65`); the first submission's failure
is not looked at (`HL:728`); the list is cut at 32 reports and not at 30
(`HL:675`); a full disk makes `get_public_key` return an empty key without an error
(`NL:595`); an invalid key type makes `rsa_encrypt` return -1 and not
`nErr_INVKT`; after any error `GetToken` refuses too, so a page can recover only by
dropping its objects (`FP:171`); the `serial` property outlives the selection
(`FP:192`), where `deprecated/pluginManuall.txt:51` promises `0.0.0.0`; and a message with a NUL
is signed with whatever the heap held in the rest of its buffer, so its signature may
not verify (`FP:298`).

## 5. What is proved

TLAPS proves the following for every value of the constants that satisfies the
assumptions stated with them (`DevicesAssumption`, `SizeAssumption`,
`ReplyAssumption`, `InstancesAssumption`, `GarbageAssumption`,
`QueueLimitAssumption`, `MaxReportsAssumption`,
`PemLenAssumption`, `FailuresAssumption`, `UsesAssumption`, `FailuresKnown`,
`KeyBlocksAssumption`, `AnswerLensAssumption`,
`PacketsAssumption`, `TextsAssumption`, `LeftoversAssumption`, `MessagesAssumption`,
`BlobsAssumption`, `EditsAssumption`, `HeapBytesAssumption`, `MaxLoadsAssumption`),
that is for any number of tokens, entries, blocks, objects, readers, reports,
processes and inodes, and for packets, strings, messages and blobs of any value and,
where the code has no limit, of any length.  TLC evaluates these assumptions in the
runs.

**`NovinLibProofs`**

| theorem | property | argument |
|---|---|---|
| `TypeCorrect`, `OneSessionHolds` | `TypeOK`, `OneSession` | `TableInv`: types, `OneSession`, and that a loop index is a block of the buffer.  Errors keep their sign because every caller negates exactly what `_send_packet` negated |
| `KeyIsInPlace` | `KeyInPlace` | `KeyInv`: while a part is read, the blocks before `key_index` are of that part (`Prefix`), the spill reaches the next block only, and the last block has none; the parts copied before stay.  What a call still needs is tied to `routine` and `kt` (`Reading`) |
| `RsaGateHolds` | `RsaGate` | the status acted upon is real or an error; that no error has the bit of `CS_RSA1024` is arithmetic on the error numbers, with device codes below 256 |
| `HealthyTokenHolds` | `HealthyToken` | `HealthInv`: when the key is read the status stored has none of the three bits, a real one or an error alike, because it passed `StatusError` |
| `PacketKeyedHolds` | `PacketKeyed` | from `OneSession` and the guard of `_send_packet`; the entry stays until the next call, which forgets the packet |
| `ReturnMatches` | `ReturnMatchesError` | every way a call ends, function by function |
| `CallShrinksHolds` | `CallShrinks` | `StepsLeft`, at most `4 * KeyChunks + 4`: the points of a call in their order, and at the key the blocks still to read of this part, the exponent and the private routine (`BlocksLeft`).  Every step lowers it, a token that comes or goes leaves it alone |

**`FumPluginProofs`** builds on these.  `PluginIsACaller` shows that the plugin's
behaviours are behaviours of `NovinLib`, so that all of the above holds under the
plugin.  The inductive invariant is `PluginInv`: `TableInv`, the types, `Running`
(what is known at each point of a method: outside library calls the library is
idle, within `GetToken` there is no error, the first entry is in use and not yet
selected, and from the second call on the object's serial is that entry's),
`Loaded` (an object without load error holds a handle) and `SerialOfSelection`.

| theorem | property |
|---|---|
| `PluginTypeCorrect`, `LoadedWhileUsedHolds`, `SerialOfSelectionHolds` | `PluginTypeOK`, `LoadedWhileUsed`, `SerialOfSelection` |
| `ErrorLatchesHolds` | `ErrorLatches`: no step but an unload takes an error away, since a method enters the library only without one |
| `PageCanTellHolds` | `PageCanTell`, with `AnswerInv` and `ReturnMatches` |
| `SessionIsImplemented` | `ImplementsSession`: every step is a `TokenSession` step or stutters |

`SerialOfSelection` needs `Running`: that `select_device` marks an entry without
comparing serials is harmless only because nothing writes the table between the
calls of one `GetToken`.

**`HidDeviceProofs`**

| theorem | property | argument |
|---|---|---|
| `HidTypeCorrect`, `QueueStaysBounded` | `HidTypeOK`, `QueueBound` | `QueueInv`; the list grows by one only below the limit |
| `ThreadScopeHolds` | `ThreadScope` | `ScopeInv`: a callback's thread is alive as long as the callback is, and readers are in an open device only |
| `SleepersAreWoken` | `SleepersWoken` | `WakeInv`: the thread leaves its loop only with `shutdown_thread` set, which stays, or with `fatal`; after that no reader goes to sleep that the broadcast has not seen |
| `QueueIsImplemented` | `ImplementsQueue` | `CountInv`: reports queued are those sent, but for one completion not yet delivered; so the number queued next is the next number |

**`TempKeyFileProofs`**

| theorem | property | argument |
|---|---|---|
| `TempTypeCorrect`, `AloneReadsOwnHolds`, `NothingLeftHolds` | `TempTypeOK`, `AloneReadsOwn`, `NothingLeft` | `TempInv`: an open stream is tied to the step its process is at (`Streams`); the two names never share an inode, and no process has the other kind's file open (`Separate`); two processes in the same function are both disturbed (`Alone`); and one that is not disturbed has its own file as far written as it has got (`Own`, `Progress`) |

**`PacketExchangeProofs`**

| theorem | property | argument |
|---|---|---|
| `ExchangeTypeCorrect` | `ExchangeTypeOK` | one step per action; a step of one process leaves the others' variables alone (`OthersKept`) |
| `NothingHeldHolds` | `NothingHeld` | `HoldInv`: what a call holds at each of its points (`Held`), and that a process with a claim has that token open (`Claims`) |
| `CallAdvancesHolds` | `CallAdvances` | action by action, from the types |
| `ServerIsImplemented` | `ImplementsServer` | `ServeInv` adds `Serving` (a token with a driver is claimed by nobody; a process that is about to send to a plugged token or to read from it has the claim, and in the second case the token took its request last, or it was robbed) and `Answers` to `HoldInv`.  `ReachIsServing` takes a transfer to `Serving` of the abstract module |
| `QuietScansHolds` | `QuietScans` | `QuietInv` adds to `HoldInv`: a call that no unplugging and no failure has met has what was on the bus on its lists, and all of it is still there (`Seen`); a serial number is null for a cause (`Unread`); and what the call ended with (`Ended`) |
| `PacketOutcomeHolds` | `PacketOutcome` | That a packet not robbed takes its own answer is in `ServeInv`; that it does not fail without a cause needs `Alone` of `QuietInv`: with `noise` empty no other process is sending, so with `Claims` nobody has the interface and neither open nor claim fails |

**`KeyBufferProofs`**, for any number of blocks and any lengths of answers.  The
inductive invariant is `KeyInv`: `Prefix` (what lies below the current window is in
its place, or garbled after a short answer) and `Ahead` (but for the two bytes the
last move spilled, no byte above it can be taken for one of another place).  `Ahead`
is needed because decryption takes in the byte above: a window is read into bytes
that earlier windows, or the part before, have left.

| theorem | property | argument |
|---|---|---|
| `KeyTypeCorrect` | `KeyTypeOK` | window by window; the last one ends four bytes behind the buffer |
| `BytesInPlaceHolds` | `BytesInPlace` | at the copy the window has reached the end, so `Prefix` covers the part; a spilled byte is never right where it lands, since its place differs by two modulo 16 (`SpilledIsWrong`) |
| `StoresChunkHolds` | `StoresChunk` | from `KeyInv`, block by block (`BlocksChange`); that a short answer leaves no whole block where it went is `ShortIsGarbled` |

**`PacketCodecProofs`**, for all packets and serials.  `CodecInv` gives the buffer in
the middle of each loop: blocks below `i` are done, those from `i` on are not
(`Encrypting`, `Decrypting`).  `EncryptBlockIs` and `DecryptBlockIs` say what a round
does to its three bytes although it works in place; `KeyBytes` evaluates the twelve
index formulas.

| theorem | property | argument |
|---|---|---|
| `CodecTypeCorrect` | `CodecTypeOK` | every `KeyByte` is in `0 .. 3` |
| `LoopEncryptsHolds`, `RoundTripHolds` | `LoopEncrypts`, `RoundTrip` | `CodecInv` at the ends of the loops |
| `RequestKeyedHolds` | `RequestKeyed` | the eight blocks of a key request that are on the wire use all four bytes of the serial, each alone in its byte |

**`ConversionsProofs`**, for `SerialText`, for `HexText`, and for the composition that
the run `conversions` checks.

| theorem | property | argument |
|---|---|---|
| `SerialTypeCorrect`, `FirstEightHolds` | `SerialTypeOK`, `FirstEight` | `SerialInv`: below `pos` are values of digits, above it the characters, and the loop stops at the first that is no digit |
| `UpToTheNulHolds`, `SignatureBindsHolds`, `TextTypeCorrect` | `UpToTheNul`, `SignatureBinds`, `TextTypeOK` | `TextInv`: every record was made by the library (`Made`), and the last answer is about one of them.  A buffer ends where its string ends (`BufferIs`) and is the string if that has no NUL (`BufferWhole`), so equal buffers of strings without NUL are equal strings; a text converts to the bytes of its digits and no others (`Hex2binExact`) |
| `FourTogether` | | a behaviour of the composition is one of each of the four |
| `ConversionsTypeCorrect` | `ConversionsTypeOK` | from `FourTogether` and the four type invariants |

`ErrorLatches`, `QueueBound` and `CallShrinks` are proved and in no run:
TLC checks the first two as part of `ImplementsSession` and `ImplementsQueue`, and the
last one with fairness as `CallReturns`.  The four
type invariants of the conversions are checked as `ConversionsTypeOK`.

The proofs use step-wise case splits on the actions.  Recursion and induction over
data do not occur: the invariant of a loop speaks of all its bytes at once, and where
the first NUL of a string is needed it is the least element of a set of naturals, which
is well-founded (`MinimumIs`).

**Only model-checked.**  The liveness properties `CallReturns`, `CloseReturns` and
`UnplugEndsReads`: TLAPS has no rules here for fairness and `ENABLED`.  For the calls
of the library and for packets the part that is safety is proved: `CallShrinks` and
`CallAdvances` say that no step leads back.  Of the runs' other properties each is
stated by a theorem.

## 6. What is not modelled, and why

* RSA itself, PEM text, random padding: OpenSSL's.  An operation succeeds with a
  length or fails.
* What a token does: its answers are left open.
* Which token answered a block of a key, beyond the first of `packet_to_selected`, and
  what the use of a garbled or mixed key leads to: the code looks at neither.
* Memory outside the table: taken as zero when read, and what stray entries overwrite is
  left out.
* `hid_write`, the string functions of hidapi and its language table, which libnovin
  does not call; path names, and the text of string descriptors.
* The terminator that `strcpy` writes one byte behind a text's buffer (`FP:298`): what
  it hits depends on the allocator.  The buffer `GetSignature` does not free
  (`FP:306`).  Texts of 1024 characters or more, and serial strings longer than 16.
* `testString`, `version` and `echo` of the object, the plugin class and its
  factory: no token state.
* FireBreath (with boost) and `hidapi-master`: vendored.  They are nearly all of the
  repository's lines; the program's own code is the plugin, libnovin, and `HL`, the
  copy of hidapi that is built.
* Sample programs, packaging, udev rules and build scripts: the samples' call orders
  are among those `NovinLib` allows; the rest does not run with the program.
