--------------------------- MODULE AnchorLoading ----------------------------
(***************************************************************************)
(* How trust anchors get into a store (the loading part of trust/store.rs) *)
(* and into the set of stores (trust/store_set.rs), while the directory    *)
(* they come from is being edited.  A file is readable or not, and its     *)
(* bytes are PEM from its first byte ("pem"), PEM after some text          *)
(* ("commented") or no text at all ("der"), and the blocks in it:          *)
(*   certificate   one that decodes                                        *)
(*   corrupt       one that does not; also two that lack the marker        *)
(*                 between them                                            *)
(*   cut           the last one, without its END marker                    *)
(*   other         a block with another label                              *)
(***************************************************************************)
EXTENDS PathValidation, FiniteSetsExt

CONSTANTS
    Files,          \* names of the directory, in the order they sort
    Extension(_),   \* of a file
    Versions(_),    \* of a file: what it may be at some time
    Missing,        \* no such file
    StoreKind,      \* which store of the set
    NoStore,        \* a store that is not configured
    Directories,    \* what the directory is at first
    Chains,         \* chains someone may ask the stores about
    MaxEdits,       \* bound: edits of the directory
    MaxLoads        \* bound: loads and additions

ASSUME LoadingAssumption == MaxEdits \in Nat /\ MaxLoads \in Nat

FileNames == {Files[i] : i \in 1 .. Len(Files)}
PemBlock == [what: {"certificate", "corrupt", "cut", "other"}, cert: Certs]

\* What a file may be: its blocks, of which only the last may lack its end.
IsFile(v) ==
    LET bs == v.bytes.blocks IN
    v = Missing \/ (bs \in Seq(PemBlock) /\ \A i \in 1 .. Len(bs) - 1 : bs[i].what # "cut")

ASSUME FilesAssumption ==
    /\ Files \in Seq(FileNames)
    /\ \A d \in Directories :
         d = [f \in FileNames |-> d[f]] /\ \A f \in FileNames : IsFile(d[f])
    /\ \A f \in FileNames : \A v \in Versions(f) : IsFile(v)
ASSUME ChainsAssumption == Chains \subseteq Seq(Certs)

VARIABLES
    dir,        \* the directory
    stores,     \* the set of stores
    load,       \* the directory load under way, or the last one
    edits, loads

vars == <<dir, stores, load, edits, loads>>

-----------------------------------------------------------------------------
(* One file.                                                               *)

\* The elements of s that are in S, in their order.
Only(s, S) ==
    LET kept[n \in 0 .. Len(s)] ==
            IF n = 0 THEN <<>>
            ELSE IF s[n] \in S THEN Append(kept[n - 1], s[n]) ELSE kept[n - 1]
    IN  kept[Len(s)]

\* The certificates at some positions of the blocks.
CertsOf(blocks, S) ==
    LET at == Only([i \in 1 .. Len(blocks) |-> i], S)
    IN  [k \in 1 .. Len(at) |-> blocks[at[k]].cert]

\* add_pem_data: certificates go in one by one up to a block that does not
\* decode, which is an error, or to one that does not end, which is not; none
\* at all is an error.  Bytes that are no text hold no block.
AddPemData(b) ==
    LET found == {i \in 1 .. Len(b.blocks) : b.form # "der" /\ b.blocks[i].what # "other"}
        bad == {i \in found : b.blocks[i].what # "certificate"}
        good == {i \in found : bad # {} => i < Min(bad)}
    IN  [added |-> CertsOf(b.blocks, good),
         ok |-> good # {} /\ (bad # {} => b.blocks[Min(bad)].what = "cut")]

\* add_der_certificate.
AddDerCertificate(b) ==
    LET ok == b.form = "der" /\ Len(b.blocks) = 1 /\ b.blocks[1].what = "certificate"
    IN  [added |-> IF ok THEN <<b.blocks[1].cert>> ELSE <<>>, ok |-> ok]

\* add_anchor_file_data: PEM has to begin with its armor.
AddAnchorFileData(b) == IF b.form = "pem" THEN AddPemData(b) ELSE AddDerCertificate(b)

IsCandidate(f) == Extension(f) \in {"pem", "crt", "cer"}

-----------------------------------------------------------------------------
Init ==
    /\ dir \in Directories
    /\ stores = [k \in StoreKind |-> NoStore]
    /\ load = [mode |-> "none", at |-> "done", ok |-> FALSE]
    /\ edits = 0 /\ loads = 0

\* Somebody replaces, truncates, creates or deletes a file.
Edit ==
    /\ edits < MaxEdits /\ edits' = edits + 1
    /\ \E f \in FileNames : \E v \in Versions(f) : dir' = [dir EXCEPT ![f] = v]
    /\ UNCHANGED <<stores, load, loads>>

Busy == load.at = "reading"

\* Mutant: entries that cannot be listed are passed over.
ListingFails_PassedOver(mode, complete) == mode \notin {"strict", "lenient"} /\ ~complete

\* from_pem_directory collects the entries into one Result.
ListingFails(mode, complete) == mode = "strict" /\ ~complete

\* from_pem_directory and from_pem_directory_lenient list the directory; an
\* entry may be unreadable, which ends the one and is reported by the other.
ListDirectory(kind, mode) ==
    /\ ~Busy /\ loads < MaxLoads /\ loads' = loads + 1
    /\ \E hidden \in {{}} \cup {{f} : f \in FileNames} :
         LET listed == {f \in FileNames : dir[f] # Missing}
             complete == listed \cap hidden = {}
         IN  load' = [mode |-> mode, kind |-> kind, ok |-> FALSE,
                      at |-> IF ListingFails(mode, complete) THEN "done" ELSE "reading",
                      entries |-> Only(Files, listed \ hidden), store |-> <<>>,
                      skipped |-> IF complete THEN {} ELSE {"directory"},
                      listing |-> listed, hidden |-> listed \cap hidden,
                      read |-> [f \in {} |-> Missing]]
    /\ UNCHANGED <<dir, stores, edits>>

\* Mutant: only a file that does not parse is reported.
Skip_ParseErrors(f) == IF dir[f] # Missing /\ dir[f].readable THEN {f} ELSE {}

\* What is reported of a file that could not be read or parsed.
Skip(f) == {f}

\* What comes of reading a file now.
FileResult(f) ==
    IF dir[f] # Missing /\ dir[f].readable THEN AddAnchorFileData(dir[f].bytes)
    ELSE [added |-> <<>>, ok |-> FALSE]

\* The next entry, as the file is now.
ReadEntry ==
    /\ Busy /\ load.entries # <<>>
    /\ LET f == Head(load.entries)
           result == FileResult(f)
           failed(mode) == load.mode = mode /\ ~result.ok
       IN  \/ ~IsCandidate(f) /\ load' = [load EXCEPT !.entries = Tail(@)]
           \/ /\ IsCandidate(f)
              /\ load' = [load EXCEPT
                            !.entries = Tail(@), !.store = @ \o result.added,
                            !.read = [g \in DOMAIN @ \cup {f} |->
                                         IF g = f THEN dir[f] ELSE @[g]],
                            !.at = IF failed("strict") THEN "done" ELSE @,
                            !.skipped = @ \cup IF failed("lenient") THEN Skip(f) ELSE {}]
    /\ UNCHANGED <<dir, stores, edits, loads>>

\* The loaded store goes into the set (with_sig_store, set ...), in place of
\* the one there.
Finish ==
    /\ Busy /\ load.entries = <<>>
    /\ load' = [load EXCEPT !.at = "done", !.ok = TRUE]
    /\ stores' = [stores EXCEPT ![load.kind] = load.store]
    /\ UNCHANGED <<dir, edits, loads>>

\* from_pem_file: a store of its own, or an error.
FromPemFile(kind) ==
    /\ ~Busy /\ loads < MaxLoads /\ loads' = loads + 1
    /\ \E name \in FileNames :
         LET f == dir[name] IN
         /\ f # Missing /\ f.readable /\ AddPemData(f.bytes).ok
         /\ stores' = [stores EXCEPT ![kind] = AddPemData(f.bytes).added]
    /\ load' = [mode |-> "none", at |-> "done", ok |-> TRUE]
    /\ UNCHANGED <<dir, edits>>

\* Mutant: an anchor of the same name gives way.
Plus_ReplacesNamesake(store, added) ==
    Only(store, {a \in Certs : \A i \in 1 .. Len(added) : added[i].subject # a.subject})
      \o added

Plus(store, added) == store \o added

\* add_pem_data of a configured store (get_mut): what was added before an
\* error stays.
AddPem(kind) ==
    /\ ~Busy /\ loads < MaxLoads /\ loads' = loads + 1
    /\ stores[kind] # NoStore
    /\ \E name \in FileNames :
         LET f == dir[name] IN
         /\ f # Missing /\ f.readable
         /\ stores' = [stores EXCEPT ![kind] = Plus(@, AddPemData(f.bytes).added)]
         /\ load' = [mode |-> "add", at |-> "done", ok |-> AddPemData(f.bytes).ok]
    /\ UNCHANGED <<dir, edits>>

\* add_certificate of a configured store.
AddCertificate(kind) ==
    /\ ~Busy /\ loads < MaxLoads /\ loads' = loads + 1
    /\ stores[kind] # NoStore
    /\ \E c \in Certs : stores' = [stores EXCEPT ![kind] = Plus(@, <<c>>)]
    /\ load' = [mode |-> "add", at |-> "done", ok |-> TRUE]
    /\ UNCHANGED <<dir, edits>>

Next ==
    \/ Edit \/ ReadEntry \/ Finish
    \/ \E kind \in StoreKind :
         \/ \E mode \in {"strict", "lenient"} : ListDirectory(kind, mode)
         \/ FromPemFile(kind) \/ AddPem(kind) \/ AddCertificate(kind)

Spec == Init /\ [][Next]_vars

-----------------------------------------------------------------------------
(* Properties.                                                             *)

Loaded == load.mode \in {"strict", "lenient"} /\ load.ok

\* Every block that has its END marker and begins a certificate decodes and
\* is in the store.
EndedBlocksIn(b, store) ==
    \A i \in 1 .. Len(b.blocks) :
        /\ b.blocks[i].what # "corrupt"
        /\ b.blocks[i].what = "certificate" => IsIn(b.blocks[i].cert, store)

\* A file that was read and parsed, and what of it then is in the store.
Taken(f) ==
    /\ f \in DOMAIN load.read
    /\ load.read[f] # Missing /\ load.read[f].readable
    /\ EndedBlocksIn(load.read[f].bytes, load.store)

\* A directory that loads without an error has given every certificate of
\* every candidate, each as it was read, except a last one without its END
\* marker (store.rs, from_pem_directory): an edit during the load makes it
\* fail or is seen.  That exception is the break in add_pem_data, and
\* NothingDroppedSilently is about it.
StrictLosesOnlyCut ==
    Loaded /\ load.mode = "strict" =>
        \A f \in load.listing : Taken(f) \/ ~IsCandidate(f)

\* A lenient load accounts for every file it found, with the same exception:
\* its certificates are in the store, or it is reported by its name, or its
\* entry is the one that could not be listed and the directory is reported
\* (store.rs, from_pem_directory_lenient).
LenientAccounts ==
    Loaded /\ load.mode = "lenient" =>
        \A f \in load.listing :
            \/ Taken(f) \/ ~IsCandidate(f)
            \/ f \in load.skipped
            \/ f \in load.hidden /\ "directory" \in load.skipped

\* What the comments on the two functions promise: loading fails closed on
\* any parse error, and a file left out is not silently dropped.  So when no
\* error and no skipped file is returned, every certificate that a file read
\* begins is in the store.  One cut off before its END marker is not.
NothingDroppedSilently ==
    Loaded /\ load.skipped = {} =>
        \A f \in DOMAIN load.read :
            LET bs == load.read[f].bytes.blocks IN
            \A i \in 1 .. Len(bs) : bs[i].what # "other" => IsIn(bs[i].cert, load.store)

\* Adding anchors, also by a call that fails half way, takes no verdict back:
\* a chain that verified still does (store.rs, add_pem_data and
\* add_certificate).  It is not said of chains that end in a self-issued
\* certificate signed with another key: if that certificate is what is added,
\* it is judged by its own signature from then on, and the chain fails.
AddingKeepsVerdicts ==
    [][loads' # loads /\ load'.mode = "add" =>
         \A k \in StoreKind, c \in Chains :
            /\ stores[k] # NoStore /\ Verifiable(c, stores[k], NoTime, FALSE, AnyPurpose)
            /\ IsSelfIssued(LastOf(c)) => SignedBy(LastOf(c), LastOf(c))
            => Verifiable(c, stores'[k], NoTime, FALSE, AnyPurpose)]_vars
=============================================================================
