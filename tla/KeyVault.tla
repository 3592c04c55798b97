------------------------------- MODULE KeyVault -------------------------------
(***************************************************************************)
(* Identity.create and Identity.load of src/python/src/agentic_identity/   *)
(* __init__.py over the encrypted identity containers on disk, with the    *)
(* mapping of the library's return codes to Python exceptions by `_check`  *)
(* (_ffi.py) and the exception hierarchy of errors.py.                     *)
(*                                                                         *)
(* The container format and the outcome of the native create and load are *)
(* in the Rust core, which is not under src/: they are modelled from       *)
(* spec.md 4.2 and 7 (marked spec-modelled in PROJECT.json).  Key material *)
(* is abstracted to the identity id and the passphrase that seals it; the  *)
(* anchor a load returns is the subject of module IdentityHandle.          *)
(***************************************************************************)
EXTENDS Integers

CONSTANTS
    Paths,        \* filesystem paths handed to create and load
    Writable,     \* the paths the process may write
    Passphrases,  \* passphrases callers use
    Ids,          \* identity ids the native create may mint
    Absent,       \* no file at a path
    NoId          \* no identity id (a call that raised)

(* Return codes, _ffi.py: AID_OK and the AID_ERR_* constants.              *)
AID_OK == 0
AID_ERR_NULL_PTR == -1
AID_ERR_INVALID_UTF8 == -2
AID_ERR_CRYPTO == -3
AID_ERR_IO == -4
AID_ERR_SERIALIZATION == -5

(* errors.py: the base class of each exception class of the package, and  *)
(* AgenticIdentityError of _ffi.py, which derives from Exception alone.    *)
Bases == [AidError              |-> "Exception",
          IdentityNotFoundError |-> "AidError",
          CryptoError           |-> "AidError",
          PassphraseError       |-> "AidError",
          LibraryNotFoundError  |-> "AidError",
          SerializationError    |-> "AidError",
          ValidationError       |-> "AidError",
          AgenticIdentityError  |-> "Exception"]

(* isinstance over that two-level hierarchy.                               *)
IsInstance(cls, base) ==
    \/ cls = base
    \/ Bases[cls] = base
    \/ Bases[cls] # "Exception" /\ Bases[Bases[cls]] = base

(* A container: the identity sealed in it, the passphrase its key was      *)
(* derived from, and whether its bytes are as written, bit-flipped in the  *)
(* ciphertext, or broken in their structure.                               *)
Containers == [id : Ids, pass : Passphrases, form : {"intact", "flipped", "malformed"}]

(* What a Python call returns: the class it raised and its `.code`, or     *)
(* "ok" and the identity id.                                               *)
Results == [cls : DOMAIN Bases \cup {"ok"}, code : AID_ERR_SERIALIZATION..AID_OK,
            id : Ids \cup {NoId}]

VARIABLES
    disk,      \* disk[p]: the container at path p, or Absent
    minted,    \* the ids the native create has handed out
    loads      \* every Identity.load so far: its inputs, its cause and what it raised

vars == <<disk, minted, loads>>

TypeOK ==
    /\ disk \in [Paths -> Containers \cup {Absent}]
    /\ minted \subseteq Ids
    /\ \A r \in loads : r.res \in Results

Init ==
    /\ disk = [p \in Paths |-> Absent]
    /\ minted = {}
    /\ loads = {}

-----------------------------------------------------------------------------
(* Native aid_identity_load (spec 4.2): a missing file is                  *)
(* IdentityNotFound, a broken structure is a serialization failure, and a  *)
(* failed authenticated decryption, by a wrong passphrase or a flipped bit,*)
(* is a passphrase failure.                                                *)
LoadKind(p, pw) ==
    IF disk[p] = Absent THEN "IdentityNotFound"
    ELSE IF disk[p].form = "malformed" THEN "Serialization"
    ELSE IF disk[p].form = "flipped" \/ disk[p].pass # pw THEN "Passphrase"
    ELSE "Ok"

(* The FFI crate's code for each failure, the codes errors.py gives the   *)
(* class of the same name.                                                 *)
FfiCode == [Ok |-> AID_OK, IdentityNotFound |-> AID_ERR_IO, Io |-> AID_ERR_IO,
            Passphrase |-> AID_ERR_CRYPTO, Serialization |-> AID_ERR_SERIALIZATION]

(* _check(rc): any code but AID_OK raises AgenticIdentityError(rc, msg).   *)
Check(rc, id) ==
    IF rc # AID_OK
      THEN [cls |-> "AgenticIdentityError", code |-> rc, id |-> NoId]
      ELSE [cls |-> "ok", code |-> AID_OK, id |-> id]

(* Native aid_identity_create (spec 4.2): a fresh keypair and id, sealed   *)
(* under the passphrase and written over whatever is at the path; an       *)
(* unwritable path is an I/O failure and writes nothing.                   *)
NativeCreate(p, pw, i) ==
    IF p \in Writable
      THEN disk' = [disk EXCEPT ![p] = [id |-> i, pass |-> pw, form |-> "intact"]]
      ELSE UNCHANGED disk

(* Identity.create: aid_identity_create writes the container; `_check(rc)` *)
(* raises on an unwritable path, else the id is returned.  What it returns *)
(* is not state: no property here is about it.                             *)
Create(p, pw, i) ==
    /\ i \notin minted
    /\ NativeCreate(p, pw, i)
    /\ minted' = minted \cup {i}
    /\ UNCHANGED loads

(* Identity.load: aid_identity_load, `_check(rc)`, and `cls(anchor_out)`;  *)
(* the record notes the native failure and what Python made of it.        *)
Load(p, pw) ==
    LET kind == LoadKind(p, pw)
        res  == Check(FfiCode[kind], IF kind = "Ok" THEN disk[p].id ELSE NoId)
    IN /\ loads' = loads \cup {[path |-> p, pass |-> pw, kind |-> kind, res |-> res]}
       /\ UNCHANGED <<disk, minted>>

(* The container is damaged at rest: a bit flips in its ciphertext, or its *)
(* structure is broken (spec 8: a bit-flipped container file).            *)
Tamper(p) ==
    /\ disk[p] # Absent
    /\ disk[p].form = "intact"
    /\ \E f \in {"flipped", "malformed"} : disk' = [disk EXCEPT ![p].form = f]
    /\ UNCHANGED <<minted, loads>>

Next ==
    \/ \E p \in Paths, pw \in Passphrases, i \in Ids : Create(p, pw, i)
    \/ \E p \in Paths, pw \in Passphrases : Load(p, pw)
    \/ \E p \in Paths : Tamper(p)

Spec == Init /\ [][Next]_vars

-----------------------------------------------------------------------------
(* The exception class spec 4.2 names for each failure of load.            *)
SpecClass == [IdentityNotFound |-> "IdentityNotFoundError",
              Passphrase       |-> "PassphraseError",
              Serialization    |-> "SerializationError"]

(***************************************************************************)
(* Typed load errors (spec 4.2 and 7, and the errors.py hierarchy): a      *)
(* failed Identity.load raises the class spec 4.2 names for its cause, so *)
(* `except PassphraseError` or `except AidError` catches it.               *)
(***************************************************************************)
TypedLoadErrors ==
    \A r \in loads : r.kind # "Ok" => IsInstance(r.res.cls, SpecClass[r.kind])

=============================================================================
