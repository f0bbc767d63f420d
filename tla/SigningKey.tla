----------------------------- MODULE SigningKey -----------------------------
(***************************************************************************)
(* The audit signing key (app/core/crypto.py): every process of the        *)
(* service loads the key file on first use, or makes the key and the file, *)
(* and keeps the key in memory (lru_cache).  Processes start together,     *)
(* crash at any point and restart.                                         *)
(***************************************************************************)
EXTENDS Naturals, FiniteSets

CONSTANTS
    Processes,
    MaxKeys         \* bound: keys generated

ASSUME SigningKeyAssumption == MaxKeys \in Nat

VARIABLES
    keyFile,        \* 0: no file; Truncated: an empty file; else the key in it
    process,        \* per process: how far get_signing_key got, and the key it holds
    generated,      \* keys generated so far
    signers,        \* keys that have signed audit entries
    raced           \* history: two processes were making a key at once

keyVars == <<keyFile, process, generated, signers, raced>>

Truncated == MaxKeys + 1

-----------------------------------------------------------------------------
Keys == 1..MaxKeys

Fresh == [at |-> "start", key |-> 0]

Making(p) == process[p].at \in {"generate", "write", "writing"}

\* path.exists(): load the file, or go on to make a key.  A file that is still
\* empty does not load: the call raises, and the next one tries again.
get_signing_key(p) ==
    /\ process[p].at = "start"
    /\ \/ keyFile \in Keys /\ process' = [process EXCEPT ![p] = [at |-> "ready", key |-> keyFile]]
       \/ keyFile = 0 /\ process' = [process EXCEPT ![p].at = "generate"]
    /\ raced' = (raced \/ (keyFile = 0 /\ \E q \in Processes \ {p} : Making(q)))
    /\ UNCHANGED <<keyFile, generated, signers>>

Keeps_key_in_memory(p) ==
    /\ process[p].at = "generate" /\ generated < MaxKeys
    /\ generated' = generated + 1
    /\ process' = [process EXCEPT ![p] = [at |-> "ready", key |-> generated + 1]]
    /\ UNCHANGED <<keyFile, signers, raced>>

\* ec.generate_private_key.
generate_private_key(p) ==
    /\ process[p].at = "generate" /\ generated < MaxKeys
    /\ generated' = generated + 1
    /\ process' = [process EXCEPT ![p] = [at |-> "write", key |-> generated + 1]]
    /\ UNCHANGED <<keyFile, signers, raced>>

\* write_bytes opens the file, which truncates it, and then fills it.
write_bytes(p) ==
    /\ \/ /\ process[p].at = "write"
          /\ keyFile' = Truncated
          /\ process' = [process EXCEPT ![p].at = "writing"]
       \/ /\ process[p].at = "writing"
          /\ keyFile' = process[p].key
          /\ process' = [process EXCEPT ![p].at = "ready"]
    /\ UNCHANGED <<generated, signers, raced>>

\* sign_hex_digest, of an entry that is then committed.
sign_hex_digest(p) ==
    /\ process[p].at = "ready"
    /\ signers' = signers \cup {process[p].key}
    /\ UNCHANGED <<keyFile, process, generated, raced>>

\* verify_hex_digest, of the entries signed by key k.
verify_hex_digest(p, k) == process[p].key = k

Crash(p) ==
    /\ process' = [process EXCEPT ![p] = Fresh]
    /\ UNCHANGED <<keyFile, generated, signers, raced>>

KeyInit ==
    /\ keyFile = 0 /\ generated = 0
    /\ process = [p \in Processes |-> Fresh]
    /\ signers = {} /\ raced = FALSE

KeyNext ==
    \E p \in Processes : \/ get_signing_key(p) \/ generate_private_key(p) \/ write_bytes(p)
                         \/ sign_hex_digest(p) \/ Crash(p)

KeySpec == KeyInit /\ [][KeyNext]_keyVars

-----------------------------------------------------------------------------
KeyTypeOK ==
    /\ keyFile \in 0..Truncated
    /\ process \in [Processes -> [at : {"start", "generate", "write", "writing", "ready"},
                                  key : 0..MaxKeys]]
    /\ generated \in 0..MaxKeys
    /\ signers \subseteq Keys
    /\ raced \in BOOLEAN

(* The keypair is generated on first boot and persisted to disk (docstring   *)
(* of app/core/crypto.py): all entries are signed with the key in the file.  *)
SignedWithFile == signers # {} => keyFile \in Keys /\ signers = {keyFile}

(* Unless two processes made a key at once on the first boot, every process  *)
(* that holds a key can verify every entry ever signed, by whichever process *)
(* and before whichever crash, and so can a process that loads the file      *)
(* later: a key is in the file before it signs.                              *)
SignaturesVerify ==
    ~raced =>
      /\ \A p \in Processes, k \in signers : process[p].at = "ready" => verify_hex_digest(p, k)
      /\ SignedWithFile

-----------------------------------------------------------------------------
(* What the proof of SignaturesVerify needs besides: a process that makes a  *)
(* key is alone with it, and has found no file.                              *)

HoldsKey ==
    \A p \in Processes : process[p].at \in {"write", "writing", "ready"} => process[p].key \in Keys

OneMaker == \A p, q \in Processes : Making(p) /\ Making(q) => p = q

FileWhileMaking ==
    \A p \in Processes :
      /\ process[p].at \in {"generate", "write"} => keyFile = 0
      /\ process[p].at = "writing" => keyFile = Truncated

ReadyHoldsFile == \A p \in Processes : process[p].at = "ready" => process[p].key = keyFile

KeyInv ==
    /\ HoldsKey
    /\ ~raced => OneMaker /\ FileWhileMaking /\ ReadyHoldsFile /\ SignedWithFile

=============================================================================
