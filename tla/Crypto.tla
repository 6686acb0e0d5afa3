------------------------------ MODULE Crypto ------------------------------
(***************************************************************************)
(* TestCryptoFunctions (src/src/main.cpp): GenerateAndStorePassword and    *)
(* LoadAndDecryptPassword (src/src/utils/crypto.cpp), one after the other, *)
(* in any number of processes and one directory.                           *)
(*                                                                         *)
(* A password is known by the process that made it.  Its ciphertext fits   *)
(* the stream's buffer, so a file holds none of it or all.  Of OpenSSL is  *)
(* used that the whole of a ciphertext gives its password back, and no     *)
(* text at all an error.                                                   *)
(***************************************************************************)
EXTENDS Naturals

CONSTANTS
  Tester,         \* processes
  Drawn,          \* file names that the random draws give
  Fixed,          \* ".dat": the name where a draw failed
  NoText, Empty,  \* a file that is not there, and one with nothing in it
  CryptoFaults    \* what can fail: see each use

VARIABLES
  phase,   \* next step of each process; one that is elsewhere is not in Phases
  store,   \* text of each file of the directory, by name
  test     \* locals of each process

Phases == {"test", "store", "write", "load", "read", "passed", "failed"}
FileName == Drawn \cup {Fixed}
Text == Tester \cup {NoText, Empty}
NoTest == [name |-> Fixed, size |-> 0, password |-> NoText]

StoreInit ==
  /\ store = [n \in FileName |-> NoText]
  /\ test = [t \in Tester |-> NoTest]

Pass(t, from, to) == phase[t] = from /\ phase' = [phase EXCEPT ![t] = to]

Fail(t, from) == Pass(t, from, "failed") /\ UNCHANGED <<store, test>>

(* The file of t.                                                          *)
Stored(t) == store[test[t].name]

(* 62 characters in 12 places never give the same name twice.              *)
Fresh == {n \in Drawn : store[n] = NoText /\ \A t \in Tester : test[t].name # n}

(* Faulty: the name has no characters.                                     *)
GenerateUnnamed(t) ==
  Pass(t, "test", "store") /\ UNCHANGED <<store, test>>

(* Fault "rand": RAND_bytes fails for the password, or EncryptData does.   *)
(* Fault "name": it fails for the name, which then is only ".dat".         *)
Generate(t) ==
  \/ /\ Pass(t, "test", "store")
     /\ \E n \in Fresh \cup (IF "name" \in CryptoFaults THEN {Fixed} ELSE {}) :
          test' = [test EXCEPT ![t].name = n]
     /\ UNCHANGED store
  \/ "rand" \in CryptoFaults /\ Fail(t, "test")

(* WriteBinaryToFile opens the file, in a directory that has to be there.  *)
OpenStore(t, directory) ==
  \/ /\ directory
     /\ Pass(t, "store", "write")
     /\ store' = [store EXCEPT ![test[t].name] = Empty]
     /\ UNCHANGED test
  \/ (~directory \/ "store" \in CryptoFaults) /\ Fail(t, "store")

(* The text is written when the stream is closed, after ofs.good() was     *)
(* asked.  Fault "flush": it is lost, and the store succeeds all the same. *)
CloseStore(t) ==
  /\ Pass(t, "write", "load")
  /\ \/ store' = [store EXCEPT ![test[t].name] = t]
     \/ "flush" \in CryptoFaults /\ UNCHANGED store
  /\ UNCHANGED test

(* ReadBinaryFromFile: the size, then that many bytes.                     *)
OpenLoad(t) ==
  \/ /\ Stored(t) # NoText
     /\ Pass(t, "load", "read")
     /\ test' = [test EXCEPT ![t].size = IF Stored(t) = Empty THEN 0 ELSE 1]
     /\ UNCHANGED store
  \/ Stored(t) = NoText /\ Fail(t, "load")

(* Less than the size fails the stream, nothing at all the decryption.     *)
ReadLoad(t) ==
  \/ /\ test[t].size = 1 /\ Stored(t) # Empty
     /\ Pass(t, "read", "passed")
     /\ test' = [test EXCEPT ![t].password = Stored(t)]
     /\ UNCHANGED store
  \/ (test[t].size = 0 \/ Stored(t) = Empty) /\ Fail(t, "read")

TestStep(t, directory) ==
  \/ Generate(t) \/ OpenStore(t, directory) \/ CloseStore(t)
  \/ OpenLoad(t) \/ ReadLoad(t)

(* What those processes knew is gone; their files stay.                    *)
Forgotten(victims) ==
  test' = [t \in Tester |-> IF t \in victims THEN NoTest ELSE test[t]]

(* Files that somebody has open cannot be removed.                         *)
Held == {n \in FileName : \E t \in Tester : test[t].name = n /\ phase[t] \in {"write", "read"}}

RemovedBut(kept) == store' = [n \in FileName |-> IF n \in kept THEN store[n] ELSE NoText]

StoreTypeOK ==
  /\ store \in [FileName -> Text]
  /\ test \in [Tester -> [name : FileName, size : {0, 1}, password : Tester \cup {NoText}]]

(* "All operations completed successfully": the password read back is the  *)
(* one that was stored, whoever tests at the same time, removes the files  *)
(* or is killed, and whatever was lost unnoticed, unless the draw of a     *)
(* name failed and the processes share a file.                             *)
PassedMeansStored ==
  "name" \notin CryptoFaults =>
    \A t \in Tester : phase[t] = "passed" => test[t].password = t
==========================================================================
