---------------------------- MODULE KeyConfigFile ----------------------------
(***************************************************************************)
(* Package keyconfig: an OHTTP key configuration as a YAML file, and the   *)
(* list of configurations that a gateway publishes.  Key pairs are named   *)
(* by numbers; 0 is an empty key.                                          *)
(***************************************************************************)
EXTENDS Naturals, Sequences

nameToAEADID == [AES128GCM        |-> "AEAD_AES128GCM",
                 AES256GCM        |-> "AEAD_AES256GCM",
                 ChaCha20Poly1305 |-> "AEAD_ChaCha20Poly1305"]

nameToKDFID == [SHA256 |-> "KDF_HKDF_SHA256",
                SHA384 |-> "KDF_HKDF_SHA384",
                SHA512 |-> "KDF_HKDF_SHA512"]

nameToKemID == [P256_HKDF_SHA256        |-> "KEM_P256_HKDF_SHA256",
                P384_HKDF_SHA384        |-> "KEM_P384_HKDF_SHA384",
                P521_HKDF_SHA512        |-> "KEM_P521_HKDF_SHA512",
                X25519_HKDF_SHA256      |-> "KEM_X25519_HKDF_SHA256",
                X448_HKDF_SHA512        |-> "KEM_X448_HKDF_SHA512",
                X25519_KYBER768_DRAFT00 |-> "KEM_X25519_KYBER768_DRAFT00",
                KEM_XWING               |-> "KEM_XWING"]

idToStr(id, names) ==
    IF \E n \in DOMAIN names : names[n] = id
    THEN CHOOSE n \in DOMAIN names : names[n] = id ELSE ""

\* yamlKeyConfig, the fields in the order in which they are written.
YAML(id, kem, pub, algs) ==
    [key_id |-> id, kem |-> kem, public_key |-> pub, symmetric_algorithms |-> algs]

MarshalKeyConfig(kc) ==
    YAML(kc.KeyID, idToStr(kc.KemID, nameToKemID), kc.PublicKey,
         [i \in DOMAIN kc.SymmetricAlgorithms |->
            [kdf  |-> idToStr(kc.SymmetricAlgorithms[i].KDFID, nameToKDFID),
             aead |-> idToStr(kc.SymmetricAlgorithms[i].AEADID, nameToAEADID)]])

\* A file that was cut off while it was written: a field is there or it reads
\* as its zero value.  A public key cut in its middle is refused as a missing
\* one is, and a list of algorithms cut in its middle as one without the aead.
CutFile(y, fields) ==
    YAML(IF fields >= 1 THEN y.key_id ELSE 0,
         IF fields >= 2 THEN y.kem ELSE "",
         IF fields >= 3 THEN y.public_key ELSE 0,
         IF fields >= 5 THEN y.symmetric_algorithms
         ELSE IF fields = 4 THEN [y.symmetric_algorithms EXCEPT ![1].aead = ""] ELSE <<>>)

WholeFile == 5

\* The result of unmarshalling: a configuration or how it failed.
Unusable(how) == [failed |-> how]
Usable(kc)    == [failed |-> "no", kc |-> kc]

UnknownAlgorithm(a) == a.kdf \notin DOMAIN nameToKDFID \/ a.aead \notin DOMAIN nameToAEADID

\* What is left to do once the public key is known not to be empty.  Scheme()
\* panics for a KEM it does not know, such as the zero value that a missing or
\* unknown name gives.
Decode(y) ==
    IF y.kem \notin DOMAIN nameToKemID THEN Unusable("panic")
    ELSE IF \/ y.public_key = 0
            \/ \E i \in DOMAIN y.symmetric_algorithms :
                  UnknownAlgorithm(y.symmetric_algorithms[i])
    THEN Unusable("error")
    ELSE Usable([KeyID |-> y.key_id, KemID |-> nameToKemID[y.kem], PublicKey |-> y.public_key,
                 SymmetricAlgorithms |->
                    [i \in DOMAIN y.symmetric_algorithms |->
                       [KDFID  |-> nameToKDFID[y.symmetric_algorithms[i].kdf],
                        AEADID |-> nameToAEADID[y.symmetric_algorithms[i].aead]]]])

\* Mutant: an empty key is left to the scheme to refuse.
UnmarshalAnyLength(y) == Decode(y)

UnmarshalKeyConfig(y) == IF y.public_key = 0 THEN Unusable("error") ELSE Decode(y)

=============================================================================
