------------------------------- MODULE SshKeys -------------------------------
(***************************************************************************)
(* Managed SSH private keys (floria-ssh/src/lib.rs): a key file is         *)
(* imported into a canonical form, and the stored form is later listed by  *)
(* the agent and signs.                                                    *)
(*                                                                         *)
(* The two libraries (ssh-key and rsa) are modelled by what they accept:   *)
(* an OpenSSH container wrapped at 70 columns, RSA in PKCS#1 or PKCS#8.    *)
(* A key is its algorithm, its size, and a number that tells keys apart.   *)
(***************************************************************************)
EXTENDS Naturals, FiniteSets

CONSTANTS
  KeyIds,     \* the keys
  MaxImports  \* bound: imports

Formats == {"openssh70", "openssh64", "pkcs1", "pkcs8", "other"}
Flags == {0, 2, 4, 6}                \* RSA_SHA2_256 is 2, RSA_SHA2_512 is 4

(* A key, in the sizes around the bound of require_supported_algorithm.    *)
Keys == [id : KeyIds, algorithm : {"Rsa"}, bits : {2047, 2048}]
          \cup [id : KeyIds, algorithm : {"Ed25519", "Ecdsa"}, bits : {256}]

(* Key files: only OpenSSH containers are read when encrypted, and only    *)
(* they carry a comment.                                                   *)
KeyFiles ==
  {f \in [key : Keys, format : Formats, encrypted : BOOLEAN, comment : BOOLEAN] :
     f.format \in {"pkcs1", "pkcs8"} => f.key.algorithm = "Rsa" /\ ~f.comment}

Passphrases == {"none", "empty", "wrong", "right"}

VARIABLES
  stored,     \* the canonical keys in the encrypted store
  identities, \* the address that the catalog row of a stored key has
  signature,  \* the last signature: [key, hash, by]
  imports     \* imports so far

keyVars == <<stored, identities, signature, imports>>

(***************************************************************************)
(* Parsing                                                                 *)
(***************************************************************************)
FromOpenssh(file) == file.format = "openssh70"
DecodeOpensshArmor(file) == file.format \in {"openssh70", "openssh64"}

ParseOpenssh(file) == FromOpenssh(file) \/ DecodeOpensshArmor(file)

(* Encrypted PKCS#8 is not read.                                           *)
ParseLegacyRsa(file) ==
  file.format \in {"pkcs1", "pkcs8"} /\ file.key.algorithm = "Rsa" /\ ~file.encrypted

ParseAndDecrypt(file, passphrase) ==
  /\ ParseOpenssh(file) \/ ParseLegacyRsa(file)
  /\ file.encrypted => passphrase = "right"

RequireSupportedAlgorithm(key) ==
  \/ key.algorithm = "Ed25519"
  \/ key.algorithm = "Rsa" /\ key.bits >= 2048

(* The address is a hash of the public key.                                *)
PublicIdentity(file) == file.key

(* Mutant: the file is stored as it was read.                              *)
CanonicalAsRead(file) == file

Canonical(file) ==
  [file EXCEPT !.format = "openssh70", !.encrypted = FALSE]

(***************************************************************************)
(* What the agent does with the stored form                                *)
(***************************************************************************)
IdentityFromPrivateKey(file) ==
  FromOpenssh(file) /\ ~file.encrypted /\ RequireSupportedAlgorithm(file.key)

SignRsa(flags) == flags \in {2, 4}

SignWithAlgorithm(key, flags) ==
  \/ key.algorithm = "Ed25519" /\ flags = 0
  \/ key.algorithm = "Rsa" /\ SignRsa(flags)

Signs(file, flags) == IdentityFromPrivateKey(file) /\ SignWithAlgorithm(file.key, flags)

Hash(flags) == CASE flags = 2 -> "sha256" [] flags = 4 -> "sha512" [] OTHER -> "sha1"

SignatureOf(file, flags) ==
  [key |-> {file.key},
   hash |-> IF file.key.algorithm = "Ed25519" THEN "ed25519" ELSE Hash(flags)]

NoSignature == [key |-> {}, hash |-> "none"]

KeysInit ==
  stored = {} /\ identities = {} /\ signature = NoSignature /\ imports = 0

ImportPrivateKey(file, passphrase) ==
  /\ imports < MaxImports /\ imports' = imports + 1
  /\ ParseAndDecrypt(file, passphrase) /\ RequireSupportedAlgorithm(file.key)
  /\ stored' = stored \cup {Canonical(file)}
  /\ identities' = identities \cup {PublicIdentity(file)}
  /\ UNCHANGED signature

SignWithKey(file, flags) ==
  /\ Signs(file, flags)
  /\ signature' = SignatureOf(file, flags)
  /\ UNCHANGED <<stored, identities, imports>>

KeysNext ==
  \/ \E file \in KeyFiles, passphrase \in Passphrases : ImportPrivateKey(file, passphrase)
  \/ \E file \in stored, flags \in Flags : SignWithKey(file, flags)

(* A signature over the session, verified with the public key of the host. *)
VerifyPublicSignature(key, made) == made.key = {key} /\ made.hash # "none"

(***************************************************************************)
(* Properties                                                              *)
(***************************************************************************)
(* Every key that an import accepted, whatever its container, is listed    *)
(* under its address and can sign: none is stored that the agent must      *)
(* refuse later.                                                           *)
ImportedKeysSign ==
  /\ \A file \in stored :
       IdentityFromPrivateKey(file) /\ \E flags \in Flags : Signs(file, flags)
  /\ identities = {PublicIdentity(file) : file \in stored}

(* No signature rests on SHA-1 or on a short RSA key, and each verifies    *)
(* under an identity that is listed.                                       *)
SignaturesAreStrong ==
  signature = NoSignature
    \/ /\ signature.hash # "sha1"
       /\ \E key \in identities : VerifyPublicSignature(key, signature) /\ key.bits # 2047

(* Keys that were imported sign, and what they sign is strong.             *)
KeysSignStrongly == ImportedKeysSign /\ SignaturesAreStrong
==============================================================================
