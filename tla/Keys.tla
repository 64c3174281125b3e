--------------------------------- MODULE Keys ---------------------------------
(***************************************************************************)
(* The text of idempotency keys: how a session turns the WriteKey a caller *)
(* passes into the key on the wire, and how SemanticKey derives a suffix   *)
(* from a business operation.                                              *)
(*                                                                         *)
(* A text is a sequence of characters and a character is the sequence of   *)
(* bytes it stands for: one byte, or, for the 43 characters of a base64    *)
(* digest taken together, the whole digested message, because SHA-256 is   *)
(* taken to be injective.  So a digest counts as one character where a     *)
(* length is bounded, and MaxToken leaves room for it.                     *)
(***************************************************************************)
EXTENDS Integers, SequencesExt

CONSTANTS Lower,        \* 'a'..'z'
          NameChar,     \* the characters a namespace may go on with
          TokenChar,    \* the characters of a wire token
          Colon,
          MaxToken,     \* 128
          MaxNamespace, \* maxSemanticKeyNamespaceBytes
          Domain        \* SemanticKeyDomain

ASSUME KeysAssumption ==
  /\ \A c \in TokenChar : c \in Seq(Nat) /\ Len(c) = 1
  /\ Lower \subseteq NameChar
  /\ NameChar \subseteq TokenChar
  /\ Colon \in TokenChar \ NameChar
  /\ MaxToken \in Nat /\ MaxNamespace \in Nat
  /\ Domain \in Seq(Seq(Nat))

\* A digest is written in base64url, all of whose characters a token may have.
isDigest(c) == Len(c) > 1

\* validWireToken.
validWireToken(v) ==
  /\ Len(v) \in 1..MaxToken
  /\ \A n \in 1..Len(v) : v[n] \in TokenChar \/ isDigest(v[n])

\* validPrefix, and the bound that validateCapabilities adds.
validPrefix(p, maxBytes) ==
  p # <<>> => validWireToken(p) /\ Len(p) < MaxToken /\ Len(p) < maxBytes

\* Mutant: the advertised length is not enforced.
validateKeySyntax_Unbounded(key, maxBytes, prefix) ==
  /\ validWireToken(key)
  /\ prefix # <<>> => IsPrefix(prefix, key) /\ Len(key) # Len(prefix)

\* validateKeySyntax: no error.
validateKeySyntax(key, maxBytes, prefix) ==
  /\ validWireToken(key)
  /\ Len(key) <= maxBytes
  /\ prefix # <<>> => IsPrefix(prefix, key) /\ Len(key) # Len(prefix)

\* A WriteKey: its tag and its value.
WriteKey(tag, value) == [tag |-> tag, value |-> value]
NoKey == WriteKey("unset", <<>>)

\* Mutant: a suffix that already has the prefix gets it a second time.
keyError_PrefixTwice(key, prefix, maxBytes) ==
  CASE key.tag = "suffix" -> ~validWireToken(key.value)
                             \/ ~validateKeySyntax(prefix \o key.value, maxBytes, prefix)
    [] key.tag = "full"   -> ~validateKeySyntax(key.value, maxBytes, prefix)
    [] OTHER              -> TRUE

\* resolveWriteKey returns an error.
keyError(key, prefix, maxBytes) ==
  CASE key.tag = "suffix" -> \/ ~validWireToken(key.value)
                             \/ prefix # <<>> /\ IsPrefix(prefix, key.value)
                             \/ ~validateKeySyntax(prefix \o key.value, maxBytes, prefix)
    [] key.tag = "full"   -> ~validateKeySyntax(key.value, maxBytes, prefix)
    [] OTHER              -> TRUE

\* The key that resolveWriteKey returns otherwise.
resolved(key, prefix) == IF key.tag = "suffix" THEN prefix \o key.value ELSE key.value

-----------------------------------------------------------------------------
\* A character that stands for itself.
Byte == {c \in Seq(Nat) : Len(c) = 1}

\* Mutant: the bytes without their count.
writeSemanticFrame_Bare(text) == FlattenSeq(text)

\* writeSemanticFrame: a count and then that many bytes.
writeSemanticFrame(text) == <<Len(FlattenSeq(text))>> \o FlattenSeq(text)

\* validSemanticKeyNamespace.
validSemanticKeyNamespace(ns) ==
  /\ Len(ns) \in 1..MaxNamespace
  /\ ns[1] \in Lower
  /\ \A n \in 1..Len(ns) : ns[n] \in NameChar

\* What SemanticKey digests.
message(ns, parts) ==
  writeSemanticFrame(Domain) \o writeSemanticFrame(ns) \o <<Len(parts)>>
    \o FlattenSeq([n \in 1..Len(parts) |-> writeSemanticFrame(parts[n])])

\* SemanticKey: the zero WriteKey when the namespace is refused.
SemanticKey(ns, parts) ==
  IF validSemanticKeyNamespace(ns)
    THEN WriteKey("suffix", ns \o <<Colon, message(ns, parts)>>)
    ELSE NoKey
=============================================================================
