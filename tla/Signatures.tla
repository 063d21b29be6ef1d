----------------------------- MODULE Signatures -----------------------------
(* How the artifacts attached to an image are read: what kind of thing an   *)
(* artifact is, and what the signatures it carries are worth                *)
(* (web/src/lib/signatures.ts, signatures-shared.ts, notation.ts,           *)
(* sigstore.ts).  Bytes are left out: a layer says what its blob holds,     *)
(* which image and repository the payload names, who made the signature     *)
(* and which certificate lies beside it.  Whether a signature verifies      *)
(* with a key is the same as whether that key made it.                      *)
EXTENDS Naturals, Sequences

CONSTANTS
    SignKeys,   \* public keys
    Identities  \* OIDC identities (issuer and subject)

ASSUME SignaturesAssumption ==
    /\ "none" \notin SignKeys /\ "broken" \notin SignKeys /\ "certificate" \notin SignKeys
    /\ "none" \notin Identities /\ "unreadable" \notin Identities /\ "unchained" \notin Identities

\* What tells one kind of artifact from another: its artifactType, the media
\* types of its layers and the suffix of the cosign tag it was found under.
Evidence ==
    {"type:notation", "type:bundle", "type:buildkit", "jws", "cose", "bundle", "simplesigning", "dsse", "in-toto", "sbom",
     ".sig", ".att", ".sbom"}

Blob == {"missing", "garbled", "simplesigning", "envelope", "bundle-envelope", "bundle-message", "statement", "jws", "cose"}

\* A layer of the media type of COSE has the blob "cose", whatever it holds.
\* reference: the docker-reference of a simple-signing payload.
\* sign: the predicate of the statement is cosign's own.
\* signer: whose signature it is; "certificate" is the key of the certificate,
\* "broken" one that no key verifies, "none" no signature at all.
\* certificate: none, not X.509, without a sound chain and log entry, or the
\* identity that chain and log entry vouch for.
\* beside: the keys of the other certificates in the list of a notation
\* envelope, whether or not they have issued one another.
Layers == [blob : Blob, digest : {"this", "other"}, reference : {"this", "other"}, sign : BOOLEAN,
           signer : SignKeys \union {"none", "broken", "certificate"},
           certificate : Identities \union {"none", "unreadable", "unchained"},
           hint : SignKeys \union {"none"}, expired : BOOLEAN, beside : SUBSET SignKeys]

-----------------------------------------------------------------------------
(* What an artifact is. *)

\* classifyArtifact, in the order of its tests.
Format(evidence) ==
    CASE evidence \intersect {"type:notation", "jws", "cose"} # {} -> "notation"
      [] evidence \intersect {"bundle", "type:bundle"} # {} -> "sigstore-bundle"
      [] evidence \intersect {"simplesigning", ".sig"} # {} -> "cosign-legacy"
      [] "type:buildkit" \in evidence -> "in-toto"
      [] evidence \intersect {"dsse", "in-toto", ".att"} # {} -> "dsse"
      [] evidence \intersect {"sbom", ".sbom"} # {} -> "raw"
      [] OTHER -> "unknown"

\* decodeStatement: where the format expects the envelope, and whether it is there.
HoldsStatement(format, layer) == layer.blob = (IF format = "sigstore-bundle" THEN "bundle-envelope" ELSE "envelope")

\* artifactSummary: bundles and envelopes are classified by what the first
\* blob turns out to hold; a blob that cannot be had says nothing.
Kind(format, layers) ==
    CASE format \in {"notation", "cosign-legacy"} -> "signature"
      [] format \in {"sigstore-bundle", "dsse"} /\ layers # <<>> ->
             IF layers[1].blob = "bundle-message" \/ (HoldsStatement(format, layers[1]) /\ layers[1].sign) THEN "signature" ELSE "attestation"
      [] OTHER -> "attestation"

-----------------------------------------------------------------------------
(* What one signature is worth. *)

\* matchKeys: the first key in scope that verifies it.
matchKeys(layer, keys) == IF layer.signer \in keys THEN "verified" ELSE "untrusted"

\* verifyDsse that takes a statement about any image.
verifyDsse_AnyImage(format, layer, keys) ==
    IF ~HoldsStatement(format, layer) \/ layer.signer = "none" THEN "invalid" ELSE matchKeys(layer, keys)

\* verifyDsse.
verifyDsse(format, layer, keys) ==
    IF ~HoldsStatement(format, layer) \/ layer.digest # "this" \/ layer.signer = "none" THEN "invalid" ELSE matchKeys(layer, keys)

\* What verifyKeylessBundle can verify of an artifact: the bundle as it is, or
\* the one that legacyMessageBundle and legacyDsseBundle make of the layer.
Bundled(format) ==
    CASE format = "cosign-legacy" -> {"simplesigning"}
      [] format = "sigstore-bundle" -> {"bundle-envelope", "bundle-message"}
      [] format = "dsse" -> {"envelope"}
      [] OTHER -> {}

\* verifyKeylessBundle: a message signature is over the subject, an envelope
\* brings what it signs along.
ChainVerified(format, layer) ==
    /\ layer.blob \in Bundled(format)
    /\ layer.certificate \in Identities
    /\ layer.signer = "certificate"
    /\ layer.blob \in {"bundle-message", "simplesigning"} => layer.digest = "this"

\* applyKeyless: what a certificate makes of a status.
applyKeyless(format, status, layer, identities) ==
    IF status = "verified" \/ layer.certificate \in {"none", "unreadable"} THEN status
    ELSE IF ChainVerified(format, layer) /\ layer.certificate \in identities THEN "verified"
    ELSE "keyless"

\* The case "cosign-legacy": the certificate is looked at last.
checkLegacy(layer, keys, identities) ==
    IF layer.blob # "simplesigning" \/ layer.digest # "this" \/ layer.reference # "this" \/ layer.signer = "none"
    THEN "invalid"
    ELSE applyKeyless("cosign-legacy", matchKeys(layer, keys), layer, identities)

\* The case "sigstore-bundle", with the key that the bundle names.
checkBundle(layer, keys, identities) ==
    LET content ==
            CASE layer.blob = "bundle-envelope" -> verifyDsse("sigstore-bundle", layer, keys)
              [] layer.blob = "bundle-message" ->
                     IF layer.digest # "this" \/ layer.signer = "none" THEN "invalid" ELSE matchKeys(layer, keys)
              [] OTHER -> "invalid"
        hinted == IF content = "untrusted" /\ layer.hint \in keys THEN "invalid" ELSE content
    IN  IF layer.blob \in {"bundle-envelope", "bundle-message"} THEN applyKeyless("sigstore-bundle", hinted, layer, identities) ELSE "invalid"

\* The case "dsse": the certificate lies in the annotations of the layer.
checkDsse(layer, keys, identities) ==
    IF layer.blob \in {"missing", "garbled"} THEN "invalid"
    ELSE applyKeyless("dsse", verifyDsse("dsse", layer, keys), layer, identities)

\* The layers of notation.  verifyNotationJws: no chain, a signature the first
\* certificate did not make, or an expired one is invalid; any certificate of
\* the list that is trusted verifies it.
checkNotation(layer, keys) ==
    IF layer.blob = "cose" THEN "untrusted"
    ELSE IF layer.blob # "jws" \/ layer.digest # "this" \/ layer.signer \in {"none", "broken"} \/ layer.expired THEN "invalid"
    ELSE IF ({layer.signer} \union layer.beside) \intersect keys # {} THEN "verified" ELSE "untrusted"

-----------------------------------------------------------------------------
(* What an artifact is worth. *)

\* The statuses of the signatures that checkArtifactSignatures looks at; of a
\* bundle it reads the first layer only.
Checks(evidence, layers, keys, identities) ==
    LET format == Format(evidence)
    IN  CASE format = "notation" -> {checkNotation(layers[n], keys) : n \in DOMAIN layers}
          [] format = "cosign-legacy" -> {checkLegacy(layers[n], keys, identities) : n \in DOMAIN layers}
          [] format = "sigstore-bundle" -> IF layers = <<>> THEN {"invalid"} ELSE {checkBundle(layers[1], keys, identities)}
          [] format = "dsse" -> {checkDsse(layers[n], keys, identities) : n \in DOMAIN layers}
          [] OTHER -> {}

\* checkArtifactSignatures: kind and status, or null.
checkArtifactSignatures(evidence, layers, keys, identities) ==
    LET checks == Checks(evidence, layers, keys, identities)
    IN  IF Format(evidence) \in {"in-toto", "raw", "unknown"} THEN [kind |-> "none", status |-> "none"]
        ELSE [kind |-> Kind(Format(evidence), layers),
              status |-> IF "verified" \in checks THEN "verified"
                         ELSE IF "keyless" \in checks THEN "keyless"
                         ELSE IF checks = {"invalid"} THEN "invalid"
                         ELSE "untrusted"]

-----------------------------------------------------------------------------
(* Every artifact, judged with one trusted key and one trusted identity.    *)

VARIABLES
    artifact,   \* what it looks like and what its layers hold
    scope       \* the keys and identities in scope

artifactVars == <<artifact, scope>>

\* Fields that the blob does not have are as in an empty one.
Plain == [blob |-> "garbled", digest |-> "other", reference |-> "other", sign |-> FALSE, signer |-> "none",
          certificate |-> "none", hint |-> "none", expired |-> FALSE, beside |-> {}]
Sensible(layer) ==
    LET fields ==
            CASE layer.blob = "simplesigning" -> {"blob", "digest", "reference", "signer", "certificate"}
              [] layer.blob = "envelope" -> {"blob", "digest", "sign", "signer", "certificate"}
              [] layer.blob = "bundle-envelope" -> {"blob", "digest", "sign", "signer", "certificate", "hint"}
              [] layer.blob = "bundle-message" -> {"blob", "digest", "signer", "certificate", "hint"}
              [] layer.blob = "jws" -> {"blob", "digest", "signer", "expired", "beside"}
              [] OTHER -> {"blob"}
    IN  \A f \in DOMAIN Plain : layer[f] = Plain[f] \/ f \in fields

\* Each piece of evidence alone and with another one, over any layer; and two
\* layers that belong to one format and speak of this image, signed by whoever.
Artifacts ==
    LET one == {layer \in Layers : Sensible(layer)}
        sound == {layer \in one : /\ layer.blob = "cose" \/ layer.digest = "this"
                                  /\ layer.blob = "simplesigning" => layer.reference = "this"
                                  /\ layer.certificate = "none" /\ layer.hint = "none" /\ ~layer.expired}
        pairs == {pair \in sound \X sound : pair[1].blob = pair[2].blob \/ {pair[1].blob, pair[2].blob} = {"jws", "cose"}}
        all == [evidence : {{a, b} : a, b \in Evidence}, layers : {<<layer>> : layer \in one}]
                   \union [evidence : {{a} : a \in Evidence}, layers : pairs]
        HasCose(layers) == \E n \in DOMAIN layers : layers[n].blob = "cose"
    IN  {a \in all : HasCose(a.layers) = ("cose" \in a.evidence)}

SignaturesInit ==
    /\ artifact \in Artifacts
    /\ scope \in {[keys |-> {k}, identities |-> {d}] : k \in SignKeys, d \in Identities}

\* A layer that speaks of this image and that somebody trusted has signed, or
\* with notation somebody whose list of certificates holds a trusted one.
Vouched(layer) ==
    \/ /\ layer.signer \in scope.keys \/ (layer.blob = "jws" /\ layer.beside \intersect scope.keys # {})
       /\ layer.digest = "this" /\ (layer.blob = "simplesigning" => layer.reference = "this")
    \/ layer.signer = "certificate" /\ layer.certificate \in scope.identities

\* How the tools attach a signature: the layer is what the evidence says it is.
Attached(layer) ==
    CASE Format(artifact.evidence) = "notation" -> layer.blob = "jws"
      [] Format(artifact.evidence) = "cosign-legacy" -> layer.blob = "simplesigning"
      [] Format(artifact.evidence) = "sigstore-bundle" -> layer.blob \in {"bundle-envelope", "bundle-message"} /\ layer = artifact.layers[1]
      [] Format(artifact.evidence) = "dsse" -> layer.blob = "envelope"
      [] OTHER -> FALSE

\* What is verified has been signed by a key or an identity in scope, for
\* this image, however the artifact is dressed up, and a signature that is
\* attached as the tools attach it is found, whatever else lies beside it
\* (checkArtifactSignatures).  Two things count for a signature by somebody in
\* scope: a certificate of a trusted identity beside an envelope about another
\* image, so that Vouched says nothing of the digest there; and a trusted
\* certificate anywhere in the list of a notation envelope, which is not held
\* against the certificate that signed.
VerifiedMeansVouched ==
    LET result == checkArtifactSignatures(artifact.evidence, artifact.layers, scope.keys, scope.identities)
        layers == {artifact.layers[n] : n \in DOMAIN artifact.layers}
    IN  /\ result.status = "verified" => \E layer \in layers : Attached(layer) /\ Vouched(layer)
        /\ (\E layer \in layers :
                /\ Attached(layer) /\ Vouched(layer) /\ layer.digest = "this"
                /\ ~layer.expired /\ layer.signer \notin {"none", "broken"}
                /\ (layer.blob = "simplesigning" => layer.reference = "this"))
               => result.status = "verified"
=============================================================================
