--------------------------------- MODULE Corpus ---------------------------------
(****************************************************************************)
(* From a prefix the proxy recorded to the artifact stored for it:          *)
(* daemon/watcher.py and daemon/resolve.py over identity.py.  Pure          *)
(* functions; a digest is the value it is the digest of.                    *)
(*                                                                          *)
(* A prefix is [identity, readable, schema, provider, model, fingerprint,   *)
(* prompted, systemBytes, toolBytes, text, mtime]: text names the system    *)
(* prompt followed by the tools, 0 when there is none.  A runtime is        *)
(* [tokenizer, template, arch, weights, adapters, notes, abi, flags,        *)
(* format]: abi stands for the fields of the cache ABI but its flags.       *)
(* Tokens gives the tokens of a text under a tokenizer.  0 stands for an    *)
(* absent value, and the representation digest, which resolve leaves empty, *)
(* is left out.                                                             *)
(****************************************************************************)
EXTENDS Integers, Sequences, FiniteSets, Functions

CONSTANTS Tokens(_, _), Missing

(* load_manifests: newest first; the sort keeps the order of the paths. *)
LoadManifests(prefixes, provider, model) ==
    LET Wanted(p) == /\ p.readable /\ p.schema = 1 /\ ~p.identity
                     /\ provider \in {0, p.provider} /\ model \in {0, p.model}
        Newer(i, j) == \/ prefixes[i].mtime > prefixes[j].mtime
                       \/ prefixes[i].mtime = prefixes[j].mtime /\ i < j
        Hindmost(S) == CHOOSE i \in S : \A j \in S \ {i} : Newer(j, i)
    IN  MapThenFoldSet(LAMBDA i, manifests : Append(manifests, prefixes[i]), <<>>,
                       LAMBDA i : i, Hindmost,
                       {i \in DOMAIN prefixes : Wanted(prefixes[i])})

(* est_tokens: what the last prompt measured, or 3.5 bytes a token *)
EstTokens(p) ==
    IF p.prompted # 0 THEN p.prompted ELSE (2 * (p.systemBytes + p.toolBytes)) \div 7

-----------------------------------------------------------------------------
(* identity.py: the corpus fingerprint is part of the prompt's digest; the keys
   themselves keep adapters, notes and flags in the order they were supplied,
   their digests sort them. *)
PromptDigest(prefix, runtime) ==
    [tokenizer |-> runtime.tokenizer, tokens |-> Tokens(runtime.tokenizer, prefix.text),
     fingerprint |-> prefix.fingerprint]

ModelIdentity(runtime) ==
    [arch |-> runtime.arch, weights |-> runtime.weights, tokenizer |-> runtime.tokenizer,
     template |-> runtime.template, adapters |-> runtime.adapters, notes |-> runtime.notes]

Key(prefix, runtime, encoding, mapper) ==
    [prompt |-> PromptDigest(prefix, runtime), model |-> ModelIdentity(runtime),
     abi |-> [fields |-> runtime.abi, flags |-> runtime.flags], encoding |-> encoding,
     format |-> IF encoding = "opaque" THEN runtime.format ELSE 0,
     mapper |-> mapper]

\* What sorting leaves of a sequence: how often it holds each value.
Sorted(s) == [x \in Range(s) |-> Cardinality({i \in DOMAIN s : s[i] = x})]

KeyDigest(key) ==
    [key EXCEPT !.model.adapters = Sorted(@), !.model.notes = Sorted(@), !.abi.flags = Sorted(@)]

(* coexist, of two keys: it compares the identities, not their digests. *)
Coexist(a, b) ==
    /\ a.prompt = b.prompt /\ a.model = b.model
    /\ \E f \in {"encoding", "abi", "format", "mapper"} : a[f] # b[f]

(* resolve: the record stored under the composite key of the prefix as this
   runtime sees it.  A miss is Missing, whatever went wrong. *)
Resolve(prefix, runtime, stored, encoding) ==
    LET key == KeyDigest(Key(prefix, runtime, encoding, 0))
    IN  IF \/ prefix.schema # 1 \/ prefix.text = 0
           \/ Tokens(runtime.tokenizer, prefix.text) = <<>>
           \/ key \notin DOMAIN stored
        THEN Missing
        ELSE stored[key]

-----------------------------------------------------------------------------
(* Two prefixes that resolve to one record are, to this runtime, the same
   tokens; and what was stored by another runtime is found only by one that
   agrees with it on tokenizer, template, weights, adapters, notes, cache ABI and
   format, and asks for the encoding it was stored in. *)
FoundIsOwn(prefix, runtime, other, by, kept, encoding, found) ==
    found # Missing /\ found = <<other, by, kept>> =>
        /\ <<runtime.tokenizer, runtime.template>> = <<by.tokenizer, by.template>>
        /\ Tokens(runtime.tokenizer, prefix.text) = Tokens(by.tokenizer, other.text)
        /\ <<runtime.arch, runtime.weights, runtime.abi>> = <<by.arch, by.weights, by.abi>>
        /\ Sorted(runtime.adapters) = Sorted(by.adapters)
        /\ Sorted(runtime.notes) = Sorted(by.notes)
        /\ Sorted(runtime.flags) = Sorted(by.flags)
        /\ encoding = kept
        /\ encoding = "opaque" => runtime.format = by.format

(* What coexists is stored side by side: of two artifacts whose keys coexist,
   the one put first is still found when the other is put, unless the keys
   differ in the order of their flags and in nothing else. *)
StaysBeside(mine, theirs, own, found) ==
    Coexist(mine, theirs) /\ [mine EXCEPT !.abi.flags = theirs.abi.flags] # theirs
        => found \in {Missing, own}
=============================================================================
