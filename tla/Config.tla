------------------------------- MODULE Config -------------------------------
(***************************************************************************)
(* The configuration cascade (config/mod.rs, config/global.rs): process    *)
(* environment over .env over the vendor sections of the global file; the  *)
(* vendor-neutral and the vendor-scoped lookups; expansion of secret       *)
(* references.  Keys, aliases and values are opaque; the text of a value   *)
(* says what it is (Reference(v), Blank(v)).                               *)
(***************************************************************************)
EXTENDS Integers, Sequences, FiniteSets, SequencesExt

CONSTANTS Vendors,       \* canonical vendor names
          Aliases,       \* [Vendors -> Seq(alias)], highest priority first
          References,    \* the values that are secret references
          Blanks,        \* the values that are empty once trimmed
          Dropped,       \* the JSON values that are neither string, bool nor number
          Unset          \* no value

(* Partial functions from keys to values.                                  *)
Nothing == [k \in {} |-> Unset]
At(map, key) == IF key \in DOMAIN map THEN map[key] ELSE Unset

(* `over` wins, key by key.                                                *)
Overlay(over, under) ==
  [k \in DOMAIN over \cup DOMAIN under |-> IF k \in DOMAIN over THEN over[k] ELSE under[k]]

-----------------------------------------------------------------------------
(* Loading.  The global file is "missing", "malformed" (not JSON, or not   *)
(* readable), or its sections by alias.                                    *)

ReadEnvironmentsAt(root, alias) ==
  IF alias \notin DOMAIN root THEN Nothing
  ELSE [k \in {k \in DOMAIN root[alias] : root[alias][k] \notin Dropped} |-> root[alias][k]]

SectionOf(root, vendor) ==
  FoldRight(LAMBDA alias, merged : Overlay(ReadEnvironmentsAt(root, alias), merged), Aliases[vendor], Nothing)

ExtractAllVendorSections(root) ==
  [v \in {v \in Vendors : DOMAIN SectionOf(root, v) # {}} |-> SectionOf(root, v)]

Shared(env, dotenv) == Overlay(env, IF dotenv.kind = "ok" THEN dotenv.entries ELSE Nothing)

(* At startup a global file that cannot be read is a warning and no        *)
(* sections.                                                               *)
LoadFromSources(env, dotenv, global) ==
  [shared |-> Shared(env, dotenv),
   byVendor |-> IF global.kind = "ok" THEN ExtractAllVendorSections(global.root) ELSE Nothing,
   secrets |-> Nothing]

(* On a reload it is an error, and the configuration in force stays.       *)
LoadFromGlobalBytes(current, env, dotenv, global) ==
  IF global.kind = "malformed" THEN current ELSE LoadFromSources(env, dotenv, global)

WithSecrets(c, secrets) == [c EXCEPT !.secrets = secrets]

-----------------------------------------------------------------------------
(* Lookup.                                                                 *)

SectionAt(c, vendor, key) == IF vendor \in DOMAIN c.byVendor THEN At(c.byVendor[vendor], key) ELSE Unset

RawForAnywhere(c, vendor, key) ==
  IF At(c.shared, key) # Unset THEN At(c.shared, key)
  ELSE IF SectionAt(c, vendor, key) # Unset THEN SectionAt(c, vendor, key)
  ELSE IF \E v \in Vendors : SectionAt(c, v, key) # Unset
  THEN SectionAt(c, CHOOSE v \in Vendors : SectionAt(c, v, key) # Unset, key) ELSE Unset

RawFor(c, vendor, key) ==
  IF At(c.shared, key) # Unset THEN At(c.shared, key) ELSE SectionAt(c, vendor, key)

(* A reference the snapshot does not hold stays as it is written.          *)
Expand(c, raw) ==
  IF raw \in References /\ raw \in DOMAIN c.secrets THEN c.secrets[raw] ELSE raw

GetFor(c, vendor, key) == Expand(c, RawFor(c, vendor, key))

Hits(c, key) == {v \in DOMAIN c.byVendor : key \in DOMAIN c.byVendor[v]}

Resolve(c, key) ==
  LET values == {Expand(c, c.byVendor[v][key]) : v \in Hits(c, key)}
  IN  CASE At(c.shared, key) # Unset -> [kind |-> "resolved", value |-> Expand(c, At(c.shared, key))]
        [] At(c.shared, key) = Unset /\ values = {} -> [kind |-> "missing", value |-> Unset]
        [] At(c.shared, key) = Unset /\ Cardinality(values) = 1 ->
             [kind |-> "resolved", value |-> CHOOSE v \in values : TRUE]
        [] OTHER -> [kind |-> "ambiguous", value |-> Unset]

(* Absent everywhere and disputed between sections look the same.          *)
Get(c, key) == Resolve(c, key).value

(* A value that is not blank once trimmed.                                 *)
Configured(c, key) == Get(c, key) # Unset /\ Get(c, key) \notin Blanks

(* shared, then the vendor's section, then the fallbacks in order.         *)
GetForWithFallback(c, primary, fallbacks, key) ==
  LET found == SelectSeq(<<primary>> \o fallbacks, LAMBDA v : SectionAt(c, v, key) # Unset)
  IN  IF At(c.shared, key) # Unset THEN Expand(c, At(c.shared, key))
      ELSE IF found = <<>> THEN Unset ELSE Expand(c, SectionAt(c, Head(found), key))

(* Presence only: no reference is expanded.                                *)
VendorIsConfigured(c, vendor, slotKeys, prefixKeys) ==
  LET present(v) == v # Unset /\ v \notin Blanks
  IN  \/ vendor \in DOMAIN c.byVendor
           /\ \E k \in DOMAIN c.byVendor[vendor] : present(c.byVendor[vendor][k])
      \/ \E k \in slotKeys : present(RawFor(c, vendor, k))
      \/ \E k \in DOMAIN c.shared \cap prefixKeys : present(c.shared[k])

SecretReferences(c) ==
  ({c.shared[k] : k \in DOMAIN c.shared} \cap References)
    \cup {r \in References : \E v \in DOMAIN c.byVendor : \E k \in DOMAIN c.byVendor[v] : c.byVendor[v][k] = r}

(* The one-shot commands: refused while calls must be journaled, or while  *)
(* a secret is still a reference.                                          *)
CliRefused(c, journalKey) == Configured(c, journalKey) \/ SecretReferences(c) # {}

-----------------------------------------------------------------------------
(* A vendor's lookup never sees another vendor's section (raw_for):        *)
(* editing the sections of other vendors, under any alias, changes no      *)
(* answer for this one; a higher-priority alias and a higher source win    *)
(* key by key; the neutral lookup answers only with a value every section  *)
(* that defines the key agrees on; a one-shot command that is let through  *)
(* sends no unresolved reference; and a reload of a file that cannot be    *)
(* read leaves every answer as it was.                                     *)
AliasesOf(vendor) == {Aliases[vendor][i] : i \in DOMAIN Aliases[vendor]}
Without(root, vendor) == [a \in DOMAIN root \cap AliasesOf(vendor) |-> root[a]]

VendorScoped(env, dotenv, root, key) ==
  LET global(r) == [kind |-> "ok", root |-> r]
      c == LoadFromSources(env, dotenv, global(root))
      alone(v) == LoadFromSources(env, dotenv, global(Without(root, v)))
      winner(v) == SelectSeq(Aliases[v], LAMBDA a : key \in DOMAIN ReadEnvironmentsAt(root, a))
      kept == LoadFromGlobalBytes(c, Nothing, dotenv, [kind |-> "malformed", root |-> Nothing])
  IN  /\ \A v \in Vendors :
           /\ GetFor(c, v, key) = GetFor(alone(v), v, key)
           /\ GetFor(c, v, key) = Unset <=> key \notin DOMAIN Shared(env, dotenv) /\ winner(v) = <<>>
           /\ key \notin DOMAIN Shared(env, dotenv) /\ winner(v) # <<>> =>
                GetFor(c, v, key) = root[Head(winner(v))][key]
           /\ GetForWithFallback(c, v, SetToSeq(Vendors \ {v}), key) = Unset =>
                \A w \in Vendors : GetFor(c, w, key) = Unset
           /\ GetFor(c, v, key) # Unset => GetForWithFallback(c, v, SetToSeq(Vendors \ {v}), key) = GetFor(c, v, key)
           /\ GetFor(c, v, key) \notin Blanks \cup {Unset} => VendorIsConfigured(c, v, {key}, {})
           /\ ~CliRefused(c, "MCP_AUDIT_JOURNAL_DIR") => GetFor(c, v, key) \notin References
           /\ GetFor(kept, v, key) = GetFor(c, v, key)
      /\ Get(c, key) # Unset => \A v \in Vendors : GetFor(c, v, key) \in {Unset, Get(c, key)}
=============================================================================
