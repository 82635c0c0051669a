----------------------------- MODULE PluginHooks -----------------------------
(***************************************************************************)
(* Plugin installation and the hook chains: install_all of                 *)
(* leti-plugin-registry, the registration API of leti-plugin-api and the   *)
(* chain types and runner of leti-core (dispatch.rs, dispatch/runner.rs).  *)
(* Pure operators; ModelStream runs a chain one hook at a time.            *)
(*                                                                         *)
(* A plugin is a record: its manifest (id, the capabilities it declares,   *)
(* whether its core version requirement matches), how install returns, and *)
(* what install registers: hooks, tools, and at most one provider.  Ids    *)
(* are numbers ordered as the manifest id strings are.                     *)
(***************************************************************************)
EXTENDS Naturals, Sequences, FiniteSets, SequencesExt

None == {}
Some(x) == {x}

(***************************************************************************)
(* `a.or(b)` on options, and the value inside one.                         *)
(***************************************************************************)
Or(a, b) == IF a # None THEN a ELSE b
The(o) == CHOOSE x \in o : TRUE

(***************************************************************************)
(* Registration.  A hook, tool or provider whose capability the manifest   *)
(* does not declare is an error of the plugin's own install.               *)
(***************************************************************************)
Declared(p) ==
    /\ \A i \in DOMAIN p.hooks : p.hooks[i].kind \in p.caps
    /\ p.tools # <<>> => "tool" \in p.caps
    /\ p.provider # None => "provider" \in p.caps

MakeEntry(p, i) ==
    [manifest_id |-> p.id, priority |-> p.hooks[i].priority,
     registration_index |-> i - 1, kind |-> p.hooks[i].kind,
     sets |-> p.hooks[i].sets]

IntoRegistrations(p) == [i \in DOMAIN p.hooks |-> MakeEntry(p, i)]

(***************************************************************************)
(* install_all: a duplicate id, a version the manifest does not accept, an *)
(* error or a panic of install, or a tool name already taken refuses the   *)
(* whole boot; the first provider wins.                                    *)
(***************************************************************************)
InstallOne(acc, p) ==
    IF \/ ~acc.ok
       \/ p.id \in acc.seen_ids
       \/ ~p.version_ok
       \/ p.install # "ok"
       \/ ~Declared(p)
       \/ ToSet(p.tools) \cap acc.tools # {}
       \/ Cardinality(ToSet(p.tools)) # Len(p.tools)
    THEN [acc EXCEPT !.ok = FALSE]
    ELSE [ok       |-> TRUE,
          seen_ids |-> acc.seen_ids \cup {p.id},
          tools    |-> acc.tools \cup ToSet(p.tools),
          provider |-> Or(acc.provider, p.provider),
          entries  |-> acc.entries \o IntoRegistrations(p)]

\* Canonical order: priority descending, manifest id, registration index.
Before(a, b) ==
    \/ a.priority > b.priority
    \/ /\ a.priority = b.priority
       /\ \/ a.manifest_id < b.manifest_id
          \/ /\ a.manifest_id = b.manifest_id
             /\ a.registration_index < b.registration_index

SortChain(entries) == SortSeq(entries, Before)

InstallAll(plugins) ==
    LET merged == FoldLeft(InstallOne,
                           [ok |-> TRUE, seen_ids |-> {}, tools |-> {},
                            provider |-> None, entries |-> <<>>], plugins)
    IN  [merged EXCEPT !.entries = SortChain(@)]

Chain(entries, kind) == SelectSeq(entries, LAMBDA e : e.kind = kind)

(***************************************************************************)
(* What one hook may answer.  Continue and Replace both thread the new     *)
(* context on; the three faults become a synthetic Deny.                   *)
(***************************************************************************)
FaultKinds == {"construction_panic", "poll_panic", "timeout"}
HookResults == {"continue", "replace", "stop", "deny"} \cup FaultKinds

\* What the runner makes of one answer: go on, or an outcome of the chain.
DispatchOutcome(answer) ==
    CASE answer \in {"continue", "replace"} -> "on"
      [] answer = "stop"                    -> "stopped"
      [] OTHER                              -> "denied"

=============================================================================
