------------------------------- MODULE Skills -------------------------------
(***************************************************************************)
(* Signed skills and reviewed MCP tools: which skill package the processes  *)
(* that take a run on one after the other work with, and which capabilities *)
(* it gives them.                                                           *)
(*                                                                          *)
(* A process reads the packages and the trusted signers when it starts and  *)
(* never again, builds its catalog out of the MCP server's tools and its    *)
(* own capabilities, and pins a skill to the run or resumes the pinned one. *)
(* Meanwhile others release packages, revoke signers, edit files and change *)
(* the server.  A call that raises, and so changes nothing, is no step.     *)
(*                                                                          *)
(* A signature is what was signed and by whom, a hash is the content it is  *)
(* of.  Expiry and revocation come down to the time from which a package or *)
(* a signer is refused.  The task and the stage, with which the grants are  *)
(* intersected too, allow everything here.                                  *)
(***************************************************************************)
EXTENDS Integers

CONSTANTS
  Procs,       \* the processes that work on the run
  SkillIds,    \* skill ID and version
  Contents,    \* the texts a skill may have
  Signers,     \* signer IDs
  Tools,       \* capabilities mapped to tools of the MCP server
  BuiltIn,     \* the other capabilities
  MaxChanges,  \* bound on what others do
  None

VARIABLES
  shelf,       \* the trusted directory: skill -> package
  signerUntil, \* the trusted signers: signer -> the time from which it is refused
  offered,     \* the MCP server's tools: tool -> "reviewed", "changed" or "missing"
  now,         \* the time
  changes,     \* what others have done so far
  pin,         \* the row of run_skill_pins
  at,          \* where each process is
  registry,    \* its packages
  trusted,     \* its signers
  catalog,     \* its catalog: capability -> version
  skill,       \* the package it has resolved
  grants,      \* the capabilities effective under it
  drifted      \* tools that changed after the process had discovered them

world   == <<shelf, signerUntil, offered, now, changes>>
process == <<at, registry, trusted, catalog, skill, grants>>
skills  == <<world, pin, process, drifted>>

EffectRank(c) == IF c \in Tools THEN 0 ELSE 1      \* every MCP mapping is read only
Versions == {1, 2}                                 \* a catalog has version 1
Never == MaxChanges + 1

(* A package as its signer releases it, one that somebody edits under its   *)
(* signature, and what a pin keeps of a package.                            *)
Seal(manifest, content) ==
  [manifest |-> manifest, content |-> content,
   signature |-> [by |-> manifest.signer, manifest |-> manifest, content |-> content]]

Edited(package, manifest, content) ==
  [manifest |-> manifest, content |-> content, signature |-> package.signature]

SkillPin(package) ==
  [skill |-> package.manifest.skill, sha256 |-> package.manifest.sha256,
   signature |-> package.signature, signer |-> package.manifest.signer]

FirstPackage(k) ==
  LET text == CHOOSE c \in Contents : TRUE IN
  Seal([skill |-> k, sha256 |-> text, signer |-> CHOOSE s \in Signers : TRUE,
        grants |-> (Tools \cup BuiltIn) \X Versions, maximum |-> 0, until |-> Never,
        applies |-> TRUE], text)

Init ==
  /\ shelf = [k \in SkillIds |-> FirstPackage(k)]
  /\ signerUntil = [s \in Signers |-> Never]
  /\ offered = [t \in Tools |-> "reviewed"]
  /\ now = 0 /\ changes = 0
  /\ pin = None
  /\ at = [p \in Procs |-> "down"]
  /\ registry = [p \in Procs |-> None] /\ trusted = [p \in Procs |-> None]
  /\ catalog = [p \in Procs |-> None]
  /\ skill = [p \in Procs |-> None] /\ grants = [p \in Procs |-> {}]
  /\ drifted = [p \in Procs |-> {}]

Goto(p, to) == at' = [at EXCEPT ![p] = to]
-----------------------------------------------------------------------------
(* A process starts: from_trusted_directory, TrustedSignerRegistry.         *)
Load(p) ==
  /\ at[p] = "down"
  /\ Goto(p, "loaded")
  /\ registry' = [registry EXCEPT ![p] = shelf]
  /\ trusted' = [trusted EXCEPT ![p] = signerUntil]
  /\ UNCHANGED <<world, pin, catalog, skill, grants, drifted>>

(* MCPAllowlistAdapter.capabilities.  First the transport's initialize: it  *)
(* is done when the server has answered both its requests, and a failure    *)
(* makes the next call begin again.                                         *)
Initialize(p) ==
  /\ at[p] = "loaded"
  /\ Goto(p, "connected")
  /\ UNCHANGED <<world, pin, registry, trusted, catalog, skill, grants, drifted>>

(* Then the tools are listed; one that is missing, or whose schema is not   *)
(* the reviewed one, is quarantined.                                        *)
Discover(p) ==
  /\ at[p] = "connected"
  /\ Goto(p, "ready")
  /\ catalog' = [catalog EXCEPT ![p] =
       [c \in {t \in Tools : offered[t] = "reviewed"} \cup BuiltIn |-> 1]]
  /\ UNCHANGED <<world, pin, registry, trusted, skill, grants, drifted>>
-----------------------------------------------------------------------------
(* TrustedSignerRegistry.verify.                                            *)
Verified(p, package) ==
  /\ now < trusted[p][package.manifest.signer]
  /\ package.signature = Seal(package.manifest, package.content).signature

Resolvable(p, k) ==
  LET package == registry[p][k] IN
  /\ package.manifest.sha256 = package.content
  /\ Verified(p, package)
  /\ now < package.manifest.until
  /\ package.manifest.applies

EffectiveCapabilities(p, package) ==
  {g \in package.manifest.grants :
     /\ g[1] \in DOMAIN catalog[p] /\ catalog[p][g[1]] = g[2]
     /\ EffectRank(g[1]) <= package.manifest.maximum}

WorkWith(p, package) ==
  /\ Goto(p, "working")
  /\ skill' = [skill EXCEPT ![p] = package]
  /\ grants' = [grants EXCEPT ![p] = EffectiveCapabilities(p, package)]

(* pin_run: resolve, and then store.pin_skill.                              *)
Resolve(p, k) ==
  /\ at[p] = "ready" /\ Resolvable(p, k)
  /\ Goto(p, "resolved")
  /\ skill' = [skill EXCEPT ![p] = registry[p][k]]
  /\ UNCHANGED <<world, pin, registry, trusted, catalog, grants, drifted>>

PinSkillOrIgnore(p) ==           \* broken form: INSERT OR IGNORE, and no comparison
  /\ at[p] = "resolved"
  /\ pin' = IF pin = None THEN SkillPin(skill[p]) ELSE pin
  /\ WorkWith(p, skill[p])
  /\ UNCHANGED <<world, registry, trusted, catalog, drifted>>

PinSkill(p) ==
  /\ at[p] = "resolved" /\ pin \in {None, SkillPin(skill[p])}
  /\ pin' = SkillPin(skill[p])
  /\ WorkWith(p, skill[p])
  /\ UNCHANGED <<world, registry, trusted, catalog, drifted>>

(* skill_pin and resume.                                                    *)
Resume(p) ==
  /\ at[p] = "ready" /\ pin # None /\ Resolvable(p, pin.skill)
  /\ SkillPin(registry[p][pin.skill]) = pin
  /\ WorkWith(p, registry[p][pin.skill])
  /\ UNCHANGED <<world, pin, registry, trusted, catalog, drifted>>

(* The process ends, or dies.                                               *)
Stop(p) ==
  /\ at[p] # "down"
  /\ Goto(p, "down")
  /\ registry' = [registry EXCEPT ![p] = None] /\ trusted' = [trusted EXCEPT ![p] = None]
  /\ catalog' = [catalog EXCEPT ![p] = None]
  /\ skill' = [skill EXCEPT ![p] = None] /\ grants' = [grants EXCEPT ![p] = {}]
  /\ drifted' = [drifted EXCEPT ![p] = {}]
  /\ UNCHANGED <<world, pin>>
-----------------------------------------------------------------------------
(* Others.                                                                  *)
Change == changes < MaxChanges /\ changes' = changes + 1

(* What may stand on the shelf in place of a package: the next release, a   *)
(* release by another signer or for another repository, a revocation, and   *)
(* an edited text, with or without its hash, or manifest.                   *)
Replacements(package) ==
  LET m == package.manifest IN
       {Seal([m EXCEPT !.sha256 = c], c) : c \in Contents}
  \cup {Seal([m EXCEPT !.signer = s], package.content) : s \in Signers}
  \cup {Seal([m EXCEPT !.applies = FALSE], package.content),
        Seal([m EXCEPT !.until = now], package.content)}
  \cup {Edited(package, m, c) : c \in Contents}
  \cup {Edited(package, [m EXCEPT !.sha256 = c], c) : c \in Contents}
  \cup {Edited(package, [m EXCEPT !.maximum = 1], package.content)}

Replace(k) ==
  /\ Change
  /\ \E package \in Replacements(shelf[k]) : shelf' = [shelf EXCEPT ![k] = package]
  /\ UNCHANGED <<signerUntil, offered, now, pin, process, drifted>>

RevokeSigner(s) ==
  /\ Change
  /\ signerUntil' = [signerUntil EXCEPT ![s] = now]
  /\ UNCHANGED <<shelf, offered, now, pin, process, drifted>>

ChangeTool(t) ==
  /\ Change
  /\ \E o \in {"reviewed", "changed", "missing"} \ {offered[t]} :
       offered' = [offered EXCEPT ![t] = o]
  /\ drifted' = [p \in Procs |-> IF at[p] \in {"ready", "resolved", "working"}
                                 THEN drifted[p] \cup {t} ELSE drifted[p]]
  /\ UNCHANGED <<shelf, signerUntil, now, pin, process>>

Tick ==
  /\ Change
  /\ now' = now + 1
  /\ UNCHANGED <<shelf, signerUntil, offered, pin, process, drifted>>

Next ==
  \/ \E p \in Procs :
       \/ Load(p) \/ Initialize(p) \/ Discover(p)
       \/ (\E k \in SkillIds : Resolve(p, k)) \/ PinSkill(p) \/ Resume(p) \/ Stop(p)
  \/ (\E k \in SkillIds : Replace(k)) \/ (\E s \in Signers : RevokeSigner(s))
  \/ (\E t \in Tools : ChangeTool(t)) \/ Tick
-----------------------------------------------------------------------------
(* Properties.                                                              *)
Manifests ==
  [skill : SkillIds, sha256 : Contents, signer : Signers,
   grants : SUBSET ((Tools \cup BuiltIn) \X Versions), maximum : {0, 1}, until : 0..Never,
   applies : BOOLEAN]

Signatures == [by : Signers, manifest : Manifests, content : Contents]
Packages   == [manifest : Manifests, content : Contents, signature : Signatures]
Pins       == [skill : SkillIds, sha256 : Contents, signature : Signatures, signer : Signers]

(* The variables have their types.                                          *)
TypeOK ==
  /\ shelf \in [SkillIds -> Packages] /\ signerUntil \in [Signers -> 0..Never]
  /\ offered \in [Tools -> {"reviewed", "changed", "missing"}]
  /\ now \in 0..MaxChanges /\ changes \in 0..MaxChanges
  /\ pin \in Pins \cup {None}
  /\ at \in [Procs -> {"down", "loaded", "connected", "ready", "resolved", "working"}]
  /\ \A p \in Procs :
       /\ IF at[p] = "down" THEN registry[p] = None ELSE registry[p] \in [SkillIds -> Packages]
       /\ catalog[p] = None <=> at[p] \in {"down", "loaded", "connected"}
       /\ IF at[p] \in {"resolved", "working"} THEN skill[p] \in Packages ELSE skill[p] = None
       /\ grants[p] \subseteq (Tools \cup BuiltIn) \X Versions
       /\ drifted[p] \subseteq Tools

(* All processes that work on a run, those that raced to pin a skill and    *)
(* those that resumed it after packages were replaced, work with the one    *)
(* package that is pinned, word for word as it was signed.  What it grants  *)
(* them its signer granted, under the ceiling that was signed and at the    *)
(* version of their catalog; and a tool among it is the reviewed one,       *)
(* unless the server changed it after the process had discovered it: that   *)
(* exception is real, the schema is compared at discovery only.             *)
SkillStaysPinned ==
  \A p \in Procs : at[p] = "working" =>
    LET signed == skill[p].signature IN
    /\ SkillPin(skill[p]) = pin
    /\ skill[p] = Seal(signed.manifest, signed.content)
    /\ \A q \in Procs : at[q] = "working" => skill[q] = skill[p]
    /\ \A g \in grants[p] :
         /\ g \in signed.manifest.grants /\ EffectRank(g[1]) <= signed.manifest.maximum
         /\ catalog[p][g[1]] = g[2]
         /\ g[1] \in Tools => offered[g[1]] = "reviewed" \/ g[1] \in drifted[p]
=============================================================================
