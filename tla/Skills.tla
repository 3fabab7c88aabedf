------------------------------- MODULE Skills -------------------------------
(***************************************************************************)
(* SkillsRegistry (src/src/yodmcp/skills/registry.py): built-in skills,    *)
(* and those of the SKILL.md files found at the start of the process, by   *)
(* name.  Roots are numbered in the order in which they are tried          *)
(* (YODMCP_SKILLS_DIR, the working directory, the package), directories in *)
(* the order of their names.  Of a file the model keeps the name it gives, *)
(* in its front matter or by its directory.                                *)
(***************************************************************************)
EXTENDS Naturals, SequencesExt

CONSTANTS
  Roots, Dirs,  \* how many roots there are, and directories in each
  Names,        \* names of skills
  Builtin       \* the names in _BUILTIN

ASSUME SkillsAssumption == {Roots, Dirs} \subseteq Nat /\ Builtin \subseteq Names

VARIABLES
  disk,     \* disk[r][d]: the SKILL.md in directory d of root r
  skills    \* _skills: where the skill of each name in use comes from

skillsVars == <<disk, skills>>

\* An unreadable file raises OSError, a garbled one UnicodeDecodeError.
Broken == {"none", "unreadable", "garbled"}

ASSUME NamesAssumption == Names \cap Broken = {}

Disks == [1 .. Roots -> [1 .. Dirs -> Names \cup Broken]]

BuiltinSkills == [n \in Builtin |-> "builtin"]
-----------------------------------------------------------------------------
\* A file that gives a name; unreadable files are skipped.
IsSkill(r, d) == disk[r][d] \in Names

Filled == {r \in 1 .. Roots : \E d \in 1 .. Dirs : IsSkill(r, d)}

\* The roots that are read: up to the first one with a skill.
Read == {r \in 1 .. Roots : \A q \in 1 .. r - 1 : q \notin Filled}

\* A garbled file is not skipped: what it raises stops the start.
Stopped == \E r \in Read, d \in 1 .. Dirs : disk[r][d] = "garbled"

\* register()
Registered(registry, name, from) ==
  [n \in DOMAIN registry \cup {name} |-> IF n = name THEN from ELSE registry[n]]

\* The skills of a root, in the order of its directories, are registered one after
\* the other: each replaces a built-in one, or an earlier one, of its name.
Load(registry, r) ==
  LET after[d \in 0 .. Dirs] ==
        IF d = 0 THEN registry
        ELSE IF IsSkill(r, d) THEN Registered(after[d - 1], disk[r][d], <<r, d>>)
        ELSE after[d - 1]
  IN after[Dirs]

\* Mutant of LoadDiskSkills: no break after the first root with skills.
LoadAllRoots == FoldLeft(Load, BuiltinSkills, [r \in 1 .. Roots |-> r])

\* load_disk_skills(), and what it finds registered.
LoadDiskSkills == IF Filled \cap Read = {} THEN BuiltinSkills
                  ELSE Load(BuiltinSkills, CHOOSE r \in Filled \cap Read : TRUE)

\* SkillsRegistry()
Start == /\ ~Stopped
         /\ skills' = LoadDiskSkills
         /\ UNCHANGED disk

\* read_uri("skills://n")
ReadUri(n) == IF n \in DOMAIN skills THEN skills[n] ELSE "not found"
-----------------------------------------------------------------------------
Named(r, n) == {d \in 1 .. Dirs : disk[r][d] = n}

\* "Built-in skills (always present)", and one well-defined skill for each name:
\* after a start, n is served from the last file of that name in the first root
\* that has any skill at all, or else is the built-in one, whatever other files
\* cannot be read, and nothing else is served.
SkillsAreServed ==
  \A n \in Names : LET best == ReadUri(n) IN
    \/ \E r \in 1 .. Roots :
         /\ \A q \in 1 .. r - 1, d \in 1 .. Dirs : ~IsSkill(q, d)
         /\ \E d \in Named(r, n) : best = <<r, d>> /\ \A e \in Named(r, n) : e <= d
    \/ /\ best = IF n \in Builtin THEN "builtin" ELSE "not found"
       /\ \A r \in 1 .. Roots : Named(r, n) # {} =>
            \E q \in 1 .. r - 1, d \in 1 .. Dirs : IsSkill(q, d)
=============================================================================
