------------------------------ MODULE NanoIni ------------------------------
(***************************************************************************)
(* libnano's INI files (lib/nanoini.c): a list of sections, each a list of *)
(* options.  A section's name is a sequence of letters; keys and values    *)
(* are taken whole.  The lines of a file are headers and settings.         *)
(***************************************************************************)
EXTENDS Integers, SequencesExt

Header(name) == [type |-> "header", name |-> name]
Setting(key, value) == [type |-> "setting", key |-> key, value |-> value]

(* The lines that a file may have, of the words there are. *)
Lines(Word) ==
  [type : {"header"}, name : Seq(Word)]
    \union [type : {"setting"}, key : Word, value : Word]

(* ini_lookup_section() and ini_lookup_option(): the first that has the    *)
(* name, 0 if there is none.                                               *)
LookupSection(ini, name) == SelectInSeq(ini, LAMBDA section : section.name = name)
LookupOption(section, key) ==
  SelectInSeq(section.options, LAMBDA option : option.key = key)

(* ini_get(), with the default for a section or an option there is not. *)
IniGet(ini, name, key, default) ==
  LET s == LookupSection(ini, name)
      o == LookupOption(ini[s], key)
  IN IF s = 0 \/ o = 0 THEN default ELSE ini[s].options[o].value

(* ini_geti() takes the default only if there is no section: it looks at   *)
(* "s" where it means "o", and reads an option there is not.               *)
ReadsNothing(ini, name, key) ==
  LookupSection(ini, name) # 0 /\ LookupOption(ini[LookupSection(ini, name)], key) = 0

Option(key, value) == [key |-> key, value |-> value]

(* Mutant of IniSet: an option that is there is set by a second one. *)
IniSetAgain(ini, name, key, value) ==
  LET s == LookupSection(ini, name)
  IN IF s = 0 THEN Append(ini, [name |-> name, options |-> <<Option(key, value)>>])
     ELSE [ini EXCEPT ![s].options = Append(@, Option(key, value))]

(* ini_set(), which makes the section or the option if need be. *)
IniSet(ini, name, key, value) ==
  LET s == LookupSection(ini, name)
      o == LookupOption(ini[s], key)
  IN IF s = 0 THEN Append(ini, [name |-> name, options |-> <<Option(key, value)>>])
     ELSE IF o = 0 THEN [ini EXCEPT ![s].options = Append(@, Option(key, value))]
     ELSE [ini EXCEPT ![s].options[o].value = value]

(* A header's name is copied over the last one by strncpy(), which ends it *)
(* by no zero: what was longer keeps its tail.                             *)
Rename(section, name) == name \o SubSeq(section, Len(name) + 1, Len(section))

(* ini_section_save(): a header and the settings; the blank line that ends *)
(* them says nothing to a reader.                                          *)
SectionSave(section) ==
  <<Header(section.name)>> \o
    [i \in DOMAIN section.options |-> Setting(section.options[i].key, section.options[i].value)]

(* Mutant of IniSave: the sections go out last first. *)
IniSaveBackwards(ini) == FlattenSeq([i \in DOMAIN ini |-> SectionSave(ini[Len(ini) + 1 - i])])

(* ini_save() *)
IniSave(ini) == FlattenSeq([i \in DOMAIN ini |-> SectionSave(ini[i])])

(* A turn of ini_open()'s loop. *)
ReadLine(state, line) ==
  IF line.type = "header" THEN [state EXCEPT !.section = Rename(@, line.name)]
  ELSE [state EXCEPT !.ini = IniSet(@, state.section, line.key, line.value)]

(* ini_open() *)
IniOpen(lines) ==
  LET read[n \in 0..Len(lines)] ==
        IF n = 0 THEN [ini |-> <<>>, section |-> <<"_">>] ELSE ReadLine(read[n - 1], lines[n])
  IN read[Len(lines)].ini
=============================================================================
