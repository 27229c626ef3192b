----------------------------- MODULE Pseudonyms -----------------------------
(***************************************************************************)
(* The substitution of identities by placeholders and back                 *)
(* (app/src/lib/privacy/pseudonymise.ts).  A text is a sequence of atoms:  *)
(* words and separators; two words in a row are one longer word that       *)
(* begins with the first.  Letter case, accents and markup are left out.   *)
(* There is no state but the input: a roster, and a text that grows.       *)
(***************************************************************************)
EXTENDS Naturals, Sequences, SequencesExt

CONSTANTS
  Rosters,     (* sequences of people, [variants, address]; an address may be <<>>*)
  Snippets,    (* what a text is put together from                              *)
  MaxSnippets, (* bound on the text                                             *)
  Words,       (* the atoms that are letters                                    *)
  Separators,  (* atoms that stand between words                                *)
  Most,        (* how many people there may be, and names of one                *)
  Numerals,    (* the atoms that number them                                    *)
  Particles,   (* the words that do not begin a name                            *)
  Short        (* words of fewer letters than a part of a name may have         *)

VARIABLES roster, text, size

nymVars == <<roster, text, size>>

NymInit == roster \in Rosters /\ text = <<>> /\ size = 0
NymNext ==
  /\ size < MaxSnippets /\ size' = size + 1
  /\ \E s \in Snippets : text' = text \o s
  /\ UNCHANGED roster
NymSpec == NymInit /\ [][NymNext]_nymVars

-----------------------------------------------------------------------------
(* Letters in a literal: three in a word, two in a short one.                *)
LettersOf(atom) == IF atom \in Short THEN 2 ELSE IF atom \in Words THEN 3 ELSE 1
Letters(literal) == FoldLeft(LAMBDA n, atom : n + LettersOf(atom), 0, literal)

Space == " "

(* The words between separators, and words put together again.               *)
SplitOn(seps, literal) ==
  LET step(acc, i) == IF literal[i] \in seps THEN acc
                      ELSE IF acc = <<>> \/ literal[i - 1] \in seps THEN Append(acc, <<literal[i]>>)
                      ELSE [acc EXCEPT ![Len(acc)] = Append(@, literal[i])]
  IN  FoldLeft(step, <<>>, [i \in DOMAIN literal |-> i])
Joined(parts, between) ==
  FoldLeft(LAMBDA acc, p : IF acc = <<>> THEN p ELSE acc \o between \o p, <<>>, parts)

(* nameParts: the first word that may be a given name, and the last word with*)
(* the particles before it; nothing of a single word.                        *)
IsParticle(part) == Len(part) = 1 /\ part[1] \in Particles
GivenName(name) ==
  LET parts == SplitOn({Space}, name)
      fit   == {i \in DOMAIN parts : Letters(parts[i]) >= 3 /\ ~IsParticle(parts[i])}
  IN  IF Len(parts) < 2 \/ fit = {} THEN <<>> ELSE parts[Min(fit)]
FamilyName(name) ==
  LET parts  == SplitOn({Space}, name)
      starts == {i \in DOMAIN parts : \A j \in i..(Len(parts) - 1) : IsParticle(parts[j])}
      family == Joined(SubSeq(parts, Min(starts), Len(parts)), <<Space>>)
  IN  IF Len(parts) < 2 \/ Letters(family) < 3 \/ family = GivenName(name) THEN <<>> ELSE family

LocalPart(address) ==
  LET at == CHOOSE i \in DOMAIN address : address[i] = "@"
  IN  SubSeq(address, 1, at - 1)
AddressSlug(address) == [i \in DOMAIN address |-> IF address[i] \in {"@", "."} THEN "_" ELSE address[i]]

(* NAME_LIKE_LOCAL, or one of the person's own names without its spaces.     *)
IsIdentity(local, person) ==
  \/ /\ Len(local) > 1 /\ \A i \in DOMAIN local : (i % 2 = 1) <=> local[i] \in Words
     /\ local[Len(local)] \in Words
  \/ \E i \in DOMAIN person.variants : Joined(SplitOn({Space}, person.variants[i]), <<>>) = local

(* What a person may be called, in the order in which they claim it.         *)
Form(value, kind, n, part) == [value |-> value, kind |-> kind, n |-> n, part |-> part]
Wholes(person) ==
  [i \in DOMAIN person.variants |-> Form(person.variants[i], IF i = 1 THEN "" ELSE "NAME", i, FALSE)]
  \o IF person.address = <<>> THEN <<>>
     ELSE <<Form(person.address, "EMAIL", 1, FALSE), Form(AddressSlug(person.address), "SLUG", 1, FALSE)>>
          \o IF IsIdentity(LocalPart(person.address), person)
             THEN <<Form(LocalPart(person.address), "LOCAL", 1, FALSE)>> ELSE <<>>
NameParts(person) ==
  [i \in 1..(2 * Len(person.variants)) |->
     LET name == person.variants[(i + 1) \div 2]
     IN  IF i % 2 = 1 THEN Form(GivenName(name), "GIVEN", 0, TRUE) ELSE Form(FamilyName(name), "FAMILY", 0, TRUE)]

(* A part is numbered among those of its kind.  Mutant: it is not.           *)
UnNumbered(forms, form, id) == IF form.part THEN 1 ELSE form.n
Numbered(forms, form, id) ==
  IF form.part THEN Cardinality({i \in DOMAIN forms : forms[i].id = id /\ forms[i].kind = form.kind}) + 1 ELSE form.n

(* add: a literal belongs to the first who claims it.                        *)
Claim(forms, form, id) ==
  IF form.value = <<>> \/ \E i \in DOMAIN forms : forms[i].value = form.value THEN forms
  ELSE Append(forms, [id |-> id, value |-> form.value, part |-> form.part, kind |-> form.kind,
                      n |-> Numbered(forms, form, id)])
ClaimAll(forms, id, claims) == FoldLeft(LAMBDA acc, form : Claim(acc, form, id), forms, claims)
BuildTable(people) ==
  FoldLeft(LAMBDA acc, id : ClaimAll(acc, id, Wholes(people[id]) \o NameParts(people[id])),
           <<>>, [i \in DOMAIN people |-> i])

-----------------------------------------------------------------------------
(* PERSON_1, PERSON_1_EMAIL, PERSON_1_GIVEN2, ...                            *)
Digit(n) == Numerals[n]
Bare(id) == <<"PERSON", "_", Digit(id)>>
Placeholder(form) ==
  Bare(form.id) \o IF form.kind = "" THEN <<>>
                   ELSE <<"_", form.kind>> \o IF form.n = 1 THEN <<>> ELSE <<Digit(form.n)>>
PlaceWords == {"PERSON", "EMAIL", "SLUG", "LOCAL", "NAME", "GIVEN", "FAMILY"} \cup {Digit(n) : n \in 1..Most}

(* The fences: a literal does not begin or end inside a word, and the part of*)
(* a name not beside a hyphen either.                                        *)
Inside == Words \cup PlaceWords \cup {"_"}
Fenced(t, i, length, fence) ==
  /\ i > 1 => t[i - 1] \notin fence
  /\ i + length <= Len(t) => t[i + length] \notin fence
Occurs(t, i, literal, fence) ==
  /\ i + Len(literal) <= Len(t) + 1 /\ SubSeq(t, i, i + Len(literal) - 1) = literal
  /\ Fenced(t, i, Len(literal), fence)

Longest(pairs) == CHOOSE p \in pairs : \A q \in pairs : Letters(p.from) >= Letters(q.from)

(* One pass from left to right.  found is what occurs at a place; of that the*)
(* longest is replaced, and the pass goes on behind it.                      *)
Replaced(t, found) ==
  LET pass[i \in 1..(Len(t) + 1)] ==
        IF i > Len(t) THEN <<>>
        ELSE LET at == found[i]
             IN  IF at = {} THEN <<t[i]>> \o pass[i + 1]
                 ELSE Longest(at).to \o pass[i + Len(Longest(at).from)]
  IN  pass[1]

(* buildMatcher and substitute: whole identities come before parts of names. *)
Apply(t, table) ==
  LET pairs(part, fence, i) ==
        {[from |-> table[k].value, to |-> Placeholder(table[k])] :
           k \in {j \in DOMAIN table : table[j].part = part /\ Occurs(t, i, table[j].value, fence)}}
      found(i) == IF pairs(FALSE, Inside, i) # {} THEN pairs(FALSE, Inside, i)
                  ELSE pairs(TRUE, Inside \cup {"-"}, i)
  IN  Replaced(t, [i \in DOMAIN t |-> found(i)])

(* What a bare placeholder stands for if no form has it.                     *)
Fallback(person) == IF person.variants # <<>> THEN person.variants[1] ELSE person.address

(* reverse: of two forms of one placeholder the first stands for it.         *)
Restore(t, table, people) ==
  LET firsts   == {k \in DOMAIN table : \A j \in 1..(k - 1) : Placeholder(table[j]) # Placeholder(table[k])}
      literals == {[from |-> Placeholder(table[k]), to |-> table[k].value] : k \in firsts}
      others   == {[from |-> Bare(id), to |-> Fallback(people[id])] :
                     id \in {p \in DOMAIN people : \A l \in literals : l.from # Bare(p)}}
      found(i) == {p \in literals \cup others : p.to # <<>> /\ Occurs(t, i, p.from, Inside)}
  IN  Replaced(t, [i \in DOMAIN t |-> found(i)])

-----------------------------------------------------------------------------
(* What the identities and the texts are taken to be: a name or an address   *)
(* begins and ends with a letter, as does each word of a name; and PERSON    *)
(* stands in none of them.  The digits are those the placeholders need.      *)
Atoms   == Words \cup Separators \cup PlaceWords \cup {Space, "_"}
Natural == Atoms \ {"PERSON"}
Spelled(literal) ==
  /\ literal \in Seq(Natural) /\ literal # <<>>
  /\ literal[1] \in Words /\ literal[Len(literal)] \in Words
IsName(name) ==
  /\ Spelled(name)
  /\ \A i \in DOMAIN name : name[i] = Space => i > 1 /\ i < Len(name) /\ name[i - 1] \in Words /\ name[i + 1] \in Words
IsAddress(address) ==
  \/ address = <<>>
  \/ Spelled(address) /\ \E i \in DOMAIN address : address[i] = "@"
IsPerson(person) ==
  /\ person.variants \in Seq(Seq(Natural)) /\ Len(person.variants) <= Most
  /\ \A i \in DOMAIN person.variants : IsName(person.variants[i])
  /\ IsAddress(person.address)
IsPeople(people) ==
  Len(people) \in 0..Most /\ DOMAIN people = 1..Len(people) /\ \A id \in DOMAIN people : IsPerson(people[id])

ASSUME NymAssumption ==
  /\ Most \in Nat \ {0} /\ \A m, n \in 1..Most : Numerals[m] = Numerals[n] => m = n
  /\ Words \cap (PlaceWords \cup {"_", "@", ".", Space}) = {}
  /\ Snippets \subseteq Seq(Natural)
  /\ \A people \in Rosters : IsPeople(people)

-----------------------------------------------------------------------------
(* Putting the identities back restores the text; and a second pass finds    *)
(* nothing: no identity that stands free is left, or made, by the first.     *)
RoundTrips ==
  LET table == BuildTable(roster)
      once  == Apply(text, table)
  IN  Restore(once, table, roster) = text /\ Apply(once, table) = once

(* Not so: the longest identity wins.  The whole name of one person comes    *)
(* before the longer part of another's: of "Ann-Lee" only Ann is replaced.   *)
LongestWins ==
  LET table == BuildTable(roster)
  IN  \A k \in DOMAIN table : text = table[k].value => Apply(text, table) = Placeholder(table[k])
==============================================================================
