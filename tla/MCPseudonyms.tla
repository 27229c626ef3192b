----------------------------- MODULE MCPseudonyms ----------------------------
(* Rosters in which people share a name, have two, or only an address; and  *)
(* texts that name them in every way, glued, hyphened, or beside others.    *)
EXTENDS Pseudonyms

MCWords == {"ann", "lee", "van", "bo"}
MCSeparators == {"-", ".", "@"}
MCNumerals == <<"1", "2", "3", "4">>
MCPerson(variants, address) == [variants |-> variants, address |-> address]
AnnLee   == <<"ann", " ", "lee">>
BoVanLee == <<"bo", " ", "van", " ", "lee">>
AnnMail  == <<"ann", ".", "lee", "@", "bo">>
MCRosters ==
  { << >>,
    << MCPerson(<<AnnLee>>, AnnMail), MCPerson(<<BoVanLee>>, <<"lee", "@", "bo">>) >>,
    << MCPerson(<<AnnLee, BoVanLee, <<"van", " ", "ann">>, <<"lee", " ", "ann">> >>, << >>) >>,
    << MCPerson(<< >>, AnnMail), MCPerson(<< <<"lee">> >>, <<"lee", "@", "bo">>) >>,
    << MCPerson(<< <<"ann", "-", "lee", " ", "van">> >>, << >>), MCPerson(<< <<"ann">> >>, << >>) >> }
MCSnippets ==
  { <<"ann">>, <<"lee">>, <<"van">>, <<"bo">>, <<" ">>, <<"-">>, <<"_">>, <<".">>,
    AnnLee, <<"van", " ", "lee">>, BoVanLee, AnnMail, AddressSlug(AnnMail), <<"@", "bo">>, <<"ann", "-", "lee">> }
==============================================================================
