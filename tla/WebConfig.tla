----------------------------- MODULE WebConfig ------------------------------
(***************************************************************************)
(* How the web example keeps its configuration in flash: three pages, each *)
(* with the flags 0x57 0xAB in its first word.  A form that a browser      *)
(* posts is saved into its page word by word after an erase (Refresh_Basic,*)
(* Refresh_Port and Refresh_Login of HTTPS.c); main reads the pages when   *)
(* the program starts, and restores the defaults of all three when the     *)
(* button is held or a page has no flags.  Power may fail between any two  *)
(* of these steps, and the programming of a word may fail, which nobody    *)
(* looks at.                                                               *)
(*                                                                         *)
(* What a page says is a sequence of numbers; for the login page, the user *)
(* name, a zero, and the password.                                         *)
(***************************************************************************)
EXTENDS Naturals, Sequences, FiniteSets, SequencesExt

CONSTANTS
  Words,             \* the words of each page, by page
  Default,           \* what the defaults say, by page
  Forms,             \* forms: [keys, setting, user, pass], as they were filled in
  UserLen, PassLen,  \* the room for a name and for a password
  Wide,              \* the values of an uint8_t
  MaxFaults          \* bounds power failures and failures to program a word

Pages == {"basic", "port", "login"}

WebConfigAssumption ==
  /\ Words \in [Pages -> Nat \ {0}] /\ \A p \in Pages : Default[p] # <<>>
  /\ UserLen \in Nat \ {0} /\ PassLen \in Nat \ {0} /\ MaxFaults \in Nat
  /\ Wide \in Nat /\ Wide > UserLen /\ Wide > PassLen
  /\ \A form \in Forms :
       /\ form.keys \in Seq(STRING) /\ form.setting # <<>>
       /\ form.user \in Seq(0 .. 255) /\ form.pass \in Seq(0 .. 255)

VARIABLES
  flash,    \* flash[page][n]: what the n-th word is a word of
  ram,      \* Basic_CfgBuf, Port_CfgBuf, Login_CfgBuf
  doing,    \* "boot", "held", "restore", "run" or "save"
  todo,     \* [page, setting, word]: the pages to erase and to write, in order
  faults,
  entered,  \* what each page ought to say (of the history, as all that follows)
  hurt,     \* the pages whose last writing did not come to its end
  saved,    \* the pages that were erased since the program started
  cause     \* why the defaults are being restored

vars == <<flash, ram, doing, todo, faults, entered, hurt, saved, cause>>

Erased == <<>>
Page(p, s) == [n \in 1 .. Words[p] |-> s]
HasFlags(page) == page[1] # Erased

-----------------------------------------------------------------------------
(* DataLocate: the place of the first such key behind another place; one   *)
(* past the end if there is none.                                          *)
DataLocate(keys, at, key) ==
  LET found == {i \in at + 1 .. Len(keys) : keys[i] = key}
  IN  IF found = {} THEN Len(keys) + 1 ELSE CHOOSE i \in found : \A j \in found : i <= j

Keys == [basic |-> <<"__PMAC", "__PSIP", "__PMSK", "__PGAT">>,
         port |-> <<"__PMOD", "__PSPT", "__PDIP", "__PDPT">>,
         login |-> <<"__PUSE", "__PPAS">>]

(* A Refresh function looks for each key behind the one before it, and     *)
(* returns when there is none.                                             *)
HasKeys(keys, p) ==
  LET At[n \in 0 .. Len(Keys[p])] == IF n = 0 THEN 0 ELSE DataLocate(keys, At[n - 1], Keys[p][n])
  IN  At[Len(Keys[p])] <= Len(keys)

Plus == 43
Percent == 37
Blank == 32
Digits == 48 .. 57
Letters == (65 .. 90) \cup (97 .. 122)

(* What a browser makes of a field.                                        *)
Hex(d) == IF d < 10 THEN 48 + d ELSE 55 + d
Encode(s) ==
  FlattenSeq([n \in DOMAIN s |->
    IF s[n] = Blank THEN <<Plus>>
    ELSE IF s[n] \in Digits \cup Letters THEN <<s[n]>>
    ELSE <<Percent, Hex(s[n] \div 16), Hex(s[n] % 16)>>])

NotHex == 256
ASCToDec(ch) ==
  IF ch \in Digits THEN ch - 48
  ELSE IF ch \in 97 .. 102 THEN ch - 87
  ELSE IF ch \in 65 .. 70 THEN ch - 55 ELSE NotHex

(* The characters of a field; none if a percent sign is not followed by    *)
(* two digits or there are too many.  What lies behind it is no digit.     *)
URLDecode(s) ==
  LET From[i \in 1 .. Len(s) + 1] ==
        IF i > Len(s) THEN <<>>
        ELSE IF s[i] # Percent THEN <<s[i]>> \o From[i + 1]
        ELSE IF i + 2 > Len(s) \/ NotHex \in {ASCToDec(s[i + 1]), ASCToDec(s[i + 2])}
             THEN <<NotHex>>
             ELSE <<16 * ASCToDec(s[i + 1]) + ASCToDec(s[i + 2])>> \o From[i + 3]
  IN  IF NotHex \in ToSet(From[1]) \/ Len(From[1]) > PassLen THEN <<>> ELSE From[1]

(* What Refresh_Login makes of the two fields, whose lengths are bytes; it *)
(* decodes the password and not the name.                                  *)
LoginOf(form) ==
  LET Kept(s) == SubSeq(s, 1, Len(s) % Wide)
      user == Kept(Encode(form.user))
      pass == URLDecode(Kept(Encode(form.pass)))
  IN  IF Len(user) > UserLen \/ pass = <<>> THEN Erased ELSE user \o <<0>> \o pass

(* What a form makes of a page; Erased, if it leaves it alone.             *)
SettingOf(form, p) ==
  IF ~HasKeys(form.keys, p) THEN Erased
  ELSE IF p = "login" THEN LoginOf(form) ELSE form.setting

-----------------------------------------------------------------------------
(* What the user may rely on: a form that lacks a key changes nothing; one *)
(* with all of the keys in order, a name of letters and digits and a       *)
(* password without blanks, with room for both, is saved as it was typed.  *)
InOrder(form, p) ==
  \E at \in [DOMAIN Keys[p] -> DOMAIN form.keys] :
    /\ \A n \in DOMAIN at : form.keys[at[n]] = Keys[p][n]
    /\ \A n \in DOMAIN at : \A m \in 1 .. n - 1 : at[m] < at[n]

Legal(form) ==
  /\ ToSet(form.user) \subseteq Digits \cup Letters /\ Len(form.user) <= UserLen
  /\ Blank \notin ToSet(form.pass) /\ Len(form.pass) \in 1 .. PassLen
  /\ Len(Encode(form.pass)) < Wide

Ought(form, p) ==
  IF ~(ToSet(Keys[p]) \subseteq ToSet(form.keys)) THEN entered[p]
  ELSE IF p = "login" /\ InOrder(form, p) /\ Legal(form) THEN form.user \o <<0>> \o form.pass
  ELSE IF p # "login" /\ InOrder(form, p) THEN form.setting
  ELSE IF SettingOf(form, p) # Erased THEN SettingOf(form, p) ELSE entered[p]

-----------------------------------------------------------------------------
(* Nothing was ever saved.                                                 *)
Init ==
  /\ flash = [p \in Pages |-> Page(p, Erased)]
  /\ ram = flash
  /\ doing = "boot" /\ todo = <<>> /\ faults = 0
  /\ entered = Default
  /\ hurt = Pages /\ saved = {} /\ cause = "none"

Call(p, s) == [page |-> p, setting |-> s, word |-> 0]

(* WCHNET_RestoreDefaults: all pages are erased before one is written.     *)
StartRestore(why) ==
  /\ doing' = "restore"
  /\ todo' = <<Call("basic", Erased), Call("port", Erased), Call("login", Erased),
               Call("basic", Default["basic"]), Call("port", Default["port"]),
               Call("login", Default["login"])>>
  /\ entered' = Default
  /\ cause' = why

(* main: the button is held, ...                                           *)
Hold ==
  /\ doing = "boot"
  /\ doing' = "held"
  /\ UNCHANGED <<flash, ram, todo, faults, entered, hurt, saved, cause>>

(* ... and let go.                                                         *)
Release ==
  /\ doing = "held"
  /\ StartRestore("button")
  /\ UNCHANGED <<flash, ram, faults, hurt, saved>>

(* Mistake: only the flags of the first page decide.                       *)
ReadConfigFirst ==
  /\ doing = "boot"
  /\ ram' = flash
  /\ saved' = {}
  /\ IF HasFlags(flash["basic"])
     THEN doing' = "run" /\ UNCHANGED <<todo, entered, cause>>
     ELSE StartRestore(IF hurt = {} THEN "nothing" ELSE "hurt")
  /\ UNCHANGED <<flash, faults, hurt>>

(* The button is not held: WEB_READ of the three pages, whose flags decide *)
(* what comes next.                                                        *)
ReadConfig ==
  /\ doing = "boot"
  /\ ram' = flash
  /\ saved' = {}
  /\ IF \A p \in Pages : HasFlags(flash[p])
     THEN doing' = "run" /\ UNCHANGED <<todo, entered, cause>>
     ELSE StartRestore(IF hurt = {} THEN "nothing" ELSE "hurt")
  /\ UNCHANGED <<flash, faults, hurt>>

(* A form is posted to the "success" page: the pages it is for are saved   *)
(* one after the other.                                                    *)
Post(form) ==
  LET Save(p) == IF SettingOf(form, p) = Erased THEN <<>>
                 ELSE <<Call(p, Erased), Call(p, SettingOf(form, p))>>
  IN  /\ doing = "run"
      /\ entered' = [p \in Pages |-> Ought(form, p)]
      /\ todo' = Save("basic") \o Save("port") \o Save("login")
      /\ doing' = "save"
      /\ UNCHANGED <<flash, ram, faults, hurt, saved, cause>>

(* WEB_ERASE of a page.                                                    *)
EraseCall ==
  /\ todo # <<>> /\ Head(todo).setting = Erased
  /\ flash' = [flash EXCEPT ![Head(todo).page] = Page(Head(todo).page, Erased)]
  /\ hurt' = hurt \cup {Head(todo).page}
  /\ saved' = saved \cup {Head(todo).page}
  /\ todo' = Tail(todo)
  /\ UNCHANGED <<ram, doing, faults, entered, cause>>

(* WEB_WRITE: FLASH_ProgramWord succeeds, ...                              *)
WriteWord ==
  LET c == Head(todo)
      last == c.word + 1 = Words[c.page]
  IN  /\ todo # <<>> /\ c.setting # Erased
      /\ flash' = [flash EXCEPT ![c.page][c.word + 1] = c.setting]
      /\ todo' = IF last THEN Tail(todo) ELSE [todo EXCEPT ![1].word = @ + 1]
      /\ hurt' = IF last THEN hurt \ {c.page} ELSE hurt
      /\ UNCHANGED <<ram, doing, faults, entered, saved, cause>>

(* ... or fails, which ends the loop and is not reported.                  *)
WriteFails ==
  /\ todo # <<>> /\ Head(todo).setting # Erased
  /\ faults < MaxFaults
  /\ faults' = faults + 1
  /\ todo' = Tail(todo)
  /\ UNCHANGED <<flash, ram, doing, entered, hurt, saved, cause>>

(* The form is answered; after the defaults, NVIC_SystemReset.             *)
Finish ==
  /\ todo = <<>>
  /\ \/ doing = "save" /\ doing' = "run"
     \/ doing = "restore" /\ doing' = "boot"
  /\ cause' = "none"
  /\ UNCHANGED <<flash, ram, todo, faults, entered, hurt, saved>>

(* Power fails, or the reset pin is pulled.                                *)
PowerCut ==
  /\ doing # "boot"
  /\ faults < MaxFaults
  /\ faults' = faults + 1
  /\ doing' = "boot" /\ todo' = <<>> /\ cause' = "none"
  /\ hurt' = hurt \cup {todo[n].page : n \in DOMAIN todo}
  /\ ram' = [p \in Pages |-> Page(p, Erased)]
  /\ saved' = {}
  /\ UNCHANGED <<flash, entered>>

Program == ReadConfig \/ EraseCall \/ WriteWord \/ Finish
User == Hold \/ \E form \in Forms : Post(form)
Next == Program \/ Release \/ User \/ WriteFails \/ PowerCut

Spec == Init /\ [][Next]_vars

(* The program goes on, and nobody holds the button for ever.              *)
FairSpec == Spec /\ WF_vars(Program) /\ WF_vars(Release)

-----------------------------------------------------------------------------
(* A page that is not being written holds what was last entered for it,    *)
(* in all of its words, unless its last writing did not come to its end;   *)
(* in particular, power that fails while one page is saved harms no other, *)
(* and no form changes half of its page.                                   *)
PagesRight ==
  \A p \in Pages :
    (p \notin hurt /\ \A n \in DOMAIN todo : todo[n].page # p) => flash[p] = Page(p, entered[p])

(* The program runs with three pages that have their flags, and with what  *)
(* they said when it started: what is saved takes effect at the next start.*)
RunsOnFlags ==
  doing \in {"run", "save"} =>
    \A p \in Pages : HasFlags(ram[p]) /\ (p \in saved \/ ram[p] = flash[p])

(* Nobody's settings give way to the defaults unless the button was held   *)
(* or the writing of a page did not come to its end.                       *)
DefaultsOnlyIf == doing = "restore" => cause \in {"button", "hurt"}

ConfigInv == PagesRight /\ RunsOnFlags /\ DefaultsOnlyIf

(* When power lasts, the program gets to run, unless the button is held:   *)
(* the defaults are not restored for ever.                                 *)
RunsAgain == (doing = "boot") ~> (doing \in {"run", "held"})
=============================================================================
