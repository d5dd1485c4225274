-------------------------------- MODULE Services --------------------------------
(* The mailboxes of a rep and their grants, the mail that is captured, the *)
(* composer, the caller names, the dialer, the greetings and the drops.    *)
(* They share no state: one behaviour is one of a single component, the    *)
(* others having nothing to do.                                            *)
(***************************************************************************)
EXTENDS Mailboxes, MailGrants, MailCapture, CallerNames, Dialer, Greetings, VoicemailDrops, Composer

(* What the theorems ask of the constants.                                 *)
ServiceConstants ==
    /\ MailConstants /\ GrantConstants /\ CapConstants /\ NameConstants /\ GreetConstants
    /\ DropConstants /\ DialConstants /\ OneCallAtATime /\ ComposerConstants

-----------------------------------------------------------------------------
services ==
    <<mailVars, grantVars, capVars, greetVars, dropVars, nameVars, dialVars, composerVars>>

Active == <<mailKinds, grantKinds, capKinds, greetKinds, dropKinds, nameKinds, dialKinds,
            composerKinds>>
Alone == \A i, j \in DOMAIN Active : i # j /\ Active[i] # {} => Active[j] = {}

ServicesInit ==
    /\ mailKinds \in MailKindSets /\ grantKinds \in GrantKindSets
    /\ capKinds \in {c.kinds : c \in CapInstances} /\ greetKinds \in GreetKindSets
    /\ dropKinds \in {l.kinds : l \in DropInstances} /\ nameKinds \in NameKindSets
    /\ dialKinds \in {d.kinds : d \in DialInstances}
    /\ composerKinds \in {c.kinds : c \in ComposerInstances}
    /\ Alone
    /\ MailInit /\ GrantsInit /\ CapInit /\ GreetInit /\ DropInit /\ NamesInit /\ DialInit
    /\ ComposerInit

ServicesNext ==
    \/ mailKinds # {} /\ MailNext
       /\ UNCHANGED <<grantVars, capVars, greetVars, dropVars, nameVars, dialVars, composerVars>>
    \/ grantKinds # {} /\ GrantNext
       /\ UNCHANGED <<mailVars, capVars, greetVars, dropVars, nameVars, dialVars, composerVars>>
    \/ capKinds # {} /\ CapNext
       /\ UNCHANGED <<mailVars, grantVars, greetVars, dropVars, nameVars, dialVars, composerVars>>
    \/ greetKinds # {} /\ GreetNext
       /\ UNCHANGED <<mailVars, grantVars, capVars, dropVars, nameVars, dialVars, composerVars>>
    \/ dropKinds # {} /\ DropNext
       /\ UNCHANGED <<mailVars, grantVars, capVars, greetVars, nameVars, dialVars, composerVars>>
    \/ nameKinds # {} /\ NameNext
       /\ UNCHANGED <<mailVars, grantVars, capVars, greetVars, dropVars, dialVars, composerVars>>
    \/ dialKinds # {} /\ DialNext
       /\ UNCHANGED <<mailVars, grantVars, capVars, greetVars, dropVars, nameVars, composerVars>>
    \/ composerKinds # {} /\ ComposerNext
       /\ UNCHANGED <<mailVars, grantVars, capVars, greetVars, dropVars, nameVars, dialVars>>

ServicesSpec == ServicesInit /\ [][ServicesNext]_services

-----------------------------------------------------------------------------
(* A component that has nothing to do keeps its first state.               *)
ServicesTypeOK ==
    /\ mailKinds # {} => MailTypeOK
    /\ grantKinds # {} => GrantTypeOK
    /\ capKinds # {} => CapTypeOK
    /\ greetKinds # {} => GreetTypeOK
    /\ dropKinds # {} => DropTypeOK
    /\ nameKinds # {} => NamesTypeOK
    /\ dialKinds # {} => DialTypeOK
    /\ composerKinds # {} => ComposerTypeOK
=============================================================================
