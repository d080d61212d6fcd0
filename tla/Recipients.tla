----------------------------- MODULE Recipients -----------------------------
(***************************************************************************)
(* Who a name refers to and whether they may be written to                 *)
(* (whatsapp-bridge/src/recipients.js, transport.js, people.js).  A name   *)
(* is the sequence of its words after foldName: two strings that fold to   *)
(* the same form are the same name here, and what is left of the string is *)
(* its words and their order.  The empty sequence is no name.              *)
(***************************************************************************)
EXTENDS Naturals, Sequences, SequencesExt, FiniteSets

NoName == <<>>

WordsOf(name) == {name[i] : i \in DOMAIN name}

\* An alias is a lookup, never a permission.
resolveAlias(name, aliases) == IF name \in DOMAIN aliases THEN aliases[name] ELSE name

assertSendConfigured(enabled, allowlist) == enabled /\ allowlist # {}

assertSendable(name, allowlist) == name \in allowlist

assertResolvedMatches(requested, resolved) == requested = resolved

-----------------------------------------------------------------------------
(* The roster: per contact the name it advertises, the name the account's  *)
(* owner saved it under, and whether its address is still provisional.     *)

Labels(contact) == {contact.push, contact.full} \ {NoName}

matchedName(contact) == IF contact.push # NoName THEN contact.push ELSE contact.full

Refused(why) == [found |-> FALSE, why |-> why]

\* Exact names first, then names it begins, then names that hold its words:
\* the first of these that any contact has.
Candidates(name, roster) ==
    LET exact == {c \in DOMAIN roster : name \in Labels(roster[c])}
        prefixed == {c \in DOMAIN roster : \E l \in Labels(roster[c]) : IsPrefix(name, l)}
        byWords == {c \in DOMAIN roster :
                      \E l \in Labels(roster[c]) : WordsOf(name) \subseteq WordsOf(l)}
    IN  IF exact # {} THEN exact ELSE IF prefixed # {} THEN prefixed ELSE byWords

\* More than one candidate is refused, and so is a provisional address.
resolveRecipient(name, roster, groupsUnavailable) ==
    LET candidates == Candidates(name, roster)
        chosen == CHOOSE c \in candidates : TRUE
    IN  IF name = NoName THEN Refused("unnamed")
        ELSE IF candidates = {} THEN Refused(IF groupsUnavailable THEN "unavailable" ELSE "unknown")
        ELSE IF Cardinality(candidates) > 1 THEN Refused("ambiguous")
        ELSE IF roster[chosen].provisional THEN Refused("provisional")
        ELSE [found |-> TRUE, key |-> chosen, name |-> matchedName(roster[chosen])]

\* Mutant of Recipient: the name that answered is allowed, and is the one asked for or not.
RecipientUnmatched(requested, roster, groupsUnavailable, allowlist) ==
    LET resolved == resolveRecipient(requested, roster, groupsUnavailable)
    IN  IF ~resolved.found THEN resolved
        ELSE IF ~assertSendable(resolved.name, allowlist) THEN Refused("not allowed")
        ELSE resolved

\* resolveAllowedRecipient once the roster has answered: resolve, permit, match.
Recipient(requested, roster, groupsUnavailable, allowlist) ==
    LET resolved == resolveRecipient(requested, roster, groupsUnavailable)
    IN  IF ~resolved.found THEN resolved
        ELSE IF ~assertSendable(resolved.name, allowlist) THEN Refused("not allowed")
        ELSE IF ~assertResolvedMatches(requested, resolved.name) THEN Refused("mismatch")
        ELSE resolved

=============================================================================
