------------------------------ MODULE Catalog -------------------------------
(***************************************************************************)
(* The catalogue of the local workspace: channels with the directories     *)
(* that were imported for them (channels.mjs), the card products offered   *)
(* on top of them (bins.mjs), and the cards opened from the products.      *)
(*                                                                         *)
(* Every command is one transaction; a save or an import that names an old *)
(* revision is refused and left out.  A customer opens a card from a list  *)
(* that was read earlier.                                                  *)
(***************************************************************************)
EXTENDS Integers, FiniteSets

CONSTANTS
  Channels, Sources, Products,  \* what may be configured
  Prefixes,                     \* card prefixes
  Limits,                       \* how many cards a product may have
  MaxProductRevision            \* bound of a product's revisions

ASSUME CatalogAssumption ==
  /\ Limits \subseteq Nat \ {0} /\ MaxProductRevision \in Nat
  /\ "none" \notin Prefixes \cup Channels \cup Sources

VARIABLES
  channel,    \* channel -> status of its row of card_channels
  directory,  \* channel -> upstream product -> its row of channel_products
  product,    \* product -> its rows of bin_products and bin_channel_links
  cards,      \* bin_card_links: the product as it was when a card was opened
  listed      \* product -> the entry of the customer's list, as last read

catalogVars == <<channel, directory, product, cards, listed>>

NoSource == [prefix |-> "none", status |-> "absent"]
NoProduct == [status |-> "absent", max |-> 0, revision |-> -1, prefix |-> "none",
              platform |-> "Demo", upstream |-> "none", channel |-> "none"]
ProductStatus == {"draft", "active", "paused", "archived"}

CatalogInit ==
  /\ channel = [c \in Channels |-> "absent"]
  /\ directory = [c \in Channels |-> [s \in Sources |-> NoSource]]
  /\ product = [p \in Products |-> NoProduct]
  /\ cards = {}
  /\ listed = [p \in Products |-> NoProduct]

Issued(p) == Cardinality({c \in cards : c.product = p})
ListedAt(p, c, s) == product[p].channel = c /\ product[p].upstream = s

-----------------------------------------------------------------------------
(* saveChannel: the entity and the account of a channel are left out. *)
SaveChannel(c, status) ==
  /\ channel' = [channel EXCEPT ![c] = status]
  /\ UNCHANGED <<directory, product, cards, listed>>

(* The rows an import supplies replace the stored ones; the others stay. *)
Imported(c, items) ==
  /\ directory' = [directory EXCEPT ![c] =
       [s \in Sources |-> IF items[s] = NoSource THEN @[s] ELSE items[s]]]
  /\ UNCHANGED <<channel, product, cards, listed>>

(* Mistake: the prefix of a product in use is overwritten. *)
ImportAnyPrefix(c, items) == channel[c] # "absent" /\ Imported(c, items)

(* importChannelProducts: all or nothing; the prefix of an upstream        *)
(* product some product is linked to does not change.                      *)
ImportChannelProducts(c, items) ==
  /\ channel[c] # "absent"
  /\ \A s \in Sources :
       items[s] # NoSource /\ directory[c][s] # NoSource /\ directory[c][s].prefix # items[s].prefix
         => \A p \in Products : ~ListedAt(p, c, s)
  /\ Imported(c, items)

(* productChannel, binProduct: why no card can be opened. *)
Blocked(row) ==
  IF row.channel = "none" THEN row.platform # "Demo"
  ELSE LET source == directory[row.channel][row.upstream] IN
       \/ channel[row.channel] # "active"
       \/ source.prefix # row.prefix
       \/ source.status # "active"

(* What the issuer knows a product by. *)
Identity(row) == <<row.prefix, row.platform, row.upstream, row.channel>>

(* Whether the channel a product is linked to lists it. *)
Bindable(row) ==
  row.channel # "none" =>
    /\ channel[row.channel] # "absent" /\ row.upstream # "none" /\ row.platform = "Slash"
    /\ directory[row.channel][row.upstream].prefix = row.prefix

Saved(p, row, revision) ==
  /\ product' = [product EXCEPT ![p] = [row EXCEPT !.revision = revision]]
  /\ UNCHANGED <<channel, directory, cards, listed>>

MaySave(p, row) ==
  LET old == product[p] IN
  /\ old.revision < MaxProductRevision
  /\ old.status = "archived" => row.status = "archived"
  /\ row.max >= Issued(p)
  /\ Bindable(row)
  /\ row.status = "active" /\ old.status # "active" => ~(row.channel # "none" /\ Blocked(row))
  /\ row.status = "active" => row.platform = "Demo" \/ row.channel # "none"

(* Mistake: the revision only counts changes of the status. *)
SaveBinQuietly(p, row) ==
  /\ MaySave(p, row)
  /\ Issued(p) > 0 => Identity(row) = Identity(product[p])
  /\ Saved(p, row, product[p].revision + (IF row.status # product[p].status THEN 1 ELSE 0))

(* saveBin and bindProduct: what identifies a product to its issuer is     *)
(* fixed once a card of it is open.                                        *)
SaveBin(p, row) ==
  /\ MaySave(p, row)
  /\ Issued(p) > 0 => Identity(row) = Identity(product[p])
  /\ Saved(p, row, product[p].revision + 1)

-----------------------------------------------------------------------------
(* binsList for a customer. *)
Show(p) ==
  /\ product[p].status \in {"active", "paused"}
  /\ listed' = [listed EXCEPT ![p] = product[p]]
  /\ UNCHANGED <<channel, directory, product, cards>>

(* validateOpening and portalAction: a card is opened from the list. *)
Open(p) ==
  /\ listed[p] # NoProduct /\ listed[p].revision = product[p].revision
  /\ ~Blocked(product[p]) /\ product[p].status = "active"
  /\ Issued(p) < product[p].max
  /\ cards' = cards \cup {[product |-> p, number |-> Issued(p) + 1,
                           prefix |-> product[p].prefix, revision |-> product[p].revision]}
  /\ UNCHANGED <<channel, directory, product, listed>>

Rows == [status : ProductStatus, max : Limits, revision : {0}, prefix : Prefixes,
         platform : {"Demo", "Slash"}, upstream : Sources \cup {"none"},
         channel : Channels \cup {"none"}]
Items == [Sources -> [prefix : Prefixes, status : {"active", "inactive"}] \cup {NoSource}]

CatalogNext ==
  \/ \E c \in Channels :
       \/ \E status \in {"active", "paused"} : SaveChannel(c, status)
       \/ \E items \in Items : ImportChannelProducts(c, items)
  \/ \E p \in Products : Show(p) \/ Open(p) \/ \E row \in Rows : SaveBin(p, row)

CatalogSpec == CatalogInit /\ [][CatalogNext]_catalogVars

-----------------------------------------------------------------------------
(* Types of all variables. *)
CatalogTypes ==
  /\ channel \in [Channels -> {"absent", "active", "paused"}]
  /\ directory \in [Channels -> [Sources -> [prefix : Prefixes \cup {"none"},
                                             status : {"absent", "active", "inactive"}]]]
  /\ \A row \in {product[p] : p \in Products} \cup {listed[p] : p \in Products} :
       /\ row.status \in ProductStatus \cup {"absent"} /\ row.max \in Limits \cup {0}
       /\ row.revision \in Int /\ row.prefix \in Prefixes \cup {"none"}
       /\ row.upstream \in Sources \cup {"none"} /\ row.channel \in Channels \cup {"none"}
  /\ cards \subseteq [product : Products, number : Nat, prefix : Prefixes, revision : Nat]

(* Three tables agree, whoever saved or imported what in between: every    *)
(* open card has the prefix its product still has, the channel the product *)
(* is linked to lists it with that prefix, and no product has more cards   *)
(* than it may have.                                                       *)
CardsAsListed ==
  /\ \A card \in cards : card.prefix = product[card.product].prefix
  /\ \A p \in Products : product[p].channel # "none" =>
       directory[product[p].channel][product[p].upstream].prefix = product[p].prefix
  /\ \A p \in Products : Issued(p) <= product[p].max

(* A card that is opened is the product the customer last saw, although    *)
(* the list may be old.                                                    *)
OpenedAsShown ==
  [][\A card \in cards' \ cards :
       /\ card.prefix = listed[card.product].prefix
       /\ Identity(product[card.product]) = Identity(listed[card.product])]_catalogVars
=============================================================================
