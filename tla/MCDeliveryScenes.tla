--------------------------- MODULE MCDeliveryScenes ---------------------------
(* TLC instance of three components that share no state: the delivery of a    *)
(* notice (Delivery), what notices are about (Community; comments, requests   *)
(* and reports apart) and the lists clients walk (Listing).  Each behaviour   *)
(* plays one of them.                                                         *)
EXTENDS MCDelivery, Community, Listing

VARIABLE scene

Scenes == {"delivery", "comments", "wishes", "reports", "listing"}

SceneInit ==
    /\ scene \in Scenes
    /\ Init /\ CommunityInit /\ ListingInit
    /\ scene # "listing" => list = Inbox

SceneNext ==
    \/ scene = "delivery" /\ Next /\ UNCHANGED <<communityVars, listingVars, scene>>
    \/ scene = "comments" /\ CommentNext /\ UNCHANGED <<vars, listingVars, scene>>
    \/ scene = "wishes" /\ WishNext /\ UNCHANGED <<vars, listingVars, scene>>
    \/ scene = "reports" /\ ReportNext /\ UNCHANGED <<vars, listingVars, scene>>
    \/ scene = "listing" /\ ListingNext /\ UNCHANGED <<vars, communityVars, scene>>

SceneSpec == SceneInit /\ [][SceneNext]_<<vars, communityVars, listingVars, scene>>

Symmetry == Permutations(Threads) \cup Permutations(Rows)
===============================================================================
