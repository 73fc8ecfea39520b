----------------------------- MODULE MCCatalogue -----------------------------
EXTENDS Catalogue

CONSTANTS k1, k2, k3

Asks(op, keys) == [op |-> op, keys |-> keys, part |-> "none", of |-> 0]
Part(part, op, keys) == [op |-> op, keys |-> keys, part |-> part, of |-> 1]

\* Hotel calls that share keys; two titles registered at once and used; casts
\* that are partly cached or missing, or asked for twice; reviews and
\* posts stored while they are read; a page that is read while its documents
\* are written.
SomeScenarios ==
  {<<Asks("GetRates", <<k1, k2, k3>>), Asks("GetRates", <<k2, k1>>)>>,
   <<Asks("GetProfiles", <<k1, k2, k3>>), Asks("GetProfiles", <<k1, k2>>)>>,
   <<Asks("GetReviews", <<k1>>), Asks("GetReviews", <<k1>>), Asks("GetReviews", <<k3>>)>>,
   <<Asks("RegisterMovieId", <<k1>>), Asks("RegisterMovieId", <<k1>>),
     Asks("UploadMovieId", <<k1>>), Asks("UploadMovieId", <<k1>>)>>,
   <<Asks("ReadCastInfo", <<k1, k2>>), Asks("ReadCastInfo", <<k2, k3>>),
     Asks("ReadCastInfo", <<k1, k1>>), Asks("WriteCastInfo", <<k2>>), Asks("WriteCastInfo", <<k1>>)>>,
   <<Asks("StoreReview", <<k1>>), Asks("StoreReview", <<k2>>), Asks("ReadReviews", <<k1, k2>>),
     Asks("ReadReviews", <<k2, k3>>), Asks("ReadReviews", <<k1, k1>>), Asks("ReadReviews", <<>>)>>,
   <<Asks("StorePost", <<k1>>), Asks("StorePost", <<k1>>), Asks("ReadPost", <<k1>>),
     Asks("ReadPost", <<k1>>)>>,
   <<Asks("ReadPage", <<>>), Part("info", "ReadMovieInfo", <<k1>>),
     Part("cast", "ReadCastInfo", <<k1, k2>>), Part("plot", "ReadPlot", <<k3>>),
     Asks("WriteMovieInfo", <<k1>>), Asks("WriteCastInfo", <<k2>>), Asks("WriteCastInfo", <<k1>>),
     Asks("WritePlot", <<k3>>)>>,
   <<Asks("ReadPage", <<>>), Part("info", "ReadMovieInfo", <<k1>>),
     Part("cast", "ReadCastInfo", <<>>), Part("plot", "ReadPlot", <<k2>>),
     Asks("WriteMovieInfo", <<k1>>), Asks("WritePlot", <<k2>>), Asks("WritePlot", <<k2>>)>>}

Visit(op, name, password, user) == [op |-> op, name |-> name, password |-> password, user |-> user]

\* Two registrations of a name, two logins and a review; an id of 0; the same
\* in the social network, where an id of 0 is one like any other.
SomeUsers ==
  {<<Visit("RegisterUser", "ann", "p", 7), Visit("RegisterUserWithId", "ann", "q", 8),
     Visit("Login", "ann", "p", 0), Visit("Login", "ann", "q", 0)>>,
   <<Visit("RegisterUser", "ann", "p", 7), Visit("UploadUserWithUsername", "ann", "", 0),
     Visit("Login", "ann", "p", 0), Visit("Login", "ann", "p", 0)>>,
   <<Visit("RegisterUser", "ann", "p", 0), Visit("UploadUserWithUsername", "ann", "", 0),
     Visit("Login", "ann", "p", 0), Visit("UploadUserWithUserId", "", "", 0)>>,
   <<Visit("RegisterUser", "ann", "p", 0), Visit("RegisterUser", "ann", "q", 8),
     Visit("SocialLogin", "ann", "p", 0), Visit("SocialLogin", "ann", "q", 0)>>,
   <<Visit("RegisterUser", "ann", "p", 0), Visit("SocialLogin", "ann", "p", 0),
     Visit("GetUserId", "ann", "", 0), Visit("GetUserId", "ann", "", 0)>>}
=============================================================================
