----------------------------- MODULE MCSiteScan -----------------------------
(***************************************************************************)
(* Instances of SiteScan for TLC.                                          *)
(***************************************************************************)
EXTENDS SiteScan

On(host, path) == [host |-> host, path |-> path]

Out   == {"public"}             \* an external host
Mixed == {"public", "private"}  \* a name that is both
Lan   == {"private"}            \* an internal one
Group == {"multicast"}
Gone  == {}                     \* a name that does not resolve

Call(tool, seeds, paths, max) ==
  [tool |-> tool, seeds |-> seeds, paths |-> paths, max |-> max]

\* Seeds of every kind; a scan of an internal and an external seed in either order, with a
\* path of the site and one that names another, internal host.
MCCalls ==
  {Call(tool, <<On(host, "/")>>, <<>>, 0) :
     tool \in {"discover", "robots"}, host \in {Out, Mixed, Lan, Group, Gone}}
  \cup {Call("robots", <<On(Out, Robots)>>, <<>>, 0)}
  \cup {Call("sitemap", <<On(host, "/")>>, <<>>, max) : host \in {Out, Lan}, max \in {0, 2, 3}}
  \cup {Call("hunt", seeds, paths, 0) :
          seeds \in {<<On(Out, "/"), On(Lan, "/")>>, <<On(Lan, "/"), On(Out, "/")>>},
          paths \in {<<On(Same, "/"), On(Same, "/a")>>, <<On(Same, "/"), On(Lan, "/x")>>}}

MCPaths == {Robots, Sitemap, "/llms.txt", "/", "/a", "/x", "/elsewhere", "/moved",
            "/1", "/2", "/3", "here"}

\* None; to another host that is external, or partly internal; a Location on an internal one.
MCRedirects == {[landed |-> Here, permanent |-> Here],
                [landed |-> On(Out, "/elsewhere"), permanent |-> Here],
                [landed |-> On(Mixed, "/elsewhere"), permanent |-> Here],
                [landed |-> Here, permanent |-> On(Lan, "/moved")]}

Doc(kind, hits, children) == [kind |-> kind, hits |-> hits, children |-> children]

MCDocuments ==
  [tool \in Tools |->
     CASE tool = "discover" -> {Doc("urlset", 1, <<>>), Doc("html", 1, <<>>),
                                Doc("xhtml", 0, <<>>), Doc("text", 1, <<>>)}
       [] tool = "sitemap"  -> {Doc("urlset", 2, <<>>), Doc("garbage", 0, <<>>),
                                Doc("broken", 0, <<>>),
                                Doc("index", 0, <<On(Out, "/1"), On(Out, "/2"), On(Out, "/3")>>),
                                Doc("index", 0, <<On(Out, "/1"), On(Mixed, "/2")>>)}
       [] tool = "robots"   -> {Doc("text", 0, <<>>), Doc("html", 0, <<>>)}
       [] tool = "hunt"     -> {Doc("html", 0, <<>>), Doc("html", 1, <<>>)}]

\* One of each.
MCSitemapPaths == <<Sitemap>>
MCLlmsPaths    == <<"/llms.txt">>

=============================================================================
